CONSTANTS
  Type = {1, 2, 3}
  QueueSizes <- MCQueueSizes
  DefaultSize = 3
  Unset = Unset
  Kinds = {"unorderedLinkedList", "stackUnorderedLinkedList", "orderedLinkedList",
           "doublyLinkedList", "linkedStackType", "linkedQueueType", "bSearchTreeType",
           "queueType"}
  Addresses <- MCAddresses
  Elements <- MCElements
  MaxCount = 3
SPECIFICATION StructSpec
INVARIANTS StructTypeOK WellLinked NodesOwned OnlyStored
PROPERTIES IsSequence IsSet IsFifo
