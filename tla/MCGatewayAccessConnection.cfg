\* The queue holds all the client can be owed and the news: nothing is refused.
CONSTANTS
  SendQueueLimit = 8
  Request = Request
  Data = Data
  Reply = Reply
  News = News
  MaxFrames = 3
  MaxNews = 2
SPECIFICATION Spec
INVARIANTS TypeOK FramesMatchFirst ResponsesInOrder
PROPERTIES MixedFramingCloses OwedFramesArrive
