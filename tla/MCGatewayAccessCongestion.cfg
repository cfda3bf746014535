\* A client that reads slowly: the third unread frame is refused.
CONSTANTS
  SendQueueLimit = 2
  Request = Request
  Data = Data
  Reply = Reply
  News = News
  MaxFrames = 3
  MaxNews = 1
SPECIFICATION Spec
PROPERTY EveryCommandAnswered
