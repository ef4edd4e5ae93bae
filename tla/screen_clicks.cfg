\* The three channels of a new node, two join requests and a file offer.
SPECIFICATION Spec
CONSTANTS
    Size <- Terminal
    TitleBar <- Top
    ChannelBox <- Sidebar
    FeedBox <- Feed
    Channel = 3
    Request = {r1, r2}
    Offer = {f1}
    NoOffer = NoOffer
    CommandCapacity = 2
    MaxScroll = 3
INVARIANT ClickAnswersShown
CHECK_DEADLOCK FALSE
