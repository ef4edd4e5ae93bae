\* Two channels, two join requests and a file offer, every cell of the screen clicked.
SPECIFICATION Spec
CONSTANTS
    Size <- Terminal
    TitleBar <- Top
    ChannelBox <- Sidebar
    FeedBox <- Feed
    Channel = 2
    Request = {r1, r2}
    Offer = {f1}
    NoOffer = NoOffer
    CommandCapacity = 2
    MaxScroll = 3
INVARIANTS TypeOK OfferAnsweredOnce
PROPERTY AnsweredAsShown
CHECK_DEADLOCK FALSE
