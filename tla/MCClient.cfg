SPECIFICATION Spec
CONSTANTS
    URL = {home, news, broken, logo, banner}
    home = home  news = news  broken = broken  logo = logo  banner = banner
    NoURL = NoURL
    Content <- SiteContent
    Length <- SiteLength
    MAXNUMREF = 2
    MaxURLs = 1
INVARIANTS TypeOK PageAssembled
PROPERTIES NeverElsewhere FollowsTheChoice AskedAhead
