CONSTANTS
  None = None
  r1 = r1
  r2 = r2
  bot = bot
  pair = pair
  nonce = nonce
  link1 = link1
  link2 = link2
  ana = ana
  ben = ben
  movie = movie
  series = series
  podcast = podcast
  gratis = gratis
  guest = guest
  i1 = i1
  i2 = i2
  monthly = monthly
  yearly = yearly
  c1 = c1
  c2 = c2
  c3 = c3
  g1 = g1
  g2 = g2
  Gone = Gone
  google = google
  apple = apple
  telegram = telegram
  e1 = e1
  e2 = e2
  TvSets = {r1, r2}
  TvAdmins = {ben}
  TvTime = 2
  BoughtMovies = {movie, gratis}
  BoughtSerials = {series}
  BoughtPodcasts = {podcast}
  BoughtGratis = {gratis}
  BoughtAccounts = {ana, ben}
  BoughtAdmins = {}
  BoughtIntents = {i1, i2}
  BoughtItem <- Items2
  BoughtRequests = {r1, r2}
  PaidIntents = {i1, i2}
  PaidCode <- Codes2
  PaidPrice <- Prices2
  PaidSnap <- Snaps2
  PaidPlans = {monthly, yearly}
  PaidPlanPrice <- PlanPrices2
  PaidPlanDays <- PlanDays2
  PaidRequests = {r1, r2}
  PaidTime = 4
  PaidRows = 2
  LiveChannels = {c1}
  LiveSources = {link1, link2}
  LiveRequests = {r1, r2}
  StreamWorkers <- Workers2
  StreamRequests = {r1, r2}
  StreamWorker <- Worker2
  StreamLife <- Lives2
  StreamTtl <- Lives2
  StreamLag <- Lags2
  ShelfMovies <- Movies2
  ShelfSerials <- Serials2
  ShelfEpisodes <- Episodes2
  ShelfSeriesOf <- SeriesOf2
  ShelfPodcasts <- Podcasts2
  ShelfNewest <- Newest2
  ShelfGenres <- Genres2
  ShelfLabels = {g1, g2}
  ShelfLimit <- Limit2
  ShelfAccounts <- Accounts2
  ShelfQueries <- Queries2
  ShelfStale = 3
  ShelfAdmins = {ben}
  HomeTypes <- Types6
  HomeCaps <- Caps6
  HomeLimits <- Limits6
  HomeMovies <- Movies6
  HomeSerials <- Serials6
  HomeChannels <- Channels6
  HomeBanners <- Banners6
  HomeNewest <- Newest6
  HomeOffset <- Offset6
  HomeSlides <- Slides6
  HomeRequests <- Requests6
  HomeMedia <- Media6
SPECIFICATION Spec
SYMMETRY Symmetric
INVARIANTS
  GoodOnce
  SignedInByConsent
  OneAccountEach
  DisabledLocksOut
  TvBoxesOverlap
  PaidCodeKept
  PlaylistsInTime
  NoOrphan
  ShelvesAgree
  HomeWhole
PROPERTIES
  SignInKeepsTitles
  PaymentsStack
CHECK_DEADLOCK FALSE
