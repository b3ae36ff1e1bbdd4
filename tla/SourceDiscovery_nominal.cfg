SPECIFICATION FairSpec
CONSTANTS
  s1 = s1
  s2 = s2
  e1 = e1
  e2 = e2
  e3 = e3
  Sources = {s1, s2}
  Conditional = {s1}
  Entries = {e1, e2}
  Early = {e1}
  SourceOf <- Publishers
  StoryOf <- OneStory
  PageOf <- OwnPage
  TextOf <- OwnText
  ScoreOf <- OneLow
  Clusters = {c1, c2, c3, c4}
  Worker = worker
  Calls = {r1}
  Requested = {s2}
  Searcher = searcher
  Searches = {r2}
  SearchAgain = FALSE
  Searchable = {e2}
  LastRevision <- OneRewrite
  ItemVerdicts = {"rejected"}
  ClusterVerdicts = {"covered", "rejected"}
  FailureThreshold = 1
  Failures = {"feed", "database", "worker", "api"}
  MaxEvents = 1
  None = None
INVARIANT OneClusterPerScorer
PROPERTIES InboxFollowsFeed ItemsPromoted
