SPECIFICATION SelectionFairSpec
CONSTANTS
  s1 = s1
  e1 = e1
  e2 = e2
  Sources = {s1}
  Conditional = {s1}
  Entries = {e1, e2}
  Early = {e1, e2}
  SourceOf <- OnePublisher
  StoryOf <- OneStory
  PageOf <- OwnPage
  TextOf <- OwnText
  ScoreOf <- AllHigh
  LastRevision <- WrittenOnce
  Clusters = {c1, c2, c3}
  Worker = worker
  Calls = {}
  Requested = {}
  Searcher = searcher
  Searches = {}
  SearchAgain = FALSE
  Searchable = {}
  ItemVerdicts = {}
  ClusterVerdicts = {}
  FailureThreshold = 2
  Failures = {"database"}
  MaxEvents = 2
  Planner = planner
  Editors = {x1}
  ProjectIds = {1, 2, 3}
  None = None
INVARIANTS OneProjectPerStory
PROPERTIES CandidatesTaken
