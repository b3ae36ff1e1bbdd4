---------------------------- MODULE StorySelection ----------------------------
(***************************************************************************)
(* How a story of the inbox becomes a project: the planner of the control  *)
(* worker takes candidates, and editors take any item, next to the         *)
(* discovery that fills the inbox.  Both go through                        *)
(* createProjectFromSourceItem, which looks whether the story is covered   *)
(* and writes the project, the item and the cluster one after another.     *)
(*                                                                         *)
(* One site and one active policy that generates for it; every project is  *)
(* younger than the 72 hours the coverage looks back.                      *)
(***************************************************************************)
EXTENDS SourceDiscovery

CONSTANTS
  Planner,        \* the tick of the control worker
  Editors,        \* POST /v2/source-items/:id/create-project: one call each
  ProjectIds      \* content_projects rows: 1..n

ASSUME SelectionConstants ==
  /\ Planner \notin Editors
  /\ ProjectIds \subseteq Nat

VARIABLES
  project,     \* content_projects rows
  make,        \* what each caller of createProjectFromSourceItem is doing
  contended    \* history: stories that two callers were turning into a project

selectionVars == <<vars, project, make, contended>>

Makers == {Planner} \cup Editors

Stories == {StoryOf[e] : e \in Entries}

ProjectRows == [status : {"none", "live", "deleted"}, story : Stories \cup {None},
                item : Entries \cup {None}, origin : {"manual", "auto"},
                generated : BOOLEAN, maker : Makers \cup {None}]

NoProject == [status |-> "none", story |-> None, item |-> None, origin |-> "manual",
              generated |-> FALSE, maker |-> None]

MakeSteps == {"idle", "select", "next", "read", "cover", "create", "attach", "generate", "mark",
              "regenerate", "process", "reattach", "cluster", "find", "own", "done"}

\* listed: candidates of a tick not looked at yet; wanted: those selected.
MakeIdle == [pc |-> "idle", listed |-> {}, wanted |-> {}, item |-> None, cluster |-> None,
             project |-> 0, update |-> FALSE]

SelectionTypeOK ==
  /\ TypeOK
  /\ project \in [ProjectIds -> ProjectRows]
  /\ \A x \in Makers : /\ make[x].pc \in MakeSteps
                       /\ make[x].listed \cup make[x].wanted \subseteq Entries
                       /\ make[x].project \in ProjectIds \cup {0}
  /\ contended \subseteq Stories

SelectionInit ==
  /\ Init
  /\ project = [p \in ProjectIds |-> NoProject]
  /\ make = [x \in Makers |-> MakeIdle]
  /\ contended = {}

Live == {p \in ProjectIds : project[p].status = "live"}

\* findDuplicateCoverage: projects with a headline like the story's.
Covering(story) == {p \in Live : project[p].story = story}

DiscoveryUnchanged == UNCHANGED <<feed, etag, breaker, fetch, raced>>

\* A step that only moves the call on.
Moves(x, call) ==
  /\ make' = [make EXCEPT ![x] = call]
  /\ UNCHANGED <<project, contended, item, cluster, requests, failures>>
  /\ DiscoveryUnchanged

MakeGoto(x, pc) == make' = [make EXCEPT ![x].pc = pc]

-----------------------------------------------------------------------------
(* Who wants a project *)

\* Faulty variant: whether the story is covered is left to the creation.
NoProjectOf(e) == \A p \in ProjectIds : project[p].item # e

Uncovered(e) == Covering(StoryOf[e]) = {}

\* The query of selectCandidates: no project was made of the item.
Candidates == {e \in Stored : /\ item[e].status = "candidate" /\ item[e].score = "high"
                              /\ \A p \in ProjectIds : project[p].item # e}

\* What the planner may take.
Eligible == {e \in Candidates : Uncovered(e)}

PlannerLists ==
  /\ make[Planner].pc = "idle"
  /\ Candidates # {}
  /\ Moves(Planner, [make[Planner] EXCEPT !.pc = "select", !.listed = Candidates])

\* Each candidate's coverage is read by itself, until the day has no room.
PlannerSelects ==
  /\ make[Planner].pc = "select"
  /\ \/ \E e \in make[Planner].listed :
          Moves(Planner, [make[Planner] EXCEPT
                            !.listed = @ \ {e},
                            !.wanted = IF Uncovered(e) THEN @ \cup {e} ELSE @])
     \/ /\ make[Planner].wanted # {} \/ make[Planner].listed = {}
        /\ Moves(Planner, [make[Planner] EXCEPT !.pc = "next", !.listed = {}])

PlannerTakes ==
  /\ make[Planner].pc = "next"
  /\ \/ \E e \in make[Planner].wanted :
          Moves(Planner, [make[Planner] EXCEPT !.pc = "read", !.item = e,
                                               !.wanted = @ \ {e}])
     \/ make[Planner].wanted = {} /\ Moves(Planner, MakeIdle)

\* An editor names an item of whatever status.
EditorAsks(x, e, update) ==
  /\ x \in Editors /\ make[x].pc = "idle"
  /\ e \in Stored
  /\ Asks
  /\ make' = [make EXCEPT ![x] = [MakeIdle EXCEPT !.pc = "read", !.item = e,
                                                  !.update = update]]
  /\ UNCHANGED <<project, contended, item, cluster, failures>> /\ DiscoveryUnchanged

\* The call is over: the tick goes on, the request is answered.
Made(x) == IF x = Planner THEN [MakeIdle EXCEPT !.pc = "next", !.wanted = make[x].wanted]
                          ELSE [MakeIdle EXCEPT !.pc = "done"]

\* The call throws: the rest of the tick is lost with it.
Thrown(x) == IF x = Planner THEN MakeIdle ELSE [MakeIdle EXCEPT !.pc = "done"]

-----------------------------------------------------------------------------
(* createProjectFromSourceItem *)

Busy(story) == {x \in Makers : make[x].item # None /\ StoryOf[make[x].item] = story}

ReadItem(x) ==
  /\ make[x].pc = "read"
  /\ LET e == make[x].item IN
     /\ make' = [make EXCEPT ![x].pc = "cover", ![x].cluster = item[e].cluster]
     /\ contended' = IF Cardinality(Busy(StoryOf[e])) > 1
                       THEN contended \cup {StoryOf[e]} ELSE contended
  /\ UNCHANGED <<project, item, cluster, requests, failures>> /\ DiscoveryUnchanged

\* Faulty variant: only a project of the very same item covers it.
ReadCoverageOfItem(x) ==
  /\ make[x].pc = "cover"
  /\ LET covering == {p \in Live : project[p].item = make[x].item} IN
     \/ covering = {} /\ Moves(x, [make[x] EXCEPT !.pc = "create"])
     \/ covering # {} /\ ~make[x].update /\ Moves(x, Thrown(x))
     \/ /\ make[x].update
        /\ \E p \in covering :
             Moves(x, [make[x] EXCEPT !.pc = "regenerate", !.project = p])

ReadCoverage(x) ==
  /\ make[x].pc = "cover"
  /\ LET covering == Covering(StoryOf[make[x].item]) IN
     \/ covering = {} /\ Moves(x, [make[x] EXCEPT !.pc = "create"])
     \/ covering # {} /\ ~make[x].update /\ Moves(x, Thrown(x))
     \/ /\ make[x].update
        /\ \E p \in covering :
             Moves(x, [make[x] EXCEPT !.pc = "regenerate", !.project = p])

FreeProjects == {p \in ProjectIds : project[p].status = "none"}

\* The row is created without its item, which a second statement adds.
CreateProject(x) ==
  /\ make[x].pc = "create"
  /\ FreeProjects # {}
  /\ LET p == CHOOSE p \in FreeProjects : \A q \in FreeProjects : p <= q IN
     /\ project' = [project EXCEPT ![p] = [NoProject EXCEPT
          !.status = "live", !.story = StoryOf[make[x].item], !.maker = x]]
     /\ make' = [make EXCEPT ![x].pc = "attach", ![x].project = p]
  /\ UNCHANGED <<contended, item, cluster, requests, failures>> /\ DiscoveryUnchanged

ProjectStep(x, from, to, row) ==
  /\ make[x].pc = from
  /\ project' = [project EXCEPT ![make[x].project] = row]
  /\ MakeGoto(x, to)
  /\ UNCHANGED <<contended, item, cluster, requests, failures>> /\ DiscoveryUnchanged

ItemStep(x, from, to, status) ==
  /\ make[x].pc = from
  /\ item' = [item EXCEPT ![make[x].item].status = status]
  /\ MakeGoto(x, to)
  /\ UNCHANGED <<project, contended, cluster, requests, failures>> /\ DiscoveryUnchanged

Row(x) == project[make[x].project]

AttachItem(x) ==
  ProjectStep(x, "attach", "generate",
              [Row(x) EXCEPT !.item = make[x].item, !.origin = "manual"])

\* ensureProjectTopic, the facts and startProjectGeneration.
Generate(x) ==
  \/ ProjectStep(x, "generate", "mark", [Row(x) EXCEPT !.generated = TRUE])
  \/ ProjectStep(x, "regenerate", "process", [Row(x) EXCEPT !.generated = TRUE])

MarkItem(x) ==
  \/ ItemStep(x, "mark", "cluster", "selected")
  \/ ItemStep(x, "process", "reattach", "processed")

\* The project that covers the story is told its new item.
Reattach(x) ==
  ProjectStep(x, "reattach", "cluster", [Row(x) EXCEPT !.item = make[x].item])

\* markClusterSelected, of the cluster the item had when the call began.
SelectCluster(x) ==
  /\ make[x].pc = "cluster"
  /\ LET c == make[x].cluster IN
     cluster' = IF c # None /\ cluster[c].status = "open"
                  THEN [cluster EXCEPT ![c].status = "selected"] ELSE cluster
  /\ IF x = Planner THEN MakeGoto(x, "find")
                    ELSE make' = [make EXCEPT ![x] = Made(x)]
  /\ UNCHANGED <<project, contended, item, requests, failures>> /\ DiscoveryUnchanged

-----------------------------------------------------------------------------
(* createAutoProject: the planner takes over what it made *)

OfItem(e) == {p \in Live : project[p].item = e}

NewestOf(rows) == CHOOSE p \in rows : \A q \in rows : q <= p

FindProject ==
  /\ make[Planner].pc = "find"
  /\ LET found == OfItem(make[Planner].item) IN
     Moves(Planner, IF found = {} THEN Made(Planner)
                    ELSE [make[Planner] EXCEPT !.pc = "own", !.project = NewestOf(found)])

OwnProject ==
  /\ make[Planner].pc = "own"
  /\ project' = [project EXCEPT ![make[Planner].project].origin = "auto"]
  /\ make' = [make EXCEPT ![Planner] = Made(Planner)]
  /\ UNCHANGED <<contended, item, cluster, requests, failures>> /\ DiscoveryUnchanged

-----------------------------------------------------------------------------

\* A statement throws, or the process dies: the call ends where it is.
MakeFails(x) ==
  /\ make[x].pc \notin {"idle", "next", "done"}
  /\ Fails("database")
  /\ make' = [make EXCEPT ![x] = Thrown(x)]
  /\ UNCHANGED <<project, contended, item, cluster, requests>> /\ DiscoveryUnchanged

\* The archive hides a project from the coverage.
DeleteProject(p) ==
  /\ p \in Live
  /\ Asks
  /\ project' = [project EXCEPT ![p].status = "deleted"]
  /\ UNCHANGED <<make, contended, item, cluster, failures>> /\ DiscoveryUnchanged

MakeStep(x) ==
  \/ ReadItem(x) \/ ReadCoverage(x) \/ CreateProject(x) \/ AttachItem(x) \/ Generate(x)
  \/ MarkItem(x) \/ Reattach(x) \/ SelectCluster(x)

PlannerStep == \/ PlannerLists \/ PlannerSelects \/ PlannerTakes \/ FindProject
               \/ OwnProject \/ MakeStep(Planner)

Discovers == Next /\ UNCHANGED <<project, make, contended>>

SelectionNext ==
  \/ Discovers
  \/ PlannerStep
  \/ \E x \in Editors : MakeStep(x) \/ \E e \in Entries, u \in BOOLEAN : EditorAsks(x, e, u)
  \/ \E x \in Makers : MakeFails(x)
  \/ \E p \in ProjectIds : DeleteProject(p)

SelectionSpec == SelectionInit /\ [][SelectionNext]_selectionVars

\* The ticks go on and a request runs to its end.
SelectionFairSpec ==
  /\ SelectionSpec
  /\ WF_selectionVars(Tick /\ UNCHANGED <<project, make, contended>>)
  /\ WF_selectionVars(PlannerStep)
  /\ \A x \in Editors : WF_selectionVars(MakeStep(x))

-----------------------------------------------------------------------------
(* Properties *)

\* The planner never writes two articles about one story, whatever number of
\* items tell it and wherever a call is cut off; a second project takes two
\* calls that looked at the coverage before either had written its project.
OneProjectPerStory ==
  \A s \in Stories : s \in contended \/ Cardinality(Covering(s)) <= 1

\* A candidate the planner may take does not wait for ever: its story gets a
\* project, or it stops being a candidate, whatever happens to other stories.
CandidatesTaken == \A e \in Entries : e \in Eligible ~> e \notin Eligible
=============================================================================
