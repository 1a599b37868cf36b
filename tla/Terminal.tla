------------------------------ MODULE Terminal ------------------------------
(***************************************************************************)
(* The operator's terminal (tui/): the key reducer and the transitions of  *)
(* state.ts, the effects app.tsx runs for them, and the answers of the API *)
(* landing while the operator goes on typing.  Polls are sent on a timer   *)
(* and by actions, none waits for another and none carries a number, so    *)
(* answers land in any order.  Rows, jobs and views are named by what they *)
(* are about; text, tones and columns are left out, and so is scrolling.   *)
(* The token is an admin's; the link banner and the messages are left out.  *)
(***************************************************************************)
EXTENDS Integers, FiniteSets, Sequences, SequencesExt

CONSTANTS
  N, Jobs,      \* boxes 1..N in the order the API lists them; jobs, newest highest
  MaxFlight,    \* requests in flight
  MaxChanges,   \* changes of the fleet
  Heights,      \* rows a terminal may have for its list
  Texts         \* bound: the sets of boxes that a text typed at `/' may match

Boxes == 1..N
JobIds == (N + 1)..(N + Jobs)
Fleet == 0         \* what the reconcile modal asks for
Nobody == -1

ASSUME TerminalAssumption ==
  /\ N \in Nat /\ Jobs \in Nat /\ MaxFlight \in Nat /\ MaxChanges \in Nat /\ Heights \subseteq Nat \ {0}
  /\ Texts \subseteq SUBSET Boxes

VARIABLES
  world,    \* the fleet as the API would answer now
  net,      \* requests in flight, in the order they were sent
  tab,      \* the table: rows, filter, selection
  pane,     \* the box the detail pane's facts and history were fetched for
  loaded,   \* loadedDetailBoxRef
  view,     \* the full-frame view
  modal     \* the typed confirmation

termVars == <<world, net, tab, pane, loaded, view, modal>>

NoView == [kind |-> "none"]
NoModal == [kind |-> "none"]
Unserved == [got |-> "nothing"]

\* The journal goes the way the diff goes.
BoxViews == {"diff", "history"}
\* rename asks for a name, then goes the way of config-push and rotate-key.
BoxActions == {"rename"}

TermInit ==
  /\ world = [enrolled |-> Boxes, free |-> Boxes, job |-> [j \in JobIds |-> IF j = N + 1 THEN "running" ELSE "none"], changes |-> 0]
  /\ net = <<[type |-> "fleet", about |-> Fleet, answer |-> Unserved]>>
  /\ tab = [boxes |-> {}, free |-> {}, selected |-> 0, filter |-> Boxes, filtering |-> FALSE,
            freeOnly |-> FALSE, admin |-> FALSE]
  /\ pane = Nobody /\ loaded = Nobody
  /\ view = NoView /\ modal = NoModal

---------------------------------------------------------------------------
(* The table.                                                               *)

\* filteredBoxes: the rows, counted from 0 in the order of the API's list.
Listed(t) == {b \in t.boxes : b \in t.filter /\ (t.freeOnly => b \in t.free)}
Rows(t) == Cardinality(Listed(t))
Row(t, b) == Cardinality({c \in Listed(t) : c < b})

Chosen(t) ==
  IF \E b \in Listed(t) : Row(t, b) = t.selected
    THEN CHOOSE b \in Listed(t) : Row(t, b) = t.selected ELSE Nobody

\* A filter that matches nothing is cleared once it has been typed, and the
\* index is then held against the whole list.
RecoverSelection(t) ==
  LET cleared == t.filter # Boxes /\ Listed(t) = {} /\ ~t.filtering
      rows == IF cleared THEN Cardinality(t.boxes) ELSE Rows(t)
  IN  [t EXCEPT !.filter = IF cleared THEN Boxes ELSE @, !.selected = IF @ >= rows THEN 0 ELSE @]

\* Mutant: the selection stays an index.
FollowByIndex(t, name) == RecoverSelection(t)
\* The row of that name, wherever it is now.
Follow(t, name) ==
  RecoverSelection(IF name \in Listed(t) THEN [t EXCEPT !.selected = Row(t, name)] ELSE t)

ApplyFleet(t, a) ==
  Follow([t EXCEPT !.boxes = a.boxes, !.free = a.free, !.admin = TRUE], Chosen(t))

\* viewportWindow, and the bottom-anchored window of the table and the jobs
\* list: the rows <<from, to>> that are painted, counted from 0.
Viewport(total, offset, rows) ==
  LET top == IF total > rows THEN total - rows ELSE 0
      from == IF offset > top THEN top ELSE offset
  IN  <<from, IF from + rows > total THEN total ELSE from + rows>>
Anchor(cursor, rows) == IF cursor < rows THEN 0 ELSE cursor - rows + 1

\* Rows of a table region of h: its header, and the indicator when the list
\* does not fit.
BoxRows(t, h) ==
  LET room == IF h > 1 THEN h - 1 ELSE 1
      more == Rows(t) > room
  IN  IF more /\ room > 1 THEN room - 1 ELSE room

TableWindow(t, h) == Viewport(Rows(t), Anchor(t.selected, BoxRows(t, h)), BoxRows(t, h))

\* The jobs under their header, or one line that says there are none or that
\* they are on their way.
Content(v) == IF v.loading \/ v.jobs = <<>> THEN 1 ELSE 1 + Len(v.jobs)

JobsWindow(v, h) == Viewport(Content(v), Anchor(v.cursor, h), h)

---------------------------------------------------------------------------
(* Requests.                                                                *)

\* More than fit is a bound reached.
Fits(n, reqs) == Len(n) + Len(reqs) <= MaxFlight

Ask(type, about) == [type |-> type, about |-> about, answer |-> Unserved]
Poll == Ask("fleet", Fleet)
Load(kind, about) == Ask(kind, about)

\* The detail of a newly selected box, unless a view is open.
DetailEffect(t, v) ==
  IF v # NoView \/ Chosen(t) \in {Nobody, loaded} THEN <<>> ELSE <<Ask("detail", Chosen(t))>>

\* The next state of a key or an answer: the table and the view it leaves, and
\* the requests its effect sends, the detail's after them.
Becomes(n, t, v, reqs) ==
  LET all == reqs \o DetailEffect(t, v)
  IN  /\ Fits(n, all)
      /\ net' = n \o all
      /\ tab' = t /\ view' = v
      /\ loaded' = IF DetailEffect(t, v) = <<>> THEN loaded ELSE Chosen(t)

---------------------------------------------------------------------------
(* Keys of the table.                                                       *)

AtTable == modal = NoModal /\ view = NoView

TableKey(t, v, reqs) ==
  /\ Becomes(net, t, v, reqs)
  /\ UNCHANGED <<world, pane, modal>>

Move ==
  /\ AtTable /\ ~tab.filtering
  /\ \/ tab.selected + 1 < Rows(tab) /\ TableKey([tab EXCEPT !.selected = @ + 1], view, <<>>)
     \/ tab.selected > 0 /\ TableKey([tab EXCEPT !.selected = @ - 1], view, <<>>)

\* `/', then text, backspace, Enter or Esc.
Filter ==
  /\ AtTable
  /\ \/ ~tab.filtering /\ TableKey([tab EXCEPT !.filtering = TRUE, !.filter = Boxes], view, <<>>)
     \/ /\ tab.filtering
        /\ \E f \in {tab.filter, Boxes} :
             TableKey(RecoverSelection([tab EXCEPT !.filtering = FALSE, !.filter = f]), view, <<>>)
     \/ /\ tab.filtering
        /\ \E f \in Texts :
             /\ f \subseteq tab.filter \/ tab.filter \subseteq f
             /\ TableKey(RecoverSelection([tab EXCEPT !.filter = f]), view, <<>>)

ToggleFree ==
  /\ AtTable /\ ~tab.filtering
  /\ TableKey(RecoverSelection([tab EXCEPT !.freeOnly = ~@]), view, <<>>)

Refresh == AtTable /\ ~tab.filtering /\ TableKey(tab, view, <<Poll>>)

Opened(kind, about) ==
  [kind |-> kind, about |-> about, loading |-> TRUE, shows |-> Nobody, jobs |-> <<>>, cursor |-> 0, parent |-> NoView]

\* D and J for the selected box, L and B for the fleet; H shows the history the
\* pane has, if it is this box's.
OpenView ==
  /\ AtTable /\ ~tab.filtering
  /\ \/ \E kind \in {"leases", "jobs"} : TableKey(tab, Opened(kind, Fleet), <<Load(kind, Fleet)>>)
     \/ /\ Chosen(tab) # Nobody
        /\ \E kind \in BoxViews \ {"history"} :
             TableKey(tab, Opened(kind, Chosen(tab)), <<Load(kind, Chosen(tab))>>)
     \/ /\ Chosen(tab) # Nobody
        /\ TableKey(tab, [Opened("history", Chosen(tab)) EXCEPT !.loading = FALSE,
                            !.shows = IF pane = Chosen(tab) THEN Chosen(tab) ELSE Nobody], <<>>)

\* T: at once, no confirmation.
Check ==
  /\ AtTable /\ ~tab.filtering /\ tab.admin /\ Chosen(tab) # Nobody
  /\ TableKey(tab, view, <<Ask("check", Chosen(tab))>>)

OpenModal ==
  /\ AtTable /\ ~tab.filtering /\ tab.admin
  /\ \/ modal' = [kind |-> "reconcile", about |-> Fleet, typed |-> Nobody, field |-> "confirm"]
     \/ /\ Chosen(tab) # Nobody
        /\ \E kind \in BoxActions :
             modal' = [kind |-> kind, about |-> Chosen(tab), typed |-> Nobody,
                       field |-> "target"]
  /\ UNCHANGED <<world, net, tab, pane, loaded, view>>

---------------------------------------------------------------------------
(* Keys of a view.                                                          *)

InView == modal = NoModal /\ view # NoView

ViewKey(v, reqs) ==
  /\ Becomes(net, tab, v, reqs)
  /\ UNCHANGED <<world, pane, modal>>

\* Back to the parent, the jobs list, or to the table.
CloseView == InView /\ ViewKey(view.parent, <<>>)

Reload == InView /\ ViewKey([view EXCEPT !.loading = TRUE], <<Load(view.kind, view.about)>>)

\* A row is under the cursor, and no reload is on its way.
Live(v) == v.cursor > 0 /\ ~v.loading

MoveCursor ==
  /\ InView /\ view.kind = "jobs" /\ Live(view)
  /\ \E c \in {view.cursor - 1, view.cursor + 1} \cap DOMAIN view.jobs : ViewKey([view EXCEPT !.cursor = c], <<>>)

\* Enter: the log of the job under the cursor, with the list as its parent.
OpenLog ==
  /\ InView /\ view.kind = "jobs" /\ Live(view)
  /\ LET job == view.jobs[view.cursor].id
     IN  ViewKey([Opened("joblog", job) EXCEPT !.parent = view], <<Load("joblog", job)>>)

\* s: a job that has not ended, also while the list is loading again.
StopJob ==
  /\ InView /\ view.kind = "jobs" /\ tab.admin /\ view.cursor > 0
  /\ view.jobs[view.cursor].state = "running"
  /\ modal' = [kind |-> "stop-job", about |-> view.jobs[view.cursor].id, typed |-> Nobody, field |-> "confirm"]
  /\ UNCHANGED <<world, net, tab, pane, loaded, view>>

---------------------------------------------------------------------------
(* Keys of a modal.                                                         *)

Cancel ==
  /\ modal # NoModal
  /\ modal' = NoModal
  /\ UNCHANGED <<world, net, tab, pane, loaded, view>>

\* The name the modal asks for; with any other in its place Enter only says so.
Type ==
  /\ modal # NoModal /\ modal.field = "confirm"
  /\ modal' = [modal EXCEPT !.typed = modal.about]
  /\ UNCHANGED <<world, net, tab, pane, loaded, view>>

\* Tab either way, or Enter in the field of the new name.
OtherField ==
  /\ modal # NoModal /\ modal.kind = "rename"
  /\ modal' = [modal EXCEPT !.field = IF @ = "target" THEN "confirm" ELSE "target"]
  /\ UNCHANGED <<world, net, tab, pane, loaded, view>>

\* What was captured when the modal was opened.
Subject(m) == m.about

\* Enter, when what was typed is what the modal expects.
Confirm ==
  /\ modal # NoModal /\ modal.field = "confirm" /\ modal.typed = modal.about
  /\ Becomes(net, tab, view, <<Ask(modal.kind, Subject(modal))>>)
  /\ modal' = NoModal
  /\ UNCHANGED <<world, pane>>

---------------------------------------------------------------------------
(* Answers.                                                                 *)

Without(i) == RemoveAt(net, i)

\* The interval's poll: it looks at nothing.
IntervalPoll ==
  /\ Becomes(net, tab, view, <<Poll>>)
  /\ UNCHANGED <<world, pane, modal>>

\* sortJobs: open ones first, the newest first among each.
JobList(w) ==
  LET known == {j \in JobIds : w.job[j] # "none"}
      Before(j) == {i \in known : IF w.job[i] = w.job[j] THEN i > j ELSE w.job[i] = "running"}
      At(k) == CHOOSE j \in known : Cardinality(Before(j)) = k - 1
  IN  [k \in 1..Cardinality(known) |-> [id |-> At(k), state |-> w.job[At(k)]]]

\* Boxes come, go, are taken and given back; jobs start and end.
Changed(w) ==
  {[w EXCEPT !.enrolled = @ \ {b}] : b \in w.enrolled}
  \cup {[w EXCEPT !.enrolled = @ \cup {b}] : b \in Boxes \ w.enrolled}
  \cup {[w EXCEPT !.free = IF b \in @ THEN @ \ {b} ELSE @ \cup {b}] : b \in Boxes}
  \cup {[w EXCEPT !.job[j] = IF @ = "none" THEN "running" ELSE "done"] :
           j \in {k \in JobIds : w.job[k] # "done"}}

\* The fleet moves only for those who look: a change comes with the next read.
WorldNow ==
  \/ UNCHANGED world
  \/ world.changes < MaxChanges /\ \E w \in Changed(world) : world' = [w EXCEPT !.changes = @ + 1]

\* The server reads the fleet or the jobs for a request.
Served(i) ==
  /\ net[i].type \in {"fleet", "jobs"} /\ net[i].answer = Unserved
  /\ WorldNow
  /\ net' = [net EXCEPT ![i].answer =
               IF net[i].type = "jobs" THEN [got |-> "jobs", jobs |-> JobList(world')]
               ELSE [got |-> "fleet", boxes |-> world'.enrolled, free |-> world'.free \cap world'.enrolled]]
  /\ UNCHANGED <<tab, pane, loaded, view, modal>>

\* applyFleet, or applyLinkDown, which keeps the rows.
FleetAnswer(i) ==
  /\ net[i].type = "fleet"
  /\ \/ net[i].answer # Unserved /\ Becomes(Without(i), ApplyFleet(tab, net[i].answer), view, <<>>)
     \/ Becomes(Without(i), tab, view, <<>>)
  /\ UNCHANGED <<world, pane, modal>>

\* The facts and the history are kept with their box's name, or fail.
DetailAnswer(i) ==
  /\ net[i].type = "detail"
  /\ pane' \in {net[i].about, pane}
  /\ Becomes(Without(i), tab, view, <<>>)
  /\ UNCHANGED <<world, modal>>

\* Mutant: any answer of that kind is taken.
IsOpenByKind(kind, about) == view # NoView /\ view.kind = kind
\* The open view is still of that kind and about the same.
IsOpen(kind, about) == view # NoView /\ view.kind = kind /\ view.about = about

\* The list keeps the index of its cursor, an error has neither list nor cursor.
WithJobs(v, jobs) ==
  [v EXCEPT !.loading = FALSE, !.shows = Fleet, !.jobs = jobs,
            !.cursor = IF @ = 0 THEN (IF jobs = <<>> THEN 0 ELSE 1) ELSE IF @ > Len(jobs) THEN Len(jobs) ELSE @]

ViewAnswer(i) ==
  /\ net[i].type \in BoxViews \cup {"leases", "jobs", "joblog"}
  /\ LET kind == net[i].type
         failed == IF kind = "jobs" THEN [view EXCEPT !.loading = FALSE, !.jobs = <<>>, !.cursor = 0]
                   ELSE [view EXCEPT !.loading = FALSE]
     IN  IF ~IsOpen(kind, net[i].about) THEN Becomes(Without(i), tab, view, <<>>)
         ELSE \/ Becomes(Without(i), tab, failed, <<>>)
              \/ kind # "jobs" /\ Becomes(Without(i), tab, [view EXCEPT !.loading = FALSE, !.shows = net[i].about], <<>>)
              \/ net[i].answer # Unserved /\ Becomes(Without(i), tab, WithJobs(view, net[i].answer.jobs), <<>>)
  /\ UNCHANGED <<world, pane, modal>>

\* Done, refused or timed out: the message, then the list again.
ActionAnswer(i) ==
  /\ net[i].type \in BoxActions \cup {"check", "reconcile", "stop-job"}
  /\ Becomes(Without(i), tab, view,
             IF net[i].type # "stop-job" THEN <<Poll>>
             ELSE IF view # NoView /\ view.kind = "jobs" THEN <<Load("jobs", Fleet)>> ELSE <<>>)
  /\ UNCHANGED <<world, pane, modal>>

Key ==
  \/ Move \/ Filter \/ ToggleFree \/ Refresh \/ OpenView \/ Check \/ OpenModal
  \/ CloseView \/ Reload \/ MoveCursor \/ OpenLog \/ StopJob
  \/ Cancel \/ Type \/ OtherField \/ Confirm

TermNext ==
  \/ Key \/ IntervalPoll
  \/ \E i \in DOMAIN net : Served(i) \/ FleetAnswer(i) \/ DetailAnswer(i) \/ ViewAnswer(i) \/ ActionAnswer(i)

TermSpec == TermInit /\ [][TermNext]_termVars

---------------------------------------------------------------------------
(* Properties.                                                              *)

Times(r, n) == Cardinality({i \in DOMAIN n : n[i] = r})

\* A dangerous request is for the box or the job whose name the operator typed,
\* however the rows moved under the modal while it was open (handleModalKey,
\* stopSelectedJob).
ConfirmedTarget ==
  [][\A i \in DOMAIN net' :
       (Times(net'[i], net') > Times(net'[i], net) /\ net'[i].type \in BoxActions \cup {"reconcile", "stop-job"})
         => (modal # NoModal /\ net'[i].type = modal.kind /\ net'[i].about = modal.typed)]_termVars

\* No answer moves the selection off a box that is still listed, in whatever
\* order polls land and whatever filters are set (applyFleet, recoverSelection).
SelectionFollows ==
  [][~IsPrefix(net, net')
       => (Chosen(tab) \in Listed(tab') => Chosen(tab') = Chosen(tab))]_termVars

\* What a key acts on is what the operator chose, the two together: the box
\* under the cursor is not exchanged by an answer, and the one confirmed is
\* the one the request names.
ActsOnChoice == ConfirmedTarget /\ SelectionFollows

\* An open view that says it is loading has a request of its own in flight,
\* the list it goes back to is not loading, and what a view shows is about the
\* box or job in its title (applyViewResult, handleViewKey).
ViewIsServed ==
  view # NoView =>
    /\ view.loading => \E i \in DOMAIN net : net[i].type = view.kind /\ net[i].about = view.about
    /\ view.parent # NoView => ~view.parent.loading
    /\ view.shows \in {Nobody, view.about}

\* The row a key would act on is among the painted ones, at every height, and
\* the table never paints more than its region from three rows on
\* (tableWindow, tableContentRows, viewLines).
ActedRowPainted ==
  \A h \in Heights :
    /\ Chosen(tab) # Nobody =>
         LET win == TableWindow(tab, h)
             more == IF win[2] - win[1] < Rows(tab) THEN 1 ELSE 0
         IN  /\ win[1] <= tab.selected /\ tab.selected < win[2]
             /\ h >= 3 => 1 + (win[2] - win[1]) + more <= h
    /\ (view # NoView /\ view.kind = "jobs" /\ Live(view)) =>
         LET win == JobsWindow(view, h)
         IN  win[1] <= view.cursor /\ view.cursor < win[2]

\* What the operator sees is what there is, and what the keys act on.
ScreenIsTrue == ViewIsServed /\ ActedRowPainted
=============================================================================
