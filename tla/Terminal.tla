------------------------------- MODULE Terminal -------------------------------
(***************************************************************************)
(* The terminal interface (crates/gestalt-tui/src/tui): the event loop of  *)
(* run_tui takes keys, messages of the run over the bridge, and results of *)
(* provider connections, in any order, and changes the state that is on    *)
(* the screen.  The texts of the transcript and of the drawers are left    *)
(* out, and keys that only scroll or edit; the drawer of the diagnostics   *)
(* opens, closes and takes the focus like that of the details.             *)
(***************************************************************************)
EXTENDS Naturals, Sequences, SequencesExt

CONSTANTS
  SessionNames,
  NoName,
  MaxStored,      \* bound: runs in the run log directory
  MaxQuestions,   \* bound: requests for approval
  MaxConnects     \* bound: connections of a provider

ASSUME TerminalAssumption ==
  /\ NoName \notin SessionNames
  /\ MaxStored \in Nat /\ MaxQuestions \in Nat /\ MaxConnects \in Nat

VARIABLES
  ui,           \* TuiAppState, as far as anything depends on it
  approval_tx,  \* active_approval_tx: the question it answers, 0 for None
  bridge,       \* TuiBridgeMessages on their way
  job,          \* the task of spawn_run
  jobs,         \* history: how many tasks are running
  replies,     \* history: what each question was answered, by whom it was meant for
  connects,     \* connections: begun, and those whose result is on its way
  stored        \* the session of every run of the run log directory

terminalVars == <<ui, approval_tx, bridge, job, jobs, replies, connects, stored>>

-----------------------------------------------------------------------------
Modals == {"None", "SessionSwitcher", "Help", "Approval", "Onboarding", "Notification"}
Focuses == {"ChatPrompt", "LineageTree", "Details"}

NoJob == [at |-> "none", kind |-> "none", session |-> NoName, parent |-> 0, run |-> 0,
          question |-> 0, cancelled |-> FALSE]

InSession(s) == {r \in DOMAIN stored : stored[r] = s}

\* The directory modified last, which any process that uses the run log may decide; 0 for None.
find_latest_run_id(s) == IF InSession(s) = {} THEN {0} ELSE InSession(s)

\* The wizard keeps a prompt or a resume of the command line from starting.
TerminalInit ==
  \E onboarding, resumed, prompted \in BOOLEAN, s \in SessionNames :
    LET parent == IF resumed THEN 1 ELSE 0
        starts == (resumed \/ prompted) /\ ~onboarding
    IN /\ stored = IF resumed THEN <<s>> ELSE <<>>
       /\ ui = [modal |-> IF onboarding THEN "Onboarding" ELSE "None", focus |-> "ChatPrompt",
                sidebar |-> FALSE, details |-> FALSE, request |-> 0,
                session |-> s, parent |-> parent, tree |-> s, running |-> starts, open |-> TRUE]
       /\ approval_tx = 0 /\ bridge = <<>> /\ replies = <<>>
       /\ connects = [begun |-> 0, pending |-> 0]
       /\ job = IF ~starts THEN NoJob
                ELSE [NoJob EXCEPT !.at = "starting", !.session = s, !.parent = parent,
                                   !.kind = IF resumed THEN "resume" ELSE "continue"]
       /\ jobs = IF starts THEN 1 ELSE 0

-----------------------------------------------------------------------------
\* spawn_run.  The token of the run is a new one.
spawn_run(kind, session, parent) ==
  /\ job' = [NoJob EXCEPT !.at = "starting", !.kind = kind, !.session = session,
                          !.parent = parent]
  /\ jobs' = jobs + 1

Send(message) == bridge' = Append(bridge, message)

Completed(result, run) ==
  [kind |-> "RunCompleted", result |-> result, run |-> run, question |-> 0]

(* The run is refused, or it creates its directory in the session of the   *)
(* run it goes on from, or of the prompt when there is none.               *)
RunStarts ==
  /\ job.at = "starting"
  /\ \/ /\ Len(stored) < MaxStored
        /\ stored' = Append(stored, IF job.kind = "continue" \/ job.parent = 0 THEN job.session
                                    ELSE stored[job.parent])
        /\ job' = [job EXCEPT !.at = "running", !.run = Len(stored')]
        /\ UNCHANGED <<bridge, jobs>>
     \/ /\ Send(Completed("Failed", 0)) /\ job' = NoJob /\ jobs' = jobs - 1
        /\ UNCHANGED stored
  /\ UNCHANGED <<ui, approval_tx, replies, connects>>

(* TuiApprovalProvider::approve sends a question and waits.                *)
RunAsks ==
  /\ job.at = "running" /\ Len(replies) < MaxQuestions
  /\ replies' = Append(replies, "none")
  /\ Send([kind |-> "ApprovalRequest", result |-> "none", run |-> job.run,
           question |-> Len(replies')])
  /\ job' = [job EXCEPT !.at = "waiting", !.question = Len(replies')]
  /\ UNCHANGED <<ui, approval_tx, jobs, connects, stored>>

RunIsAnswered ==
  /\ job.at = "waiting" /\ replies[job.question] # "none"
  /\ job' = [job EXCEPT !.at = "running", !.question = 0]
  /\ UNCHANGED <<ui, approval_tx, bridge, jobs, replies, connects, stored>>

(* A cancelled run ends as such, if it is not over before it sees that; a  *)
(* question that it waits with is dropped.                                 *)
RunEnds ==
  /\ job.at \in {"running", "waiting"}
  /\ \E result \in {"Ok", "Failed", "Cancelled"} :
       /\ result = "Cancelled" => job.cancelled
       /\ job.at = "waiting" => result = "Cancelled"
       /\ Send(Completed(result, job.run))
  /\ job' = NoJob /\ jobs' = jobs - 1
  /\ UNCHANGED <<ui, approval_tx, replies, connects, stored>>

(* Another process begins a run.                                           *)
OthersRun ==
  /\ Len(stored) < MaxStored
  /\ \E s \in SessionNames : stored' = Append(stored, s)
  /\ UNCHANGED <<ui, approval_tx, bridge, job, jobs, replies, connects>>

-----------------------------------------------------------------------------
\* The event loop: a message of the bridge.

ShowsRequest(message) ==
  /\ approval_tx' = message.question
  /\ ui' = [ui EXCEPT !.request = message.question, !.modal = "Approval"]

KeepsSession(message) ==
  LET over == [ui EXCEPT !.running = FALSE, !.request = 0, !.modal = "None"]
  IN /\ approval_tx' = 0
     /\ ui' = [over EXCEPT !.parent = IF message.result = "Ok" THEN message.run ELSE @,
                           !.tree = ui.session]

ShowsResult(message) ==
  LET over == [ui EXCEPT !.running = FALSE, !.request = 0, !.modal = "None"]
  IN /\ approval_tx' = 0
     /\ IF message.result = "Ok"
        THEN \/ ui' = [over EXCEPT !.parent = message.run, !.session = stored[message.run],
                                   !.tree = stored[message.run]]
             \/ ui' = [over EXCEPT !.tree = ui.session]   \* run.json cannot be read
        ELSE \E latest \in find_latest_run_id(ui.session) :
               ui' = [over EXCEPT !.parent = IF latest = 0 THEN @ ELSE latest,
                                  !.tree = ui.session,
                                  !.modal = IF message.result = "Failed" THEN "Notification"
                                            ELSE @]

TakesMessage ==
  /\ ui.open /\ bridge # <<>> /\ bridge' = Tail(bridge)
  /\ IF Head(bridge).kind = "ApprovalRequest" THEN ShowsRequest(Head(bridge))
                                              ELSE ShowsResult(Head(bridge))
  /\ UNCHANGED <<job, jobs, replies, connects, stored>>

(* The result of a connection; a failed one is shown in the wizard.        *)
TakesConnection ==
  /\ ui.open /\ connects.pending > 0
  /\ connects' = [connects EXCEPT !.pending = @ - 1]
  /\ \/ ui' = [ui EXCEPT !.modal = "None", !.tree = ui.session]
     \/ UNCHANGED ui
  /\ UNCHANGED <<approval_tx, bridge, job, jobs, replies, stored>>

-----------------------------------------------------------------------------
\* handle_key_event, with what the loop does for the action it returns.

Shows(screen) ==
  /\ ui' = screen
  /\ UNCHANGED <<approval_tx, bridge, job, jobs, replies, connects, stored>>

Quit == Shows([ui EXCEPT !.open = FALSE])

Decides(decision) ==
  /\ ui' = [ui EXCEPT !.modal = "None", !.request = 0]
  /\ approval_tx' = 0
  /\ replies' = IF approval_tx = 0 THEN replies
                 ELSE [replies EXCEPT ![approval_tx] =
                         IF approval_tx = ui.request THEN decision ELSE "another's"]
  /\ UNCHANGED <<bridge, job, jobs, connects, stored>>

\* The list of the switcher may be older than the runs.
SelectSession ==
  \E s \in {stored[r] : r \in DOMAIN stored} : \E latest \in find_latest_run_id(s) :
    Shows([ui EXCEPT !.modal = "None", !.session = s, !.parent = latest, !.tree = s])

SaveOnboarding ==
  /\ connects.begun < MaxConnects
  /\ connects' = [begun |-> connects.begun + 1, pending |-> connects.pending + 1]
  /\ UNCHANGED <<ui, approval_tx, bridge, job, jobs, replies, stored>>

KeyInModal ==
  \/ /\ ui.modal \in {"Help", "Notification", "SessionSwitcher"}
     /\ Shows([ui EXCEPT !.modal = "None"])
  \/ ui.modal = "SessionSwitcher" /\ SelectSession
  \/ ui.modal = "Approval" /\ \E decision \in {"Approve", "Deny"} : Decides(decision)
  \/ ui.modal = "Onboarding" /\ (Quit \/ SaveOnboarding)

\* Opened drawers take the focus, closed ones give it back.
ToggledDetails ==
  [ui EXCEPT !.details = ~@,
             !.focus = IF ~ui.details THEN "Details" ELSE IF @ = "Details" THEN "ChatPrompt" ELSE @]
\* Opening the sidebar loads the lineage; in a narrow terminal the key does nothing.
ToggledSidebar ==
  IF ui.sidebar
  THEN [ui EXCEPT !.sidebar = FALSE, !.focus = IF @ = "LineageTree" THEN "ChatPrompt" ELSE @]
  ELSE [ui EXCEPT !.sidebar = TRUE, !.focus = "LineageTree", !.tree = ui.session]

InterruptRun ==
  /\ job' = IF job.at = "none" THEN job ELSE [job EXCEPT !.cancelled = TRUE]
  /\ UNCHANGED <<ui, approval_tx, bridge, jobs, replies, connects, stored>>

Shortcut ==
  \/ ui.running /\ InterruptRun
  \/ ~ui.running /\ (Quit \/ Shows([ui EXCEPT !.focus = "ChatPrompt"]))
  \/ Shows(ToggledSidebar) \/ Shows(ToggledDetails)
  \/ \E modal \in {"Help", "SessionSwitcher"} : Shows([ui EXCEPT !.modal = modal])

SubmitPrompt ==
  /\ ui' = [ui EXCEPT !.running = TRUE]
  /\ spawn_run("continue", ui.session, ui.parent)
  /\ UNCHANGED <<approval_tx, bridge, replies, connects, stored>>

\* From the run selected in an open sidebar, or else from the parent.
BranchTargets ==
  IF ui.sidebar /\ ui.tree # NoName /\ InSession(ui.tree) # {} THEN InSession(ui.tree)
  ELSE {ui.parent} \ {0}

BranchPrompt ==
  /\ \E r \in BranchTargets : spawn_run("branch", ui.session, r)
  /\ ui' = [ui EXCEPT !.running = TRUE]
  /\ UNCHANGED <<approval_tx, bridge, replies, connects, stored>>

\* A uuid names the new session.
start_new_session ==
  \E s \in SessionNames :
    /\ InSession(s) = {} /\ s # ui.session
    /\ Shows([ui EXCEPT !.session = s, !.parent = 0, !.tree = NoName, !.sidebar = FALSE,
                        !.focus = "ChatPrompt"])

(* A command that is typed into the prompt, or a prompt.                   *)
Enter ==
  /\ ui.focus = "ChatPrompt"
  /\ \/ SubmitPrompt \/ BranchPrompt \/ start_new_session
     \/ Quit
     \/ Shows([ui EXCEPT !.modal = "Help"])
     \/ Shows(ToggledDetails)
     \/ Shows([ui EXCEPT !.sidebar = TRUE, !.focus = "LineageTree", !.tree = ui.session])

KeyInFocus ==
  /\ ~ui.running
  /\ Enter \/ (ui.focus # "ChatPrompt" /\ Shows([ui EXCEPT !.focus = "ChatPrompt"]))

handle_key_event ==
  /\ ui.open
  /\ IF ui.modal # "None" THEN KeyInModal ELSE Shortcut \/ KeyInFocus

-----------------------------------------------------------------------------
TerminalNext ==
  \/ RunStarts \/ RunAsks \/ RunIsAnswered \/ RunEnds \/ OthersRun
  \/ TakesMessage \/ TakesConnection \/ handle_key_event

TerminalSpec == TerminalInit /\ [][TerminalNext]_terminalVars

-----------------------------------------------------------------------------
(* The screen tells the truth.  The run that a prompt would go on from, and *)
(* those it could branch from, are of the session that is named, also      *)
(* after the session was switched during a run, and no second run starts.  *)
(* The question shown is the one that a decision answers, and a question   *)
(* that a run waits with is on the screen or on its way to it, unless      *)
(* another connection of a provider has closed it (app.rs: RunCompleted,   *)
(* SelectSession, ApprovalRequest, conn_rx).                               *)
ScreenAgrees ==
  /\ ui.parent # 0 => stored[ui.parent] = ui.session
  /\ ui.tree \in {NoName, ui.session}
  /\ jobs <= 1 /\ (jobs = 1 => ui.running)
  /\ ui.focus = "LineageTree" => ui.sidebar
  /\ ui.focus = "Details" => ui.details
  /\ \A q \in DOMAIN replies : replies[q] # "another's"
  /\ ui.modal = "Approval" => ui.request # 0
  /\ ui.request # 0 => approval_tx = ui.request
  /\ job.at = "waiting" /\ replies[job.question] = "none" =>
       \/ \E i \in DOMAIN bridge : bridge[i].question = job.question
       \/ ui.request = job.question /\ (connects.begun <= 1 => ui.modal = "Approval")
=============================================================================
