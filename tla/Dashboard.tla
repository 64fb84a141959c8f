------------------------------- MODULE Dashboard -------------------------------
(***************************************************************************)
(* The terminal dashboard irtop, from its start to its end: main, the      *)
(* bubbletea model that Update folds its messages into, and the commands   *)
(* it has started.  A command runs in a goroutine of its own and its       *)
(* message comes back in any order with the others and with the keys: a    *)
(* refresh started for one profile may answer long after the operator has  *)
(* switched to another, or back, and after a later refresh has answered.   *)
(* It asks the server several times, and the server's data change between. *)
(*                                                                         *)
(* Which page is shown and how it is laid out are left out.                *)
(***************************************************************************)
EXTENDS IrtopConfig

CONSTANTS
    MaxProfiles,   \* most profiles in a file (bounds the model)
    Refreshes,     \* refresh commands that may be running at once (bounds the model)
    Details,       \* the status pages read after the overview
    Blank,         \* an overview that names no server, as of something else at the URL
    MaxVersion     \* changes of the servers' data (bounds the model)

ASSUME DashboardAssumption ==
    /\ MaxProfiles \in Nat \ {0} /\ MaxVersion \in Nat
    /\ \A file \in Files : Len(file.entries) <= MaxProfiles
    /\ Blank \notin Int /\ Blank # None

VARIABLES
    input,       \* the file and the command line, until main has used them
    set,         \* the ProfileSet main has made of them
    phase,       \* "start", "ready", "text", "tui" or "done"
    count,       \* len(profiles)
    active,      \* activeProfile
    cursor,      \* profileCursor
    selecting,   \* selectingProfile
    client,      \* the profile the client was built for, None if it is nil
    refresh,     \* the profile whose interval m.refresh is
    snapshot,    \* what is displayed, None for the zero Snapshot
    err,         \* err # nil
    state,       \* loadState
    running,     \* refresh commands: what each captured and what it has read
    timer,       \* the profile whose interval the running tick waits for
    now          \* how often the servers' data have changed

start == <<input, set, count>>
display == <<active, cursor, selecting, client, refresh, snapshot, err, state>>
vars == <<start, phase, display, running, timer, now>>

\* Profile indices.  With no profile configured the index stays 0.
Indices == 0 .. MaxProfiles - 1 \cup {0}
Profiles == 0 .. count - 1
Versions == 0 .. MaxVersion

\* What a refresh has read: the version of the data each page was read at, and
\* None for a page that could not be read.
Snapshot == [profile : Indices, overview : Versions \cup {Blank},
             details : [Details -> Versions \cup {None}]]

\* refreshNow's closure: the client, the index of the profile it is for, and
\* Client.Snapshot as far as it has come.
Command == [profile : Indices, client : Indices \cup {None},
            overview : Versions \cup {Blank, None},
            pending : SUBSET Details, details : [Details -> Versions \cup {None}]]

ASSUME NoneIsNoData == None \notin Snapshot \cup Command

TypeOK ==
    /\ phase \in {"start", "ready", "text", "tui", "done"}
    /\ count \in 0 .. MaxProfiles
    /\ active \in Indices /\ cursor \in Indices /\ refresh \in Indices
    /\ selecting \in BOOLEAN
    /\ client \in Indices \cup {None}
    /\ snapshot \in Snapshot \cup {None}
    /\ err \in BOOLEAN
    /\ state \in {"loading", "loaded", "empty", "error"}
    /\ running \in [Refreshes -> Command \cup {None}]
    /\ timer \in Indices \cup {None}
    /\ now \in Versions

-----------------------------------------------------------------------------
(* Commands                                                                *)

CommandFor(p, c) ==
    [profile |-> p, client |-> c, overview |-> None,
     pending |-> Details, details |-> [d \in Details |-> None]]

\* refreshNow: start a refresh for the client and the profile of the new model.
RefreshNow ==
    \E c \in Refreshes :
        /\ running[c] = None
        /\ running' = [running EXCEPT ![c] = CommandFor(active', client')]

\* Client.Snapshot: the overview first, which must succeed.
ReadOverview(c) ==
    /\ phase \in {"text", "tui"}
    /\ running[c] # None /\ running[c].client # None /\ running[c].overview = None
    /\ \E v \in {now, Blank} : running' = [running EXCEPT ![c].overview = v]
    /\ UNCHANGED <<start, phase, display, timer, now>>

\* Mutation: all pages are asked for at once.
ReadDetailAtOnce(c, d) ==
    /\ phase \in {"text", "tui"}
    /\ running[c] # None /\ running[c].client # None /\ d \in running[c].pending
    /\ \E v \in {now, None} :
        running' = [running EXCEPT ![c].details[d] = v, ![c].pending = @ \ {d}]
    /\ UNCHANGED <<start, phase, display, timer, now>>

\* snapshotDetails: then the other pages in parallel; the error of one is dropped.
ReadDetail(c, d) ==
    /\ phase \in {"text", "tui"}
    /\ running[c] # None /\ running[c].overview # None /\ d \in running[c].pending
    /\ \E v \in {now, None} :
        running' = [running EXCEPT ![c].details[d] = v, ![c].pending = @ \ {d}]
    /\ UNCHANGED <<start, phase, display, timer, now>>

Succeeded(c) == running[c].overview # None /\ running[c].pending = {}

\* The overview could not be read, or there is no client to read it with.
Failed(c) == running[c].overview = None

\* snapshotEmpty
SnapshotEmpty(s) == s.overview = Blank /\ \A d \in Details : s.details[d] = None

-----------------------------------------------------------------------------
(* main                                                                    *)

\* From the file and the command line to the profiles, or out with an error.
Start ==
    /\ phase = "start"
    /\ IF StartsWith(input.file, input.flags)
       THEN phase' = "ready" /\ set' = ProfilesFrom(input.file, input.flags)
       ELSE phase' = "done" /\ UNCHANGED set
    /\ UNCHANGED <<input, count, display, running, timer, now>>

\* NewProfileModel, and the commands Init starts.  The client may not be built:
\* NewClientChecked checks the URL and reads the CA file.  The file and the
\* command line are not looked at again, and the configurations stay as they are.
RunTui ==
    /\ phase = "ready" /\ phase' = "tui"
    /\ input' = None /\ set' = NoProfiles
    /\ count' = Len(set.profiles)
    /\ active' = set.active /\ cursor' = set.active /\ refresh' = set.active
    /\ client' \in {set.active, None}
    /\ err' = (client' = None)
    /\ state' = IF client' = None THEN "error" ELSE "loading"
    /\ RefreshNow
    /\ timer' = set.active
    /\ UNCHANGED <<selecting, snapshot, now>>

\* --output text: one snapshot, and out.  Telemetry, the output mode or the client
\* may be refused before that.
RunText ==
    /\ phase = "ready"
    /\ input' = None /\ set' = NoProfiles
    /\ \/ phase' = "done" /\ UNCHANGED running
       \/ /\ phase' = "text"
          /\ \E c \in Refreshes :
                running' = [running EXCEPT ![c] = CommandFor(set.active, set.active)]
    /\ UNCHANGED <<count, display, timer, now>>

PrintText(c) ==
    /\ phase = "text" /\ running[c] # None
    /\ Succeeded(c) \/ Failed(c)
    /\ phase' = "done"
    /\ running' = [running EXCEPT ![c] = None]
    /\ UNCHANGED <<start, display, timer, now>>

-----------------------------------------------------------------------------
(* Profiles                                                                *)

\* Mutation: the interval stays that of the profile the program started with.
ActivateProfileKeepingPace(p) ==
    IF p \notin Profiles \/ p = active
    THEN UNCHANGED <<active, cursor, client, refresh, snapshot, err, state, running>>
    ELSE /\ active' = p /\ cursor' = p /\ UNCHANGED refresh
         /\ client' \in {p, None}
         /\ snapshot' = None
         /\ err' = (client' = None)
         /\ state' = IF client' = None THEN "error" ELSE "loading"
         /\ IF client' = None THEN UNCHANGED running ELSE RefreshNow

\* activateProfile: forget the old profile's data and start over.
ActivateProfile(p) ==
    IF p \notin Profiles \/ p = active
    THEN UNCHANGED <<active, cursor, client, refresh, snapshot, err, state, running>>
    ELSE /\ active' = p /\ cursor' = p /\ refresh' = p
         /\ client' \in {p, None}
         /\ snapshot' = None
         /\ err' = (client' = None)
         /\ state' = IF client' = None THEN "error" ELSE "loading"
         /\ IF client' = None THEN UNCHANGED running ELSE RefreshNow

-----------------------------------------------------------------------------
(* Keys                                                                    *)

Key == phase = "tui" /\ UNCHANGED <<start, phase, timer, now>>

\* q or ctrl+c, in the selector too: the process ends, and its goroutines with it.
Quit ==
    /\ phase = "tui" /\ phase' = "done"
    /\ running' = [c \in Refreshes |-> None]
    /\ timer' = None
    /\ UNCHANGED <<start, display, now>>

OpenSelector ==
    /\ Key /\ ~selecting /\ count > 1
    /\ selecting' = TRUE
    /\ cursor' = active
    /\ UNCHANGED <<active, client, refresh, snapshot, err, state, running>>

\* [ and ]
Switch(delta) ==
    /\ Key /\ ~selecting /\ count > 1
    /\ ActivateProfile((active + delta + count) % count)
    /\ UNCHANGED selecting

\* r
Refresh ==
    /\ Key /\ ~selecting
    /\ UNCHANGED display
    /\ RefreshNow

CloseSelector ==
    /\ Key /\ selecting
    /\ selecting' = FALSE
    /\ UNCHANGED <<active, cursor, client, refresh, snapshot, err, state, running>>

\* Mutation: the cursor runs past either end of the list.
MoveCursorUnwrapped(delta) ==
    /\ Key /\ selecting
    /\ cursor' = cursor + delta
    /\ UNCHANGED <<active, selecting, client, refresh, snapshot, err, state, running>>

\* up and down
MoveCursor(delta) ==
    /\ Key /\ selecting
    /\ cursor' = (cursor + delta + count) % count
    /\ UNCHANGED <<active, selecting, client, refresh, snapshot, err, state, running>>

\* enter
Choose ==
    /\ Key /\ selecting
    /\ selecting' = FALSE
    /\ ActivateProfile(cursor)

-----------------------------------------------------------------------------
(* Messages                                                                *)

\* Mutation: an answer is taken whatever profile it was asked for.
AnyAnswerCounts(c) == TRUE

\* The refresh was started for the profile that is active now.
AnswerCounts(c) == running[c].profile = active

\* Mutation: every error takes the data off the screen.
ErrorPageAlways == "error"

\* Mutation: an error leaves the page alone, even the loading page.
ErrorPageNever == state

\* The page after an error: an earlier snapshot stays on display.
ErrorPage == IF snapshot = None THEN "error" ELSE state

\* A refresh answers with what it has read or with an error.
SnapshotMsg(c) ==
    /\ phase = "tui" /\ running[c] # None
    /\ Succeeded(c) \/ Failed(c)
    /\ running' = [running EXCEPT ![c] = None]
    /\ \/ /\ ~AnswerCounts(c)
          /\ UNCHANGED <<snapshot, err, state>>
       \/ /\ AnswerCounts(c) /\ Succeeded(c)
          /\ err' = FALSE
          /\ snapshot' = [profile |-> running[c].client, overview |-> running[c].overview,
                          details |-> running[c].details]
          /\ state' = IF SnapshotEmpty(snapshot') THEN "empty" ELSE "loaded"
       \/ /\ AnswerCounts(c) /\ Failed(c)
          /\ err' = TRUE
          /\ state' = ErrorPage
          /\ UNCHANGED snapshot
    /\ UNCHANGED <<start, phase, active, cursor, selecting, client, refresh, timer, now>>

\* Mutation: the tick sets the timer again but asks for nothing.
TickMsgIdle ==
    /\ phase = "tui"
    /\ timer' = refresh
    /\ UNCHANGED <<start, phase, display, running, now>>

\* A tick: refresh, and set the timer again.
TickMsg ==
    /\ phase = "tui"
    /\ timer' = refresh
    /\ UNCHANGED <<start, phase, display, now>>
    /\ RefreshNow

\* A server handles some other request.
DataChange ==
    /\ phase \in {"text", "tui"} /\ now < MaxVersion
    /\ now' = now + 1
    /\ UNCHANGED <<start, phase, display, running, timer>>

-----------------------------------------------------------------------------
Init ==
    /\ \E file \in Files, flags \in CommandLines : input = [file |-> file, flags |-> flags]
    /\ set = NoProfiles
    /\ phase = "start"
    /\ count = 0 /\ active = 0 /\ cursor = 0 /\ refresh = 0
    /\ selecting = FALSE
    /\ client = None /\ snapshot = None /\ timer = None
    /\ err = FALSE
    /\ state = "loading"
    /\ running = [c \in Refreshes |-> None]
    /\ now = 0

Next ==
    \/ Start \/ RunTui \/ RunText
    \/ Quit \/ OpenSelector \/ CloseSelector \/ Choose \/ Refresh
    \/ \E delta \in {-1, 1} : Switch(delta) \/ MoveCursor(delta)
    \/ \E c \in Refreshes :
        \/ ReadOverview(c) \/ SnapshotMsg(c) \/ PrintText(c)
        \/ \E d \in Details : ReadDetail(c, d)
    \/ TickMsg
    \/ DataChange

Spec == Init /\ [][Next]_vars

\* The HTTP client gives up on each page after ten seconds, so every refresh
\* answers; timers expire; and the program's loop takes every message.  A tick
\* finds no free slot for its refresh only because Refreshes is bounded: strong
\* fairness lets it have one of those that come free again and again.  Nothing
\* is assumed of the operator's keys or of the servers' data.
Fairness == /\ \A c \in Refreshes : /\ WF_vars(SnapshotMsg(c))
                                    /\ \A d \in Details : WF_vars(ReadDetail(c, d))
            /\ SF_vars(TickMsg)

FairSpec == Spec /\ Fairness

-----------------------------------------------------------------------------
\* The dashboard starts with the profiles of the file, each under its own name
\* and with its own server whichever key named it, and shows first the one the
\* command line or else the file asks for; the server and the token of the
\* command line go to that profile and to no other (buildProfileSet, Select,
\* applyFlagOverrides, SetActiveConfig and the order main calls them in).
StartsAsAsked ==
    phase = "ready" /\ input.file.kind = "mapping" =>
        LET entries == input.file.entries
            flags == input.flags
            asked == IF Trim(flags.profile) # Empty THEN Trim(flags.profile) ELSE input.file.default
            first == set.profiles[set.active + 1]
        IN /\ Len(set.profiles) = Len(entries)
           /\ asked # Empty => first.name = asked
           /\ asked = Empty => \A i \in DOMAIN entries : ~Before(entries[i].key, first.name)
           /\ \A i \in DOMAIN entries : \E j \in DOMAIN set.profiles :
                LET profile == set.profiles[j]
                    overridden == profile = first /\ flags.server # None
                IN /\ profile.name = entries[i].key
                   /\ profile.config.server \in
                        IF overridden THEN {flags.server}
                        ELSE {entries[i].server, entries[i].endpoint} \ {None}
                   /\ profile.config.token = (profile = first /\ flags.token)

\* What is on display was read from the server of the profile named in the
\* header, however late the answers to earlier profiles' refreshes arrive.
ShowsActiveProfile == snapshot # None => snapshot.profile = active

\* The page Update chose (loading, error, empty, data) is the one its snapshot
\* and error call for, whatever order the messages came in: an error page names
\* its error, a data page has data, and loading never hides either.
PageMatchesData ==
    /\ state = "loading" => snapshot = None /\ ~err
    /\ state = "error" => snapshot = None /\ err
    /\ state \in {"loaded", "empty"} =>
        snapshot # None /\ SnapshotEmpty(snapshot) = (state = "empty")

\* The pages of one snapshot are read at different instants, and then none is
\* older than the overview they are shown with: what the overview counts, the
\* pages list, unless it is gone by then (Client.Snapshot, snapshotDetails).
DetailsFollowOverview ==
    snapshot # None =>
        \A d \in Details : \/ None = snapshot.details[d] \/ Blank = snapshot.overview
                           \/ snapshot.details[d] >= snapshot.overview

\* Loading comes to an end unless the operator moves on: the refresh the switch
\* started is answered, and the answer is not mistaken for an old one.
LoadingEnds ==
    \A p \in Indices :
        (phase = "tui" /\ state = "loading" /\ active = p)
            ~> (state # "loading" \/ active # p \/ phase = "done")

\* Refreshes overlap, and an older one may answer last and put older data back.
\* Once the servers' data stay as they are, the display comes to show the newest
\* and stays with it, or says that it cannot (tickMsg, snapshotMsg).
SettlesOnNewest ==
    <>[](phase = "tui" /\ snapshot # None /\ ~err => snapshot.overview \in {now, Blank})

\* A switch of profile does not touch the timer that is running; from the next
\* tick on it runs at the pace of the new profile (activateProfile, tickMsg).
PaceFollows ==
    \A p \in Indices :
        (phase = "tui" /\ active = p) ~> (timer = p \/ active # p \/ phase = "done")
=============================================================================
