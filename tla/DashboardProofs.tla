---------------------------- MODULE DashboardProofs ----------------------------
(***************************************************************************)
(* Theorems about Dashboard, for any files, command lines, number of       *)
(* profiles, refreshes at once and detail pages.  What is displayed goes   *)
(* through a refresh that was started earlier, perhaps for another         *)
(* profile, so the invariant (DashInv) says of every running refresh what  *)
(* the properties say of the display: for which profile it asks, and which *)
(* versions of the data it has read.                                       *)
(*                                                                         *)
(* The last part is about main: that the sorted profiles are those of the  *)
(* file (by the number of entries before each one), and that --profile,    *)
(* --server and --token change what they should and nothing else.          *)
(***************************************************************************)
EXTENDS Dashboard, FiniteSetTheorems, TLAPS

USE DEF start, display

-----------------------------------------------------------------------------
(* The profiles main starts with                                           *)

\* A ProfileSet of n profiles with an active one among them.
ShapedBy(pset, n, profiles) ==
    /\ pset = [profiles |-> profiles, active |-> pset.active]
    /\ DOMAIN profiles = 1 .. n /\ profiles = [i \in 1 .. n |-> profiles[i]]
    /\ pset.active \in 0 .. n - 1

Shaped(pset) == \E n \in 1 .. MaxProfiles : ShapedBy(pset, n, pset.profiles)

\* A valid file has as many profiles as entries.
LEMMA FileShaped ==
    ASSUME NEW file \in Files, FileValid(file)
    PROVE  Shaped(BuildProfileSet(file))
<1> DEFINE sorted == SortedEntries(file.entries)
           named == {i \in DOMAIN sorted : sorted[i].key = file.default}
           profiles == [i \in DOMAIN sorted |->
                          [name |-> sorted[i].key, config |-> NormalizeConfig(sorted[i])]]
           at == IF named = {} THEN 0 ELSE (CHOOSE i \in named : TRUE) - 1
<1>1. file.entries \in Seq(Entry) /\ file.entries # <<>> /\ Len(file.entries) <= MaxProfiles
  BY InputsAssumption, DashboardAssumption DEF File, FileValid
<1>2. PICK n \in 1 .. MaxProfiles : DOMAIN file.entries = 1 .. n
  <2>1. Len(file.entries) \in Nat /\ DOMAIN file.entries = 1 .. Len(file.entries)
          /\ Len(file.entries) # 0
    BY <1>1
  <2> QED
    BY <1>1, <2>1, DashboardAssumption
<1>3. DOMAIN sorted = 1 .. n
  BY <1>2 DEF SortedEntries
<1> HIDE DEF sorted
<1>4. DOMAIN profiles = 1 .. n /\ profiles = [i \in 1 .. n |-> profiles[i]]
  BY <1>3
<1>5. at \in 0 .. n - 1
  BY <1>2, <1>3
<1>6. BuildProfileSet(file) = [profiles |-> profiles, active |-> at]
  BY DEF BuildProfileSet, sorted
<1> HIDE DEF profiles, at
<1> QED
  BY <1>4, <1>5, <1>6 DEF Shaped, ShapedBy

\* The file's profiles, or the one of the command line.
LEMMA LoadedShaped ==
    ASSUME NEW file \in Files, NEW flags
    PROVE  Shaped(Loaded(file, flags))
<1>1. CASE FileValid(file)
  BY <1>1, FileShaped DEF Loaded
<1>2. CASE ~FileValid(file)
  <2> DEFINE profile == [Cli EXCEPT !.config.server = flags.server]
  <2>1. Loaded(file, flags) = [profiles |-> <<profile>>, active |-> 0]
    BY <1>2 DEF Loaded
  <2> HIDE DEF profile
  <2>2. DOMAIN <<profile>> = 1 .. 1 /\ <<profile>> = [i \in 1 .. 1 |-> <<profile>>[i]]
    OBVIOUS
  <2> QED
    BY <2>1, <2>2, DashboardAssumption DEF Shaped, ShapedBy
<1> QED
  BY <1>1, <1>2

\* Select takes one of the profiles, and Override keeps their number.
LEMMA ProfilesShaped ==
    ASSUME NEW file \in Files, NEW flags, StartsWith(file, flags)
    PROVE  Shaped(ProfilesFrom(file, flags))
<1> DEFINE loaded == Loaded(file, flags)
           selected == Select(loaded, flags)
           cfg == selected.profiles[selected.active + 1].config
           config == [server |-> IF flags.server = None THEN cfg.server ELSE flags.server,
                      token  |-> cfg.token \/ flags.token]
<1>1. PICK n \in 1 .. MaxProfiles : ShapedBy(loaded, n, loaded.profiles)
  BY LoadedShaped DEF Shaped
<1>2. ShapedBy(selected, n, selected.profiles)
  <2>1. CASE Trim(flags.profile) = Empty
    BY <1>1, <2>1 DEF Select
  <2>2. CASE Trim(flags.profile) # Empty
    <3>1. (CHOOSE i \in Selected(loaded, flags) : TRUE) \in 1 .. n
      BY <1>1, <2>2 DEF StartsWith, Selected, ShapedBy
    <3>2. selected = [loaded EXCEPT !.active = (CHOOSE i \in Selected(loaded, flags) : TRUE) - 1]
      BY <2>2 DEF Select
    <3> HIDE DEF loaded, selected
    <3> QED
      BY <1>1, <3>1, <3>2 DEF ShapedBy
  <2> QED
    BY <2>1, <2>2
<1>3. ProfilesFrom(file, flags) = [selected EXCEPT !.profiles[selected.active + 1].config = config]
  BY DEF ProfilesFrom, Override
<1> HIDE DEF selected, config
<1>4. ShapedBy(ProfilesFrom(file, flags), n, ProfilesFrom(file, flags).profiles)
  BY <1>2, <1>3 DEF ShapedBy
<1> QED
  BY <1>4 DEF Shaped

-----------------------------------------------------------------------------
(* Types                                                                   *)

\* What main still has to use, and that the dashboard has profiles to show.
PhaseInv ==
    /\ phase = "start" => input.file \in Files
    /\ phase = "ready" => Shaped(set)
    /\ phase \in {"start", "ready"} => snapshot = None
    /\ phase = "tui" => active \in Profiles /\ cursor \in Profiles

TypeInv == TypeOK /\ PhaseInv

\* A refresh that has just been started.
LEMMA CommandForType ==
    ASSUME NEW p \in Indices, NEW c \in Indices \cup {None}
    PROVE  CommandFor(p, c) \in Command
BY DEF CommandFor, Command

\* RefreshNow fills a free slot.
LEMMA RefreshNowType ==
    ASSUME TypeOK, RefreshNow, active' \in Indices, client' \in Indices \cup {None}
    PROVE  running' \in [Refreshes -> Command \cup {None}]
BY CommandForType DEF TypeOK, RefreshNow

\* A shaped set has an index for each profile.
LEMMA ShapedIndices ==
    ASSUME NEW pset, Shaped(pset)
    PROVE  /\ Len(pset.profiles) \in 1 .. MaxProfiles
           /\ pset.active \in 0 .. Len(pset.profiles) - 1
           /\ pset.active \in Indices
<1>1. PICK n \in 1 .. MaxProfiles : ShapedBy(pset, n, pset.profiles)
  BY DEF Shaped
<1>2. Len(pset.profiles) = n
  BY <1>1 DEF ShapedBy
<1> QED
  BY <1>1, <1>2, DashboardAssumption DEF ShapedBy, Indices

\* Switching to a profile that exists.
LEMMA ActivateType ==
    ASSUME TypeOK, count \in 1 .. MaxProfiles, active \in Profiles, cursor \in Profiles,
           NEW p, ActivateProfile(p), UNCHANGED count
    PROVE  /\ active' \in Profiles /\ cursor' \in Profiles
           /\ active' \in Indices /\ cursor' \in Indices /\ refresh' \in Indices
           /\ client' \in Indices \cup {None}
           /\ snapshot' \in Snapshot \cup {None} /\ err' \in BOOLEAN
           /\ state' \in {"loading", "loaded", "empty", "error"}
           /\ running' \in [Refreshes -> Command \cup {None}]
<1>1. CASE UNCHANGED <<active, cursor, client, refresh, snapshot, err, state, running>>
  BY <1>1 DEF TypeOK
<1>2. CASE ~UNCHANGED <<active, cursor, client, refresh, snapshot, err, state, running>>
  <2>1. /\ p \in Profiles /\ active' = p /\ cursor' = p /\ refresh' = p
        /\ client' \in {p, None} /\ snapshot' = None /\ err' = (client' = None)
        /\ state' = IF client' = None THEN "error" ELSE "loading"
        /\ UNCHANGED running \/ RefreshNow
    BY <1>2 DEF ActivateProfile
  <2>2. p \in Indices
    BY <2>1, DashboardAssumption DEF Profiles, Indices
  <2>3. err' \in BOOLEAN /\ state' \in {"loading", "loaded", "empty", "error"}
    BY <2>1
  <2>4. running' \in [Refreshes -> Command \cup {None}]
    BY <2>1, <2>2, RefreshNowType DEF TypeOK
  <2> QED
    BY <2>1, <2>2, <2>3, <2>4
<1> QED
  BY <1>1, <1>2

\* A step of a refresh changes that refresh only, and ends or continues it.
Moves(c) == \E r \in Command \cup {None} : running' = [running EXCEPT ![c] = r]

\* What each page adds to a refresh keeps its type.
LEMMA ReadType ==
    ASSUME TypeOK, NEW c \in Refreshes,
           ReadOverview(c) \/ \E d \in Details : ReadDetail(c, d)
    PROVE  Moves(c)
<1>1. running[c] \in Command
  BY DEF TypeOK, ReadOverview, ReadDetail
<1>2. now \in Versions
  BY DEF TypeOK
<1>3. CASE ReadOverview(c)
  <2>1. PICK v \in {now, Blank} : running' = [running EXCEPT ![c].overview = v]
    BY <1>3 DEF ReadOverview
  <2> DEFINE r == [running[c] EXCEPT !.overview = v]
  <2>2. r \in Command
    BY <1>1, <1>2 DEF Command
  <2>3. running' = [running EXCEPT ![c] = r]
    BY <2>1
  <2> QED
    BY <2>2, <2>3 DEF Moves
<1>4. ASSUME NEW d \in Details, ReadDetail(c, d) PROVE Moves(c)
  <2>1. PICK v \in {now, None} :
          running' = [running EXCEPT ![c].details[d] = v, ![c].pending = @ \ {d}]
    BY <1>4 DEF ReadDetail
  <2> DEFINE r == [running[c] EXCEPT !.details[d] = v, !.pending = @ \ {d}]
  <2>2. r \in Command
    BY <1>1, <1>2 DEF Command
  <2>3. running' = [running EXCEPT ![c] = r]
    BY <2>1
  <2> QED
    BY <2>2, <2>3 DEF Moves
<1> QED
  BY <1>3, <1>4

\* What is displayed of an answer is a snapshot.
LEMMA AnswerType ==
    ASSUME TypeOK, NEW c \in Refreshes, running[c] # None, Succeeded(c),
           running[c].client # None
    PROVE  [profile |-> running[c].client, overview |-> running[c].overview,
            details |-> running[c].details] \in Snapshot
<1>1. running[c] \in Command
  BY DEF TypeOK
<1> QED
  BY <1>1 DEF Command, Snapshot, Succeeded

\* A refresh without a client reads nothing.
ClientReads == \A c \in Refreshes :
    running[c] # None /\ running[c].client = None => running[c].overview = None

\* Every action keeps the types.
LEMMA TypeInvStep ==
    ASSUME TypeInv, ClientReads, [Next]_vars
    PROVE  TypeInv'
<1>0. TypeOK /\ PhaseInv
  BY DEF TypeInv
<1>a. phase = "tui" => /\ count \in 1 .. MaxProfiles
                       /\ active \in Profiles /\ cursor \in Profiles
  BY <1>0 DEF TypeOK, PhaseInv, Profiles
<1>1. CASE Start
  BY <1>0, <1>1, ProfilesShaped DEF Start, TypeInv, TypeOK, PhaseInv
<1>2. CASE RunTui
  <2>1. /\ Len(set.profiles) \in 1 .. MaxProfiles
        /\ set.active \in 0 .. Len(set.profiles) - 1
        /\ set.active \in Indices
    BY <1>0, <1>2, ShapedIndices DEF RunTui, PhaseInv
  <2>2. running' \in [Refreshes -> Command \cup {None}]
    BY <1>0, <1>2, <2>1, RefreshNowType DEF RunTui
  <2> QED
    BY <1>0, <1>2, <2>1, <2>2 DEF RunTui, TypeInv, TypeOK, PhaseInv, Profiles
<1>3. CASE RunText
  <2>1. set.active \in Indices
    BY <1>0, <1>3, ShapedIndices DEF RunText, PhaseInv
  <2>2. running' \in [Refreshes -> Command \cup {None}]
    BY <1>0, <1>3, <2>1, CommandForType DEF RunText, TypeOK
  <2> QED
    BY <1>0, <1>3, <2>2 DEF RunText, TypeInv, TypeOK, PhaseInv
<1>4. CASE Quit
  BY <1>0, <1>4 DEF Quit, TypeInv, TypeOK, PhaseInv
<1>5. CASE OpenSelector \/ CloseSelector
  BY <1>0, <1>5 DEF OpenSelector, CloseSelector, Key, TypeInv, TypeOK, PhaseInv, Profiles
<1>6. CASE Choose
  BY <1>0, <1>a, <1>6, ActivateType DEF Choose, Key, TypeInv, TypeOK, PhaseInv, Profiles
<1>7. CASE Refresh
  <2>1. running' \in [Refreshes -> Command \cup {None}]
    BY <1>0, <1>7, RefreshNowType DEF Refresh, TypeOK
  <2> QED
    BY <1>0, <1>7, <2>1 DEF Refresh, Key, TypeInv, TypeOK, PhaseInv, Profiles
<1>8. ASSUME NEW delta \in {-1, 1}, Switch(delta) PROVE TypeInv'
  BY <1>0, <1>a, <1>8, ActivateType DEF Switch, Key, TypeInv, TypeOK, PhaseInv, Profiles
<1>9. ASSUME NEW delta \in {-1, 1}, MoveCursor(delta) PROVE TypeInv'
  <2>1. cursor' \in Profiles' /\ cursor' \in Indices
    <3>1. count \in Nat \ {0} /\ count <= MaxProfiles
      BY <1>a, <1>9, DashboardAssumption DEF MoveCursor, Key
    <3>2. PICK m \in Int : cursor' = m % count
      BY <1>a, <1>9, <3>1 DEF MoveCursor, Key, Profiles
    <3>3. cursor' \in 0 .. count - 1
      BY <3>1, <3>2
    <3>4. count' = count
      BY <1>9 DEF MoveCursor, Key
    <3> QED
      BY <3>1, <3>3, <3>4, DashboardAssumption DEF Profiles, Indices
  <2> QED
    BY <1>0, <1>9, <2>1 DEF MoveCursor, Key, TypeInv, TypeOK, PhaseInv, Profiles
<1>10. ASSUME NEW c \in Refreshes, ReadOverview(c) \/ \E d \in Details : ReadDetail(c, d)
       PROVE  TypeInv'
  <2>1. running' \in [Refreshes -> Command \cup {None}]
    BY <1>0, <1>10, ReadType DEF Moves, TypeOK
  <2> QED
    BY <1>0, <1>10, <2>1 DEF ReadOverview, ReadDetail, TypeInv, TypeOK, PhaseInv, Profiles
<1>11. ASSUME NEW c \in Refreshes, SnapshotMsg(c) PROVE TypeInv'
  <2>1. /\ snapshot' \in Snapshot \cup {None} /\ err' \in BOOLEAN
        /\ state' \in {"loading", "loaded", "empty", "error"}
    <3>1. CASE AnswerCounts(c) /\ Succeeded(c)
      BY <1>0, <1>11, <3>1, AnswerType DEF SnapshotMsg, ClientReads, Succeeded, Failed
    <3>2. CASE ~(AnswerCounts(c) /\ Succeeded(c))
      BY <1>0, <1>11, <3>2 DEF SnapshotMsg, ErrorPage, TypeOK
    <3> QED
      BY <3>1, <3>2
  <2> QED
    BY <1>0, <1>11, <2>1 DEF SnapshotMsg, TypeInv, TypeOK, PhaseInv, Profiles
<1>12. ASSUME NEW c \in Refreshes, PrintText(c) PROVE TypeInv'
  BY <1>0, <1>12 DEF PrintText, TypeInv, TypeOK, PhaseInv
<1>13. CASE TickMsg
  <2>1. running' \in [Refreshes -> Command \cup {None}]
    BY <1>0, <1>13, RefreshNowType DEF TickMsg, TypeOK
  <2> QED
    BY <1>0, <1>13, <2>1 DEF TickMsg, TypeInv, TypeOK, PhaseInv, Profiles
<1>14. CASE DataChange
  BY <1>0, <1>14, DashboardAssumption DEF DataChange, TypeInv, TypeOK, PhaseInv, Profiles, Versions
<1>15. CASE UNCHANGED vars
  BY <1>0, <1>15 DEF vars, TypeInv, TypeOK, PhaseInv, Profiles
<1> QED
  BY <1>1, <1>2, <1>3, <1>4, <1>5, <1>6, <1>7, <1>8, <1>9, <1>10, <1>11, <1>12, <1>13,
     <1>14, <1>15 DEF Next

-----------------------------------------------------------------------------
(* What is displayed                                                       *)

\* A refresh asks for the profile it was started for, and has read no page from
\* the future nor one older than its overview.
Good(r, n) ==
    /\ r.client \in {r.profile, None}
    /\ r.client = None => r.overview = None
    /\ r.overview \in Versions => r.overview <= n
    /\ \A d \in Details : \/ r.details[d] = None
                          \/ r.overview = Blank
                          \/ r.overview \in Versions /\ r.details[d] >= r.overview

RunningInv == \A c \in Refreshes : running[c] # None => Good(running[c], now)

DisplayInv == /\ client \in {active, None}
              /\ ShowsActiveProfile /\ PageMatchesData /\ DetailsFollowOverview

DashInv == TypeInv /\ RunningInv /\ DisplayInv

\* A new refresh has read nothing.
LEMMA NewIsGood ==
    ASSUME NEW p \in Indices, NEW c \in {p, None}, NEW n
    PROVE  Good(CommandFor(p, c), n)
BY ConfigAssumption, DashboardAssumption DEF CommandFor, Good, Versions

\* Starting one leaves the others as they are.
LEMMA RefreshNowGood ==
    ASSUME TypeOK, RunningInv, UNCHANGED now,
           UNCHANGED running \/ RefreshNow, active' \in Indices, client' \in {active', None}
    PROVE  RunningInv'
<1>1. CASE UNCHANGED running
  BY <1>1 DEF RunningInv
<1>2. CASE RefreshNow
  <2>1. PICK c \in Refreshes : running' = [running EXCEPT ![c] = CommandFor(active', client')]
    BY <1>2 DEF RefreshNow
  <2>2. Good(CommandFor(active', client'), now)
    BY NewIsGood
  <2>3. running \in [Refreshes -> Command \cup {None}]
    BY DEF TypeOK
  <2>4. SUFFICES ASSUME NEW u \in Refreshes, running'[u] # None
                 PROVE  Good(running'[u], now)
    BY DEF RunningInv
  <2>5. CASE u = c
    BY <2>1, <2>2, <2>3, <2>5
  <2>6. CASE u # c
    BY <2>1, <2>3, <2>4, <2>6 DEF RunningInv
  <2> QED
    BY <2>5, <2>6
<1> QED
  BY <1>1, <1>2

\* A profile's client and pages are taken away before the next one's are asked for.
LEMMA ActivateGood ==
    ASSUME DashInv, NEW p, ActivateProfile(p), active \in Profiles, UNCHANGED <<now, count>>,
           count \in 1 .. MaxProfiles
    PROVE  RunningInv' /\ DisplayInv'
<1>0. TypeOK
  BY DEF DashInv, TypeInv
<1>1. CASE UNCHANGED <<active, cursor, client, refresh, snapshot, err, state, running>>
  BY <1>1 DEF DashInv, RunningInv, DisplayInv, ShowsActiveProfile, PageMatchesData,
     DetailsFollowOverview
<1>2. CASE ~UNCHANGED <<active, cursor, client, refresh, snapshot, err, state, running>>
  <2>1. /\ p \in Profiles /\ active' = p /\ client' \in {p, None} /\ snapshot' = None
        /\ err' = (client' = None)
        /\ state' = IF client' = None THEN "error" ELSE "loading"
        /\ UNCHANGED running \/ RefreshNow
    BY <1>2 DEF ActivateProfile
  <2>2. p \in Indices
    BY <2>1, DashboardAssumption DEF Profiles, Indices
  <2>3. RunningInv'
    BY <1>0, <2>1, <2>2, RefreshNowGood DEF DashInv
  <2>4. PageMatchesData'
    BY <2>1 DEF PageMatchesData
  <2> QED
    BY <2>1, <2>3, <2>4 DEF DisplayInv, ShowsActiveProfile, DetailsFollowOverview
<1> QED
  BY <1>1, <1>2

\* The pages of a refresh are read at the present version, after its overview.
LEMMA ReadGood ==
    ASSUME TypeOK, RunningInv, NEW c \in Refreshes,
           ReadOverview(c) \/ \E d \in Details : ReadDetail(c, d)
    PROVE  RunningInv'
<1>a. running[c] # None /\ now' = now
  BY DEF ReadOverview, ReadDetail
<1>0. /\ running \in [Refreshes -> Command \cup {None}] /\ running[c] \in Command
      /\ Good(running[c], now) /\ now \in Versions /\ now \in Int /\ now' = now
  BY <1>a DEF TypeOK, RunningInv, Versions
<1>1. ASSUME NEW r, Good(r, now), running' = [running EXCEPT ![c] = r] PROVE RunningInv'
  <2>1. SUFFICES ASSUME NEW u \in Refreshes, running'[u] # None
                 PROVE  Good(running'[u], now)
    BY <1>0 DEF RunningInv
  <2>2. CASE u = c
    BY <1>0, <1>1, <2>2
  <2>3. CASE u # c
    BY <1>0, <1>1, <2>1, <2>3 DEF RunningInv
  <2> QED
    BY <2>2, <2>3
<1>2. CASE ReadOverview(c)
  <2>1. PICK v \in {now, Blank} : running' = [running EXCEPT ![c].overview = v]
    BY <1>2 DEF ReadOverview
  <2> DEFINE r == [running[c] EXCEPT !.overview = v]
  <2>2. running' = [running EXCEPT ![c] = r]
    BY <2>1
  <2>3. /\ r.overview = v /\ r.details = running[c].details
        /\ r.client = running[c].client /\ r.profile = running[c].profile
    BY <1>0 DEF Command
  <2>4. running[c].client # None /\ \A d \in Details : running[c].details[d] = None
    BY <1>0, <1>2, ConfigAssumption, DashboardAssumption DEF ReadOverview, Good, Versions
  <2> HIDE DEF r
  <2>5. Good(r, now)
    BY <1>0, <2>3, <2>4, DashboardAssumption DEF Good, Versions
  <2> QED
    BY <1>1, <2>2, <2>5
<1>3. ASSUME NEW e \in Details, ReadDetail(c, e) PROVE RunningInv'
  <2>1. PICK v \in {now, None} :
          running' = [running EXCEPT ![c].details[e] = v, ![c].pending = @ \ {e}]
    BY <1>3 DEF ReadDetail
  <2> DEFINE r == [running[c] EXCEPT !.details[e] = v, !.pending = @ \ {e}]
  <2>2. running' = [running EXCEPT ![c] = r]
    BY <2>1
  <2>3. /\ r.overview = running[c].overview
        /\ r.client = running[c].client /\ r.profile = running[c].profile
        /\ \A d \in Details : r.details[d] = IF d = e THEN v ELSE running[c].details[d]
    BY <1>0 DEF Command
  <2>4. running[c].overview \in Versions \cup {Blank}
    BY <1>0, <1>3 DEF ReadDetail, Command
  <2> HIDE DEF r
  <2>5. Good(r, now)
    BY <1>0, <2>3, <2>4 DEF Good, Versions
  <2> QED
    BY <1>1, <2>2, <2>5
<1> QED
  BY <1>2, <1>3

\* An answer counts if it is the active profile's, and says where it comes from.
LEMMA AnswerGood ==
    ASSUME DashInv, NEW c \in Refreshes, SnapshotMsg(c)
    PROVE  RunningInv' /\ DisplayInv'
<1>0. TypeOK /\ running[c] \in Command /\ Good(running[c], now)
  BY DEF DashInv, TypeInv, TypeOK, RunningInv, SnapshotMsg
<1>1. RunningInv'
  BY <1>0 DEF DashInv, RunningInv, SnapshotMsg, TypeOK
<1>2. CASE AnswerCounts(c) /\ Succeeded(c)
  <2>1. running[c].client = active /\ running[c].overview # None
    BY <1>0, <1>2 DEF AnswerCounts, Succeeded, Good
  <2>2. [profile |-> running[c].client, overview |-> running[c].overview,
         details |-> running[c].details] \in Snapshot
    BY <1>0, <1>2, <2>1, AnswerType, ConfigAssumption, NoneIsNoData
       DEF SnapshotMsg, TypeOK, Indices
  <2>3. /\ snapshot' = [profile |-> running[c].client, overview |-> running[c].overview,
                        details |-> running[c].details]
        /\ state' = IF SnapshotEmpty(snapshot') THEN "empty" ELSE "loaded"
        /\ UNCHANGED <<active, client>>
    BY <1>2 DEF SnapshotMsg, Succeeded, Failed
  <2>4. snapshot' # None
    BY <2>2, <2>3, NoneIsNoData
  <2>5. PageMatchesData'
    BY <2>3, <2>4 DEF PageMatchesData, SnapshotEmpty
  <2>6. DetailsFollowOverview'
    BY <1>0, <2>3 DEF DetailsFollowOverview, Good
  <2> QED
    BY <1>1, <2>1, <2>3, <2>5, <2>6 DEF DashInv, DisplayInv, ShowsActiveProfile
<1>3. CASE ~(AnswerCounts(c) /\ Succeeded(c))
  <2>1. /\ UNCHANGED <<snapshot, active, client>>
        /\ \/ UNCHANGED <<err, state>>
           \/ err' = TRUE /\ state' = ErrorPage
    BY <1>3 DEF SnapshotMsg
  <2>2. PageMatchesData'
    BY <1>0, <2>1 DEF DashInv, DisplayInv, PageMatchesData, ErrorPage, TypeOK, SnapshotEmpty
  <2> QED
    BY <1>1, <2>1, <2>2 DEF DashInv, DisplayInv, ShowsActiveProfile, DetailsFollowOverview
<1> QED
  BY <1>2, <1>3

\* Every action.
LEMMA DashInvStep ==
    ASSUME DashInv, [Next]_vars
    PROVE  DashInv'
<1>0. TypeInv /\ TypeOK /\ PhaseInv /\ RunningInv /\ DisplayInv
  BY DEF DashInv, TypeInv
<1>a. TypeInv'
  <2>1. ClientReads
    BY <1>0 DEF RunningInv, Good, ClientReads
  <2> QED
    BY <1>0, <2>1, TypeInvStep
<1>b. SUFFICES RunningInv' /\ DisplayInv'
  BY <1>a DEF DashInv
<1>c. phase = "tui" => count \in 1 .. MaxProfiles /\ active \in Profiles
  BY <1>0 DEF TypeOK, PhaseInv, Profiles
<1>d. UNCHANGED <<active, client, snapshot, err, state>> => DisplayInv'
  BY <1>0 DEF DisplayInv, ShowsActiveProfile, PageMatchesData, DetailsFollowOverview,
     SnapshotEmpty
<1>e. UNCHANGED <<running, now>> => RunningInv'
  BY <1>0 DEF RunningInv
<1>1. CASE RunTui
  <2>1. /\ set.active \in Indices /\ active' = set.active /\ client' \in {set.active, None}
        /\ err' = (client' = None)
        /\ state' = IF client' = None THEN "error" ELSE "loading"
        /\ RefreshNow /\ UNCHANGED <<snapshot, now>>
    BY <1>0, <1>1, ShapedIndices DEF RunTui, PhaseInv
  <2>2. snapshot = None
    BY <1>0, <1>1 DEF RunTui, PhaseInv
  <2>3. PageMatchesData'
    BY <2>1, <2>2 DEF PageMatchesData
  <2> QED
    BY <1>0, <2>1, <2>2, <2>3, RefreshNowGood
       DEF DisplayInv, ShowsActiveProfile, DetailsFollowOverview
<1>2. CASE RunText
  <2>1. set.active \in Indices
    BY <1>0, <1>2, ShapedIndices DEF RunText, PhaseInv
  <2>2. Good(CommandFor(set.active, set.active), now)
    BY <2>1, NewIsGood
  <2>3. RunningInv'
    BY <1>0, <1>2, <2>2 DEF RunText, RunningInv, TypeOK
  <2> QED
    BY <1>2, <1>d, <2>3 DEF RunText
<1>3. CASE Start \/ OpenSelector \/ CloseSelector \/ \E delta \in {-1, 1} : MoveCursor(delta)
  BY <1>3, <1>d, <1>e DEF Start, OpenSelector, CloseSelector, MoveCursor, Key
<1>4. CASE Quit
  BY <1>0, <1>4, <1>d DEF Quit, RunningInv
<1>5. CASE Choose
  BY <1>0, <1>c, <1>5, ActivateGood DEF DashInv, Choose, Key
<1>6. ASSUME NEW delta \in {-1, 1}, Switch(delta) PROVE RunningInv' /\ DisplayInv'
  BY <1>0, <1>c, <1>6, ActivateGood DEF DashInv, Switch, Key
<1>7. CASE Refresh \/ TickMsg
  <2>1. RefreshNow /\ UNCHANGED <<active, client, snapshot, err, state, now>>
    BY <1>7 DEF Refresh, TickMsg, Key
  <2> QED
    BY <1>0, <1>d, <2>1, RefreshNowGood DEF TypeOK, DisplayInv
<1>8. ASSUME NEW c \in Refreshes, ReadOverview(c) \/ \E d \in Details : ReadDetail(c, d)
      PROVE  RunningInv' /\ DisplayInv'
  <2>1. UNCHANGED <<active, client, snapshot, err, state>>
    BY <1>8 DEF ReadOverview, ReadDetail
  <2> QED
    BY <1>0, <1>8, <1>d, <2>1, ReadGood
<1>9. ASSUME NEW c \in Refreshes, SnapshotMsg(c) PROVE RunningInv' /\ DisplayInv'
  BY <1>9, AnswerGood
<1>10. ASSUME NEW c \in Refreshes, PrintText(c) PROVE RunningInv' /\ DisplayInv'
  BY <1>0, <1>10, <1>d DEF PrintText, RunningInv, TypeOK
<1>11. CASE DataChange
  <2>1. now \in Int /\ now' = now + 1 /\ UNCHANGED running
    BY <1>0, <1>11 DEF DataChange, TypeOK, Versions
  <2>2. RunningInv'
    BY <1>0, <2>1 DEF RunningInv, Good, Versions
  <2> QED
    BY <1>11, <1>d, <2>2 DEF DataChange
<1>12. CASE UNCHANGED vars
  BY <1>12, <1>d, <1>e DEF vars
<1> QED
  BY <1>1, <1>2, <1>3, <1>4, <1>5, <1>6, <1>7, <1>8, <1>9, <1>10, <1>11, <1>12 DEF Next

\* Before main has read anything.
LEMMA DashInvInit == Init => DashInv
<1> SUFFICES ASSUME Init PROVE DashInv
  OBVIOUS
<1>1. TypeOK
  <2>1. 0 \in Indices /\ 0 \in Versions /\ 0 \in 0 .. MaxProfiles
    BY DashboardAssumption DEF Indices, Versions
  <2>2. selecting \in BOOLEAN /\ err \in BOOLEAN
    BY DEF Init
  <2> QED
    BY <2>1, <2>2 DEF Init, TypeOK
<1>2. PhaseInv
  BY DEF Init, PhaseInv
<1>3. RunningInv /\ DisplayInv
  BY DEF Init, RunningInv, DisplayInv, ShowsActiveProfile, PageMatchesData,
     DetailsFollowOverview
<1> QED
  BY <1>1, <1>2, <1>3 DEF DashInv, TypeInv

-----------------------------------------------------------------------------
(* The theorems about the display                                          *)

\* Whatever messages and keys come in which order, the model's fields stay in
\* range: the active profile and the cursor are always profiles of the file.
THEOREM DashboardTypeCorrect == Spec => []TypeOK
<1>1. DashInv /\ [Next]_vars => DashInv'
  BY DashInvStep
<1>2. DashInv => TypeOK
  BY DEF DashInv, TypeInv
<1> QED
  BY <1>1, <1>2, DashInvInit, PTL DEF Spec

\* No answer to a refresh of another profile, however late, gets on display
\* under the name of the active one (snapshotMsg).
THEOREM ActiveProfileIsShown == Spec => []ShowsActiveProfile
<1>1. DashInv /\ [Next]_vars => DashInv'
  BY DashInvStep
<1>2. DashInv => ShowsActiveProfile
  BY DEF DashInv, DisplayInv
<1> QED
  BY <1>1, <1>2, DashInvInit, PTL DEF Spec

\* The page on display fits the data and the error, in whatever order answers,
\* errors and switches of profile came.
THEOREM PageFitsData == Spec => []PageMatchesData
<1>1. DashInv /\ [Next]_vars => DashInv'
  BY DashInvStep
<1>2. DashInv => PageMatchesData
  BY DEF DashInv, DisplayInv
<1> QED
  BY <1>1, <1>2, DashInvInit, PTL DEF Spec

\* No detail page on display is older than the overview beside it
\* (Client.Snapshot waits for the overview before it asks for the others).
THEOREM DetailsAreNotOlder == Spec => []DetailsFollowOverview
<1>1. DashInv /\ [Next]_vars => DashInv'
  BY DashInvStep
<1>2. DashInv => DetailsFollowOverview
  BY DEF DashInv, DisplayInv
<1> QED
  BY <1>1, <1>2, DashInvInit, PTL DEF Spec


-----------------------------------------------------------------------------
(* The order of the profiles                                               *)

\* Names that differ are in one order.
LEMMA BeforeIsOrder ==
    ASSUME NEW a \in Raw, NEW b \in Raw, NEW c \in Raw
    PROVE  /\ ~Before(a, a)
           /\ Before(a, b) /\ Before(b, c) => Before(a, c)
           /\ a # b => Before(a, b) \/ Before(b, a)
<1>1. /\ a.name \in Nat /\ b.name \in Nat /\ c.name \in Nat
      /\ a.padded \in BOOLEAN /\ b.padded \in BOOLEAN /\ c.padded \in BOOLEAN
  <2>1. Names \cup {0} \subseteq Nat
    BY ConfigAssumption
  <2>2. /\ a.name \in Names \cup {0} /\ b.name \in Names \cup {0} /\ c.name \in Names \cup {0}
        /\ a.padded \in BOOLEAN /\ b.padded \in BOOLEAN /\ c.padded \in BOOLEAN
    BY DEF Raw
  <2> QED
    BY <2>1, <2>2
<1>2. a # b => a.name # b.name \/ a.padded # b.padded
  BY DEF Raw
<1>3. ~Before(a, a)
  BY <1>1 DEF Before
<1>4. Before(a, b) /\ Before(b, c) => Before(a, c)
  BY <1>1 DEF Before
<1>5. a # b => Before(a, b) \/ Before(b, a)
  BY <1>1, <1>2 DEF Before
<1> QED
  BY <1>3, <1>4, <1>5

\* How many entries come before one.
Preceding(entries, j) == {k \in DOMAIN entries : Before(entries[k].key, entries[j].key)}
Rank(entries, j) == Cardinality(Preceding(entries, j))

\* Entries under different names have different ranks, and each rank is taken.
LEMMA RanksDiffer ==
    ASSUME NEW entries \in Seq(Entry), NamesDistinct(entries), NEW n \in Nat, DOMAIN entries = 1 .. n
    PROVE  /\ \A j \in 1 .. n : Rank(entries, j) \in 0 .. n - 1
           /\ \A j, k \in 1 .. n : Rank(entries, j) = Rank(entries, k) => j = k
           /\ \A i \in 1 .. n : \E j \in 1 .. n : Rank(entries, j) = i - 1
           /\ \A j, k \in 1 .. n : Rank(entries, j) = 0 => ~Before(entries[k].key, entries[j].key)
<1> USE DEF Rank
<1>1. \A j \in 1 .. n : entries[j].key \in Raw
  <2>1. n = Len(entries)
    OBVIOUS
  <2>2. \A j \in 1 .. n : entries[j] \in Entry
    BY <2>1
  <2> QED
    BY <2>2 DEF Entry
<1>2. \A j, k \in 1 .. n : entries[j].key = entries[k].key => j = k
  BY DEF NamesDistinct
<1>3. IsFiniteSet(1 .. n) /\ Cardinality(1 .. n) = n
  BY FS_Interval
<1>4. ASSUME NEW j \in 1 .. n
      PROVE  /\ Preceding(entries, j) \in SUBSET (1 .. n)
             /\ IsFiniteSet(Preceding(entries, j))
             /\ j \notin Preceding(entries, j)
             /\ Rank(entries, j) \in Nat
             /\ Rank(entries, j) <= n - 1
  <2>1. Preceding(entries, j) \in SUBSET (1 .. n)
    BY DEF Preceding
  <2>2. j \notin Preceding(entries, j)
    BY <1>1, BeforeIsOrder DEF Preceding
  <2>3. IsFiniteSet((1 .. n) \ {j}) /\ Cardinality((1 .. n) \ {j}) = n - 1
    BY <1>3, FS_RemoveElement
  <2>4. Preceding(entries, j) \in SUBSET ((1 .. n) \ {j})
    BY <2>1, <2>2
  <2>5. /\ IsFiniteSet(Preceding(entries, j))
        /\ Cardinality(Preceding(entries, j)) <= n - 1
    BY <2>3, <2>4, FS_Subset
  <2>6. Cardinality(Preceding(entries, j)) \in Nat
    BY <2>5, FS_CardinalityType
  <2> QED
    BY <2>1, <2>2, <2>5, <2>6
<1>5. ASSUME NEW j \in 1 .. n, NEW k \in 1 .. n, Before(entries[k].key, entries[j].key)
      PROVE  Rank(entries, k) < Rank(entries, j)
  <2>1. Preceding(entries, k) \in SUBSET Preceding(entries, j)
    BY <1>1, <1>5, BeforeIsOrder DEF Preceding
  <2>2. k \in Preceding(entries, j) /\ k \notin Preceding(entries, k)
    BY <1>4, <1>5 DEF Preceding
  <2>3. /\ Cardinality(Preceding(entries, k)) <= Cardinality(Preceding(entries, j))
        /\ Cardinality(Preceding(entries, j)) # Cardinality(Preceding(entries, k))
    BY <1>4, <2>1, <2>2, FS_Subset
  <2> QED
    BY <1>4, <2>3
<1>6. ASSUME NEW j \in 1 .. n, NEW k \in 1 .. n, j # k
      PROVE  Rank(entries, j) # Rank(entries, k)
  <2>1. Before(entries[j].key, entries[k].key) \/ Before(entries[k].key, entries[j].key)
    BY <1>1, <1>2, <1>6, BeforeIsOrder
  <2> QED
    BY <1>4, <1>5, <2>1
<1>7. \A i \in 1 .. n : \E j \in 1 .. n : Rank(entries, j) = i - 1
  <2> DEFINE rank == [j \in 1 .. n |-> Rank(entries, j)]
  <2>1. rank \in [1 .. n -> 0 .. n - 1]
    BY <1>4
  <2>2. rank \in Injection(1 .. n, 0 .. n - 1)
    BY <1>6, <2>1 DEF Injection, IsInjective
  <2>3. IsFiniteSet(0 .. n - 1) /\ Cardinality(0 .. n - 1) = n
    BY FS_Interval
  <2> HIDE DEF rank
  <2>4. rank \in Surjection(1 .. n, 0 .. n - 1)
    BY <1>3, <2>2, <2>3, FS_Injection
  <2>5. \A i \in 1 .. n : \E j \in 1 .. n : rank[j] = i - 1
    BY <2>4 DEF Surjection
  <2> QED
    BY <2>5 DEF rank
<1>8. ASSUME NEW j \in 1 .. n, NEW k \in 1 .. n, Rank(entries, j) = 0
      PROVE  ~Before(entries[k].key, entries[j].key)
  BY <1>4, <1>5, <1>8
<1> QED
  BY <1>4, <1>6, <1>7, <1>8

\* SortedEntries puts each entry where its rank says.
LEMMA SortedByRank ==
    ASSUME NEW entries \in Seq(Entry), NamesDistinct(entries), NEW n \in Nat, DOMAIN entries = 1 .. n
    PROVE  /\ DOMAIN SortedEntries(entries) = 1 .. n
           /\ \E at \in [1 .. n -> 1 .. n] :
                /\ \A i \in 1 .. n : /\ SortedEntries(entries)[i] = entries[at[i]]
                                     /\ Rank(entries, at[i]) = i - 1
                /\ \A k \in 1 .. n : \E i \in 1 .. n : at[i] = k
<1> DEFINE at == [i \in 1 .. n |-> CHOOSE j \in DOMAIN entries : Rank(entries, j) = i - 1]
<1>1. /\ \A j \in 1 .. n : Rank(entries, j) \in 0 .. n - 1
      /\ \A j, k \in 1 .. n : Rank(entries, j) = Rank(entries, k) => j = k
      /\ \A i \in 1 .. n : \E j \in 1 .. n : Rank(entries, j) = i - 1
      /\ \A j, k \in 1 .. n : Rank(entries, j) = 0 => ~Before(entries[k].key, entries[j].key)
  BY RanksDiffer
<1>2. SortedEntries(entries) = [i \in 1 .. n |-> entries[at[i]]]
  BY DEF SortedEntries, Rank, Preceding
<1>3. \A i \in 1 .. n : at[i] \in 1 .. n /\ Rank(entries, at[i]) = i - 1
  BY <1>1
<1>4. at \in [1 .. n -> 1 .. n]
  BY <1>3
<1> HIDE DEF at
<1>5. ASSUME NEW k \in 1 .. n PROVE \E i \in 1 .. n : at[i] = k
  <2>1. Rank(entries, k) + 1 \in 1 .. n
    BY <1>1
  <2>2. at[Rank(entries, k) + 1] \in 1 .. n
          /\ Rank(entries, at[Rank(entries, k) + 1]) = Rank(entries, k)
    BY <1>1, <1>3, <2>1
  <2>3. at[Rank(entries, k) + 1] = k
    BY <1>1, <2>2
  <2> QED
    BY <2>1, <2>3
<1>6. \A i \in 1 .. n : SortedEntries(entries)[i] = entries[at[i]]
  BY <1>2
<1> QED
  BY <1>2, <1>3, <1>4, <1>5, <1>6

\* The profiles of a file: those of its entries, each once, and the one that is
\* shown first is the default, or else the first in order.
Faithful(pset, entries, n) ==
    /\ ShapedBy(pset, n, pset.profiles)
    /\ \A i \in 1 .. n : \E j \in 1 .. n :
         pset.profiles[j] = [name |-> entries[i].key, config |-> NormalizeConfig(entries[i])]
    /\ \A j \in 1 .. n : \E i \in 1 .. n :
         pset.profiles[j] = [name |-> entries[i].key, config |-> NormalizeConfig(entries[i])]
    /\ \A i, j \in 1 .. n : pset.profiles[i].name = pset.profiles[j].name => i = j

\* Trim leaves a name without a space as it is.
LEMMA TrimEmpty == Trim(Empty) = Empty
<1>1. ASSUME NEW r \in Raw, r.padded = FALSE PROVE [r EXCEPT !.padded = FALSE] = r
  BY <1>1 DEF Raw
<1>2. Empty \in Raw /\ Empty.padded = FALSE
  BY DEF Empty, Raw
<1> QED
  BY <1>1, <1>2 DEF Trim

FirstOf(pset) == pset.profiles[pset.active + 1]

LEMMA FileProfiles ==
    ASSUME NEW file \in Files, FileValid(file), NEW n \in Nat, DOMAIN file.entries = 1 .. n
    PROVE  LET pset == BuildProfileSet(file)
               entries == file.entries
           IN /\ Faithful(pset, entries, n)
              /\ file.default # Empty => FirstOf(pset).name = file.default
              /\ file.default = Empty => \A i \in 1 .. n : ~Before(entries[i].key, FirstOf(pset).name)
<1> DEFINE entries == file.entries
           sorted == SortedEntries(entries)
           named == {i \in DOMAIN sorted : sorted[i].key = file.default}
           profiles == [i \in DOMAIN sorted |->
                          [name |-> sorted[i].key, config |-> NormalizeConfig(sorted[i])]]
           first == IF named = {} THEN 0 ELSE (CHOOSE i \in named : TRUE) - 1
<1>1. /\ entries \in Seq(Entry) /\ entries # <<>> /\ NamesDistinct(entries)
      /\ file.default = Empty \/ \E i \in 1 .. n : entries[i].key = file.default
  BY InputsAssumption DEF File, FileValid
<1>2. n >= 1
  <2>1. Len(entries) = n
    BY <1>1
  <2> QED
    BY <1>1, <2>1
<1>3. /\ DOMAIN sorted = 1 .. n
      /\ \E at \in [1 .. n -> 1 .. n] :
           /\ \A i \in 1 .. n : sorted[i] = entries[at[i]] /\ Rank(entries, at[i]) = i - 1
           /\ \A k \in 1 .. n : \E i \in 1 .. n : at[i] = k
  BY <1>1, SortedByRank
<1>4. /\ \A j \in 1 .. n : Rank(entries, j) \in 0 .. n - 1
      /\ \A j, k \in 1 .. n : Rank(entries, j) = Rank(entries, k) => j = k
      /\ \A i \in 1 .. n : \E j \in 1 .. n : Rank(entries, j) = i - 1
      /\ \A j, k \in 1 .. n : Rank(entries, j) = 0 => ~Before(entries[k].key, entries[j].key)
  BY <1>1, RanksDiffer
<1> HIDE DEF sorted, entries, named
<1>5. PICK at \in [1 .. n -> 1 .. n] :
        /\ \A i \in 1 .. n : sorted[i] = entries[at[i]] /\ Rank(entries, at[i]) = i - 1
        /\ \A k \in 1 .. n : \E i \in 1 .. n : at[i] = k
  BY <1>3
<1>6. \A i, j \in 1 .. n : entries[i].key = entries[j].key => i = j
  BY <1>1 DEF NamesDistinct, entries
<1>7. \A i, j \in 1 .. n : sorted[i].key = sorted[j].key => i = j
  <2> SUFFICES ASSUME NEW i \in 1 .. n, NEW j \in 1 .. n, sorted[i].key = sorted[j].key PROVE i = j
    OBVIOUS
  <2>1. at[i] \in 1 .. n /\ at[j] \in 1 .. n /\ entries[at[i]].key = entries[at[j]].key
    BY <1>5
  <2>2. at[i] = at[j]
    BY <1>6, <2>1
  <2>3. Rank(entries, at[i]) = i - 1 /\ Rank(entries, at[j]) = j - 1
    BY <1>5
  <2> QED
    BY <2>2, <2>3
<1>8. \A i \in 1 .. n : profiles[i] = [name |-> sorted[i].key, config |-> NormalizeConfig(sorted[i])]
  BY <1>3
<1>9. BuildProfileSet(file) = [profiles |-> profiles, active |-> first]
  BY DEF BuildProfileSet, sorted, entries, named
<1>10. first \in 0 .. n - 1 /\ (named # {} => first + 1 \in named) /\ (named = {} => first = 0)
  <2>1. \A i \in named : i \in 1 .. n
    BY <1>3 DEF named
  <2>2. CASE named = {}
    BY <1>2, <2>2
  <2>3. CASE named # {}
    <3> DEFINE chosen == CHOOSE i \in named : TRUE
    <3>1. chosen \in named
      BY <2>3
    <3>2. first = chosen - 1
      BY <2>3
    <3> HIDE DEF chosen, first
    <3>3. chosen \in 1 .. n
      BY <2>1, <3>1
    <3>4. first + 1 = chosen /\ first \in 0 .. n - 1
      BY <3>2, <3>3
    <3> QED
      BY <2>3, <3>1, <3>4
  <2> QED
    BY <2>2, <2>3
<1>11. DOMAIN profiles = 1 .. n /\ profiles = [i \in 1 .. n |-> profiles[i]]
  BY <1>3
<1> HIDE DEF profiles, first
<1>12. ASSUME NEW i \in 1 .. n
       PROVE  \E j \in 1 .. n : profiles[j] = [name |-> entries[i].key,
                                               config |-> NormalizeConfig(entries[i])]
  <2>1. PICK j \in 1 .. n : at[j] = i
    BY <1>5
  <2>2. sorted[j] = entries[i]
    BY <1>5, <2>1
  <2> QED
    BY <1>8, <2>2
<1>a. ASSUME NEW i \in 1 .. n PROVE profiles[i].name = sorted[i].key
  <2>1. profiles[i] = [name |-> sorted[i].key, config |-> NormalizeConfig(sorted[i])]
    BY <1>8
  <2> QED
    BY <2>1
<1>13. ASSUME NEW i \in 1 .. n, NEW j \in 1 .. n, profiles[i].name = profiles[j].name PROVE i = j
  BY <1>7, <1>a, <1>13
<1>14. ASSUME NEW j \in 1 .. n
       PROVE  \E i \in 1 .. n : profiles[j] = [name |-> entries[i].key,
                                               config |-> NormalizeConfig(entries[i])]
  <2>1. at[j] \in 1 .. n /\ sorted[j] = entries[at[j]]
    BY <1>5
  <2>2. profiles[j] = [name |-> entries[at[j]].key, config |-> NormalizeConfig(entries[at[j]])]
    BY <1>8, <2>1
  <2> QED
    BY <2>1, <2>2
<1>15. Faithful(BuildProfileSet(file), entries, n)
  <2> DEFINE pset == BuildProfileSet(file)
  <2>1. pset.profiles = profiles /\ pset.active = first
          /\ pset = [profiles |-> profiles, active |-> pset.active]
    BY <1>9
  <2> HIDE DEF pset
  <2>2. ShapedBy(pset, n, pset.profiles)
    BY <1>10, <1>11, <2>1 DEF ShapedBy
  <2>3. Faithful(pset, entries, n)
    BY <1>12, <1>13, <1>14, <2>1, <2>2 DEF Faithful
  <2> QED
    BY <2>3 DEF pset
<1>16. FirstOf(BuildProfileSet(file)) = profiles[first + 1]
  BY <1>9 DEF FirstOf
<1>17. profiles[first + 1].name = sorted[first + 1].key
  <2>1. first + 1 \in 1 .. n
    BY <1>10
  <2> QED
    BY <1>a, <2>1
<1>18. ASSUME file.default # Empty PROVE profiles[first + 1].name = file.default
  <2>1. PICK i \in 1 .. n : entries[i].key = file.default
    BY <1>1, <1>18
  <2>2. PICK j \in 1 .. n : at[j] = i
    BY <1>5
  <2>3. sorted[j].key = file.default
    BY <1>5, <2>1, <2>2
  <2>4. named # {}
    BY <1>3, <2>3 DEF named
  <2>5. sorted[first + 1].key = file.default
    BY <1>10, <2>4 DEF named
  <2> QED
    BY <1>17, <2>5
<1>19. ASSUME file.default = Empty, NEW i \in 1 .. n
       PROVE  ~Before(entries[i].key, profiles[first + 1].name)
  <2>1. ASSUME NEW j \in 1 .. n PROVE sorted[j].key # Empty
    <3>1. at[j] \in DOMAIN entries
      BY <1>5 DEF entries
    <3>2. Trim(entries[at[j]].key) # Empty
      BY <1>1, <3>1 DEF NamesDistinct
    <3> QED
      BY <1>5, <3>2, TrimEmpty
  <2>2. first = 0
    BY <1>3, <1>10, <1>19, <2>1 DEF named
  <2>3. sorted[1] = entries[at[1]] /\ Rank(entries, at[1]) = 0 /\ at[1] \in 1 .. n
    <3>1. 1 \in 1 .. n
      BY <1>2
    <3>2. Rank(entries, at[1]) = 1 - 1
      BY <1>5, <3>1
    <3> QED
      BY <1>5, <3>1, <3>2
  <2>4. ~Before(entries[i].key, entries[at[1]].key)
    BY <1>4, <2>3
  <2>5. profiles[first + 1].name = sorted[1].key
    BY <1>17, <2>2
  <2> QED
    BY <2>3, <2>4, <2>5
<1> QED
  BY <1>15, <1>16, <1>18, <1>19 DEF entries

\* Select moves to the profile the command line names, if it names one.
LEMMA SelectedFirst ==
    ASSUME NEW pset, NEW n \in Nat, ShapedBy(pset, n, pset.profiles), NEW flags,
           Trim(flags.profile) = Empty \/ Selected(pset, flags) # {}
    PROVE  LET selected == Select(pset, flags)
           IN /\ ShapedBy(selected, n, selected.profiles) /\ selected.profiles = pset.profiles
              /\ Trim(flags.profile) = Empty => selected = pset
              /\ Trim(flags.profile) # Empty => FirstOf(selected).name = Trim(flags.profile)
<1>1. CASE Trim(flags.profile) = Empty
  BY <1>1 DEF Select
<1>2. CASE Trim(flags.profile) # Empty
  <2> DEFINE chosen == CHOOSE i \in Selected(pset, flags) : TRUE
  <2>1. chosen \in Selected(pset, flags)
    BY <1>2
  <2>2. Select(pset, flags) = [pset EXCEPT !.active = chosen - 1]
    BY <1>2 DEF Select
  <2> HIDE DEF chosen
  <2>3. chosen \in 1 .. n /\ pset.profiles[chosen].name = Trim(flags.profile)
    BY <2>1 DEF Selected, ShapedBy
  <2>4. /\ Select(pset, flags).profiles = pset.profiles
        /\ Select(pset, flags).active = chosen - 1
        /\ Select(pset, flags) = [profiles |-> pset.profiles, active |-> chosen - 1]
    BY <2>2 DEF ShapedBy
  <2>5. chosen - 1 + 1 = chosen /\ chosen - 1 \in 0 .. n - 1
    BY <2>3
  <2> QED
    BY <1>2, <2>3, <2>4, <2>5 DEF ShapedBy, FirstOf
<1> QED
  BY <1>1, <1>2

\* Override changes the configuration of the first profile and nothing else.
LEMMA OverriddenFirst ==
    ASSUME NEW pset, NEW n \in Nat, ShapedBy(pset, n, pset.profiles), NEW flags,
           \A j \in 1 .. n : \E a, c : pset.profiles[j] = [name |-> a, config |-> c]
    PROVE  LET over == Override(pset, flags)
               first == FirstOf(pset)
               cfg == first.config
           IN /\ over.active = pset.active /\ DOMAIN over.profiles = 1 .. n
              /\ Len(over.profiles) = n
              /\ \A j \in 1 .. n : j # pset.active + 1 => over.profiles[j] = pset.profiles[j]
              /\ FirstOf(over) = [name |-> first.name,
                                  config |-> [server |-> IF flags.server = None THEN cfg.server
                                                                                ELSE flags.server,
                                              token  |-> cfg.token \/ flags.token]]
<1> DEFINE at == pset.active + 1
           cfg == pset.profiles[at].config
           config == [server |-> IF flags.server = None THEN cfg.server ELSE flags.server,
                      token  |-> cfg.token \/ flags.token]
           over == Override(pset, flags)
<1>1. over = [pset EXCEPT !.profiles[at].config = config]
  BY DEF Override
<1>2. at \in 1 .. n /\ DOMAIN pset.profiles = 1 .. n
  BY DEF ShapedBy
<1>3. PICK a, c : pset.profiles[at] = [name |-> a, config |-> c]
  BY <1>2
<1>4. FirstOf(pset) = pset.profiles[at]
  BY DEF FirstOf
<1> HIDE DEF config, over
<1>5. over.active = pset.active /\ over.profiles = [pset.profiles EXCEPT ![at].config = config]
  BY <1>1 DEF ShapedBy
<1>6. /\ DOMAIN over.profiles = 1 .. n
      /\ over.profiles[at] = [pset.profiles[at] EXCEPT !.config = config]
      /\ \A j \in 1 .. n : j # at => over.profiles[j] = pset.profiles[j]
  BY <1>2, <1>5
<1>7. over.profiles[at] = [name |-> a, config |-> config] /\ pset.profiles[at].name = a
  BY <1>3, <1>6
<1>8. over.profiles[at] = [name |-> FirstOf(pset).name, config |-> config]
  BY <1>4, <1>7
<1>9. Len(over.profiles) = n
  <2>1. over.profiles = [i \in 1 .. n |-> over.profiles[i]]
    BY <1>2, <1>5
  <2> QED
    BY <2>1
<1>10. FirstOf(over) = over.profiles[at]
  BY <1>5 DEF FirstOf
<1> QED
  BY <1>4, <1>5, <1>6, <1>8, <1>9, <1>10 DEF config, over

\* StartsAsAsked of one file, one command line and the profiles made of them.
AsAsked(file, flags, pset) ==
    LET entries == file.entries
        asked == IF Trim(flags.profile) # Empty THEN Trim(flags.profile) ELSE file.default
        first == pset.profiles[pset.active + 1]
    IN /\ Len(pset.profiles) = Len(entries)
       /\ asked # Empty => first.name = asked
       /\ asked = Empty => \A i \in DOMAIN entries : ~Before(entries[i].key, first.name)
       /\ \A i \in DOMAIN entries : \E j \in DOMAIN pset.profiles :
            LET profile == pset.profiles[j]
                overridden == profile = first /\ flags.server # None
            IN /\ profile.name = entries[i].key
               /\ profile.config.server \in
                    IF overridden THEN {flags.server}
                    ELSE {entries[i].server, entries[i].endpoint} \ {None}
               /\ profile.config.token = (profile = first /\ flags.token)

LEMMA ProfilesAsAsked ==
    ASSUME NEW file \in Files, NEW flags \in CommandLines,
           StartsWith(file, flags), file.kind = "mapping"
    PROVE  AsAsked(file, flags, ProfilesFrom(file, flags))
<1> DEFINE entries == file.entries
           loaded == BuildProfileSet(file)
           selected == Select(loaded, flags)
           pset == ProfilesFrom(file, flags)
           asked == IF Trim(flags.profile) # Empty THEN Trim(flags.profile) ELSE file.default
           at == selected.active + 1
           first == pset.profiles[pset.active + 1]
<1>1. FileValid(file)
  BY DEF StartsWith, CanDoWithoutFile
<1>2. Loaded(file, flags) = loaded
  BY <1>1 DEF Loaded
<1>3. entries \in Seq(Entry)
  BY InputsAssumption DEF File
<1>4. PICK n \in Nat : DOMAIN entries = 1 .. n /\ Len(entries) = n
  BY <1>3
<1>5. /\ Faithful(loaded, entries, n)
      /\ file.default # Empty => FirstOf(loaded).name = file.default
      /\ file.default = Empty => \A i \in 1 .. n : ~Before(entries[i].key, FirstOf(loaded).name)
  BY <1>1, <1>4, FileProfiles
<1>6. Trim(flags.profile) = Empty \/ Selected(loaded, flags) # {}
  BY <1>2 DEF StartsWith
<1>7. pset = Override(selected, flags)
  BY <1>2 DEF ProfilesFrom
<1> HIDE DEF entries, loaded, selected, pset
<1>8. /\ ShapedBy(selected, n, selected.profiles) /\ selected.profiles = loaded.profiles
      /\ Trim(flags.profile) = Empty => selected = loaded
      /\ Trim(flags.profile) # Empty => FirstOf(selected).name = Trim(flags.profile)
  <2>1. ShapedBy(loaded, n, loaded.profiles)
    BY <1>5 DEF Faithful
  <2> QED
    BY <1>6, <2>1, SelectedFirst DEF selected
<1>9. /\ asked # Empty => FirstOf(selected).name = asked
      /\ asked = Empty => \A i \in 1 .. n : ~Before(entries[i].key, FirstOf(selected).name)
  BY <1>5, <1>8
<1> DEFINE cfg == FirstOf(selected).config
           config == [server |-> IF flags.server = None THEN cfg.server ELSE flags.server,
                      token  |-> cfg.token \/ flags.token]
<1>10. /\ pset.active = selected.active /\ DOMAIN pset.profiles = 1 .. n
       /\ Len(pset.profiles) = n
       /\ \A j \in 1 .. n : j # at => pset.profiles[j] = selected.profiles[j]
       /\ FirstOf(pset) = [name |-> FirstOf(selected).name, config |-> config]
  <2>1. \A j \in 1 .. n : \E a, c : selected.profiles[j] = [name |-> a, config |-> c]
    <3> SUFFICES ASSUME NEW j \in 1 .. n
                 PROVE  \E a, c : selected.profiles[j] = [name |-> a, config |-> c]
      OBVIOUS
    <3>1. PICK i \in 1 .. n : loaded.profiles[j] = [name |-> entries[i].key,
                                                   config |-> NormalizeConfig(entries[i])]
      BY <1>5 DEF Faithful
    <3> QED
      BY <1>8, <3>1
  <2>2. LET over == Override(selected, flags)
            first_ == FirstOf(selected)
            cfg_ == first_.config
        IN /\ over.active = selected.active /\ DOMAIN over.profiles = 1 .. n
           /\ Len(over.profiles) = n
           /\ \A j \in 1 .. n : j # selected.active + 1 => over.profiles[j] = selected.profiles[j]
           /\ FirstOf(over) = [name |-> first_.name,
                               config |-> [server |-> IF flags.server = None THEN cfg_.server
                                                                             ELSE flags.server,
                                           token  |-> cfg_.token \/ flags.token]]
    BY <1>8, <2>1, OverriddenFirst
  <2> QED
    BY <1>7, <2>2
<1>11. at \in 1 .. n /\ first = pset.profiles[at] /\ FirstOf(selected) = selected.profiles[at]
  BY <1>8, <1>10 DEF ShapedBy, FirstOf
<1>12. first = [name |-> FirstOf(selected).name, config |-> config]
  BY <1>10 DEF FirstOf
<1> HIDE DEF first, at, asked, config
<1>13. first.name = FirstOf(selected).name /\ first.config = config
  BY <1>12
<1>14. ASSUME NEW i \in 1 .. n
       PROVE  \E j \in 1 .. n :
                LET profile == pset.profiles[j]
                    overridden == profile = first /\ flags.server # None
                IN /\ profile.name = entries[i].key
                   /\ profile.config.server \in
                        IF overridden THEN {flags.server}
                        ELSE {entries[i].server, entries[i].endpoint} \ {None}
                   /\ profile.config.token = (profile = first /\ flags.token)
  <2>1. PICK j \in 1 .. n :
          loaded.profiles[j] = [name |-> entries[i].key, config |-> NormalizeConfig(entries[i])]
    BY <1>5 DEF Faithful
  <2>2. /\ loaded.profiles[j].name = entries[i].key
        /\ loaded.profiles[j].config = NormalizeConfig(entries[i])
    BY <2>1
  <2>3. EntryValid(entries[i])
    BY <1>1, <1>4 DEF FileValid, entries
  <2>4. /\ NormalizeConfig(entries[i]).server \in {entries[i].server, entries[i].endpoint} \ {None}
        /\ NormalizeConfig(entries[i]).token = FALSE
    BY <2>3 DEF NormalizeConfig, EntryValid
  <2>5. CASE j = at
    <3>1. pset.profiles[j] = first /\ cfg = NormalizeConfig(entries[i])
            /\ first.name = entries[i].key
      BY <1>8, <1>11, <1>13, <2>2, <2>5
    <3>2. config.server = IF flags.server = None THEN NormalizeConfig(entries[i]).server
                                                 ELSE flags.server
      BY <3>1 DEF config
    <3>3. config.token = flags.token
      <4>1. flags.token \in BOOLEAN
        BY InputsAssumption DEF Flags
      <4>2. config.token = (NormalizeConfig(entries[i]).token \/ flags.token)
        BY <3>1 DEF config
      <4> QED
        BY <2>4, <4>1, <4>2
    <3>4. first.config.server \in IF first = first /\ flags.server # None
                                  THEN {flags.server}
                                  ELSE {entries[i].server, entries[i].endpoint} \ {None}
      BY <1>13, <2>4, <3>2
    <3>5. first.config.token = (first = first /\ flags.token)
      <4>1. flags.token \in BOOLEAN
        BY InputsAssumption DEF Flags
      <4> QED
        BY <1>13, <3>3, <4>1
    <3> QED
      BY <3>1, <3>4, <3>5
  <2>6. CASE j # at
    <3>1. pset.profiles[j] = loaded.profiles[j]
      BY <1>8, <1>10, <2>6
    <3>2. first.name = loaded.profiles[at].name
      BY <1>8, <1>11, <1>13
    <3>3. pset.profiles[j] # first
      BY <1>5, <1>11, <2>6, <3>1, <3>2 DEF Faithful
    <3>4. /\ pset.profiles[j].name = entries[i].key
          /\ pset.profiles[j].config.server \in {entries[i].server, entries[i].endpoint} \ {None}
          /\ pset.profiles[j].config.token = FALSE
      BY <2>2, <2>4, <3>1
    <3> QED
      BY <3>3, <3>4
  <2> QED
    BY <2>5, <2>6
<1> QED
  BY <1>4, <1>9, <1>10, <1>13, <1>14 DEF AsAsked, entries, pset, asked, first

\* main makes the profiles of the file and the command line it was given.
StartInv ==
    /\ phase \in {"start", "ready"} => input.file \in Files /\ input.flags \in CommandLines
    /\ phase = "ready" => /\ StartsWith(input.file, input.flags)
                          /\ set = ProfilesFrom(input.file, input.flags)

\* Nothing but Start makes profiles.
LEMMA StartInvStep == StartInv /\ [Next]_vars => StartInv'
<1> SUFFICES ASSUME StartInv, [Next]_vars PROVE StartInv'
  OBVIOUS
<1>1. CASE Start
  BY <1>1 DEF Start, StartInv
<1>2. CASE RunTui \/ RunText
  BY <1>2 DEF RunTui, RunText, StartInv
<1>3. CASE Quit \/ OpenSelector \/ CloseSelector \/ Choose \/ Refresh
             \/ \E delta \in {-1, 1} : Switch(delta) \/ MoveCursor(delta)
  BY <1>3 DEF Quit, OpenSelector, CloseSelector, Choose, Refresh, Switch, MoveCursor, Key, StartInv
<1>4. CASE (\E c \in Refreshes : \/ ReadOverview(c) \/ SnapshotMsg(c) \/ PrintText(c)
                                 \/ \E d \in Details : ReadDetail(c, d))
             \/ TickMsg \/ DataChange
  BY <1>4 DEF ReadOverview, SnapshotMsg, PrintText, ReadDetail, TickMsg, DataChange, StartInv
<1>5. CASE UNCHANGED vars
  BY <1>5 DEF vars, StartInv
<1> QED
  BY <1>1, <1>2, <1>3, <1>4, <1>5 DEF Next

\* The dashboard starts with the file's profiles, each with its own server, and
\* with the profile, the server and the token the command line asks for
\* (buildProfileSet, Select, applyFlagOverrides, SetActiveConfig): Dashboard's
\* StartsAsAsked, for any file of any number of profiles.
THEOREM ProfilesAreAsAsked == Spec => []StartsAsAsked
<1>1. Init => StartInv
  <2> SUFFICES ASSUME Init PROVE StartInv
    OBVIOUS
  <2>1. PICK file \in Files, flags \in CommandLines : input = [file |-> file, flags |-> flags]
    BY DEF Init
  <2>2. input.file \in Files /\ input.flags \in CommandLines
    BY <2>1
  <2> QED
    BY <2>2 DEF Init, StartInv
<1>2. StartInv /\ [Next]_vars => StartInv'
  BY StartInvStep
<1>3. StartInv => StartsAsAsked
  <2> SUFFICES ASSUME StartInv, phase = "ready", input.file.kind = "mapping" PROVE StartsAsAsked
    BY DEF StartsAsAsked
  <2>1. /\ input.file \in Files /\ input.flags \in CommandLines
        /\ StartsWith(input.file, input.flags) /\ set = ProfilesFrom(input.file, input.flags)
    BY DEF StartInv
  <2>2. AsAsked(input.file, input.flags, set)
    BY <2>1, ProfilesAsAsked
  <2> QED
    BY <2>2 DEF AsAsked, StartsAsAsked
<1> QED
  BY <1>1, <1>2, <1>3, PTL DEF Spec

=============================================================================
