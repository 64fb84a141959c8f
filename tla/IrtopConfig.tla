------------------------------ MODULE IrtopConfig ------------------------------
(***************************************************************************)
(* How irtop comes to its profiles: the configuration file, the command    *)
(* line and what main makes of the two before anything is displayed.       *)
(*                                                                         *)
(* A profile name is a number, in the order of sort.Strings; in the file   *)
(* it may have a space before it.  Of a profile's values the server is     *)
(* kept and whether the token of the command line is used with it; refresh,*)
(* default_view, output, unknown fields and shapes only decide whether the *)
(* profile is sound.                                                       *)
(***************************************************************************)
EXTENDS Integers, Sequences, FiniteSets

CONSTANTS
    Names,     \* profile names
    Servers,   \* server URLs
    Files,     \* the configuration files the program may find
    CommandLines,  \* the flags it may be given
    None       \* absent value, empty string

ASSUME ConfigAssumption == Names \subseteq Nat \ {0} /\ None \notin Int /\ None \notin Servers

\* A name as it is written: strings.TrimSpace takes the space away.  The name 0
\* is the empty one.
Raw == [name : Names \cup {0}, padded : BOOLEAN]
Trim(raw) == [raw EXCEPT !.padded = FALSE]
Empty == [name |-> 0, padded |-> FALSE]

\* sort.Strings: a space sorts before every letter.
Before(a, b) == \/ a.padded /\ ~b.padded
                \/ a.padded = b.padded /\ a.name < b.name

Entry == [key : Raw, server : Servers \cup {None}, endpoint : Servers \cup {None},
          sound : BOOLEAN]

\* "mapping" is a file that yaml reads as a mapping with known keys.
File == [kind : {"missing", "unreadable", "malformed", "mapping"},
         default : Raw, entries : Seq(Entry)]

\* The command line: --config, --profile, --server, --token.
Flags == [config : BOOLEAN, profile : Raw, server : Servers \cup {None}, token : BOOLEAN]

ASSUME InputsAssumption == Files \subseteq File /\ CommandLines \subseteq Flags

\* A ProfileSet; Active counts from zero.
NoProfiles == [profiles |-> <<>>, active |-> 0]

-----------------------------------------------------------------------------
(* The file                                                                *)

\* validateProfileYAML: no empty name, no two names that differ in spaces only.
NamesDistinct(entries) ==
    /\ \A i \in DOMAIN entries : Trim(entries[i].key) # Empty
    /\ \A i, j \in DOMAIN entries : Trim(entries[i].key) = Trim(entries[j].key) => i = j

\* requireProfileFields and validateConfig
EntryValid(e) ==
    /\ e.sound
    /\ e.server # None \/ e.endpoint # None
    /\ e.server # None /\ e.endpoint # None => e.server = e.endpoint

\* normalizeConfig
NormalizeConfig(e) ==
    [server |-> IF e.server = None THEN e.endpoint ELSE e.server, token |-> FALSE]

\* The decoded map of profiles has no order; buildProfileSet sorts the names,
\* which differ: an entry comes after those before it.
SortedEntries(entries) ==
    LET before(j) == {k \in DOMAIN entries : Before(entries[k].key, entries[j].key)}
    IN [i \in DOMAIN entries |->
            entries[CHOOSE j \in DOMAIN entries : Cardinality(before(j)) = i - 1]]

\* LoadProfiles, parseProfiles and buildProfileSet find no fault.
FileValid(file) ==
    LET entries == file.entries IN
    /\ file.kind = "mapping"
    /\ entries # <<>>
    /\ NamesDistinct(entries)
    /\ \A i \in DOMAIN entries : EntryValid(entries[i])
    /\ file.default = Empty \/ \E i \in DOMAIN entries : entries[i].key = file.default

\* buildProfileSet of a valid file
BuildProfileSet(file) ==
    LET sorted == SortedEntries(file.entries)
        named == {i \in DOMAIN sorted : sorted[i].key = file.default}
    IN [profiles |-> [i \in DOMAIN sorted |->
                        [name |-> sorted[i].key, config |-> NormalizeConfig(sorted[i])]],
        active |-> IF named = {} THEN 0 ELSE (CHOOSE i \in named : TRUE) - 1]

-----------------------------------------------------------------------------
(* The command line                                                        *)

\* loadProfilesForFlags: --server alone makes up for a missing default file.
CanDoWithoutFile(file, flags) ==
    ~flags.config /\ flags.profile = Empty /\ flags.server # None /\ file.kind = "missing"

\* The profile made of the command line alone; what it is called decides nothing.
Cli == [name |-> Empty, config |-> [server |-> None, token |-> FALSE]]

Loaded(file, flags) ==
    IF FileValid(file) THEN BuildProfileSet(file)
    ELSE [profiles |-> <<[Cli EXCEPT !.config.server = flags.server]>>, active |-> 0]

\* Select: --profile, without spaces, against the names as the file has them.
Selected(set, flags) == {i \in DOMAIN set.profiles : set.profiles[i].name = Trim(flags.profile)}

Select(set, flags) ==
    IF Trim(flags.profile) = Empty THEN set
    ELSE [set EXCEPT !.active = (CHOOSE i \in Selected(set, flags) : TRUE) - 1]

\* applyFlagOverrides and SetActiveConfig
Override(set, flags) ==
    LET at == set.active + 1
        cfg == set.profiles[at].config
    IN [set EXCEPT !.profiles[at].config =
            [server |-> IF flags.server = None THEN cfg.server ELSE flags.server,
             token  |-> cfg.token \/ flags.token]]

\* main gets as far as a ProfileSet.
StartsWith(file, flags) ==
    /\ FileValid(file) \/ CanDoWithoutFile(file, flags)
    /\ \/ Trim(flags.profile) = Empty
       \/ Selected(Loaded(file, flags), flags) # {}

\* Mutation: the overrides are applied to the file's own default.
ProfilesFromOverriddenDefault(file, flags) == Select(Override(Loaded(file, flags), flags), flags)

\* main: the profiles the dashboard is given.
ProfilesFrom(file, flags) == Override(Select(Loaded(file, flags), flags), flags)
================================================================================
