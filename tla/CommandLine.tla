----------------------------- MODULE CommandLine ----------------------------
(***************************************************************************)
(* How a deployment's settings reach the programs (cli.py, config.py and   *)
(* the parsers of schedule.py and disk.py): the archiver gets .env's       *)
(* ARCHIVER_ARGS as its command line, the snapshot check has a command     *)
(* line of its own and parses ARCHIVER_ARGS to learn what the archiver     *)
(* does.  Both see the same environment.                                   *)
(*                                                                         *)
(* Simplifications.  A text stands for all texts of its kind.  Options     *)
(* that are passed on as they are (directories, profile, endpoint, ...)    *)
(* are left out.  By what the check judges once it goes on is in           *)
(* SnapshotCheck.                                                          *)
(***************************************************************************)
EXTENDS Integers

CONSTANTS
    Unset,        \* no value: of an option, or nothing started or checked yet
    Refused,     \* what no parser accepts
    MaxEdits     \* bound: changes of the settings

ASSUME CommandLineAssumption == MaxEdits \in Nat /\ Unset # "traceback"

VARIABLES
    settings,    \* .env as it is now
    archiver,    \* the mode the archiver runs in, or how it ended, and its arguments
    check,       \* how a check of these settings ends
    edits

commandVars == <<settings, archiver, check, edits>>

\* "long" is more than one wait can last, "endless" more than a float can hold.
Number == [negative |-> -1, zero |-> 0, fraction |-> 0, positive |-> 1,
           long |-> 2, endless |-> 3]

\* threading.TIMEOUT_MAX.
LongestWait == Number.positive

Texts == {"malformed", "empty"} \union DOMAIN Number

\* Mutant of Accepts: zero is taken for a positive number.
AcceptsZero ==
    [nonnegative |-> {"zero", "positive", "long", "endless"},
     positive    |-> {"zero", "positive", "long", "endless"},
     size        |-> {"zero", "fraction", "positive", "long"},
     duration    |-> {"zero", "positive", "long", "endless"}]

\* _nonnegative_int, _positive_int, parse_size and parse_duration.  The patterns
\* of the last two know no sign.  A size goes through a float: below one it is
\* rounded down, beyond the largest float parse_size raises OverflowError.
Accepts ==
    [nonnegative |-> {"zero", "positive", "long", "endless"},
     positive    |-> {"positive", "long", "endless"},
     size        |-> {"zero", "fraction", "positive", "long"},
     duration    |-> {"zero", "positive", "long", "endless"}]

\* The options with a type, and their defaults.
Type == [keep_latest_files      |-> "nonnegative",
         prune_retain_from_file |-> "nonnegative",
         rpc_port               |-> "positive",
         rpc_timeout            |-> "positive",
         upload_timeout         |-> "positive",
         verify_timeout         |-> "positive",
         min_free_space         |-> "size",
         interval               |-> "duration"]

Options == DOMAIN Type

Default == [o \in Options |->
    CASE o \in {"rpc_port", "prune_retain_from_file"} -> "none"
      [] o = "interval" -> "zero"
      [] OTHER -> "positive"]

\* BITCOIN_RPC_PORT and ARCHIVE_INTERVAL.
FromEnvironment == {"rpc_port", "interval"}

Switches == {"prune_after_archive", "prune_only", "prune_ceiling_file"}

\* A command line has a text per option, "none" for none, and switches.
NoFlags == [text |-> [o \in Options |-> "none"], on |-> {}]

\* _env: empty counts as unset.
Env(s, o) == IF s.env[o] = "empty" THEN "none" ELSE s.env[o]

\* The text that argparse converts: the last default only if no other is given.
TextOf(s, flags, o) ==
    IF flags.text[o] # "none" THEN flags.text[o]
    ELSE IF o \in FromEnvironment /\ Env(s, o) # "none" THEN Env(s, o)
    ELSE Default[o]

Convert(o, text) ==
    IF text = "none" THEN Unset
    ELSE IF text \in Accepts[Type[o]] THEN Number[text] ELSE Refused

Parse(s, flags) ==
    [value |-> [o \in Options |-> Convert(o, TextOf(s, flags, o))], on |-> flags.on]

UsageError(args) == Refused \in {args.value[o] : o \in Options}

\* Config.__post_init__ raises ValueError.
Invalid(args) ==
    \/ \E o \in {"prune_retain_from_file", "keep_latest_files", "min_free_space"} :
           args.value[o] # Unset /\ args.value[o] < 0
    \/ \E o \in {"rpc_timeout", "upload_timeout", "verify_timeout"} :
           args.value[o] <= 0

\* The combinations that --prune-only excludes or requires.
PruneOnlyRefused(args) ==
    \/ "prune_after_archive" \in args.on
    \/ args.value["interval"] # 0
    \/ "prune_ceiling_file" \notin args.on
    \/ args.value["prune_retain_from_file"] = Unset

\* main, up to the point where it does something.
Mode(args) ==
    IF UsageError(args) THEN "usage"
    ELSE IF Invalid(args) THEN "traceback"
    ELSE IF "prune_only" \in args.on /\ PruneOnlyRefused(args) THEN "usage"
    ELSE IF "prune_only" \in args.on THEN "prune only"
    ELSE IF args.value["interval"] = 0 THEN "once" ELSE "repeat"

-----------------------------------------------------------------------------
(* The programs.                                                           *)

Archiver(s) == [mode |-> Mode(Parse(s, s.flags)), args |-> Parse(s, s.flags)]

StartArchiver ==
    /\ archiver' = Archiver(settings)
    /\ UNCHANGED <<settings, check, edits>>

\* run_repeatedly after a pass: Event.wait raises OverflowError for an interval
\* that it cannot wait for.
WaitFails ==
    /\ archiver # Unset
    /\ archiver.mode = "repeat" /\ archiver.args.value["interval"] > LongestWait
    /\ archiver' = [archiver EXCEPT !.mode = "traceback"]
    /\ UNCHANGED <<settings, check, edits>>

\* Settings.from_env and CORE_BACKUP_PRUNE: ArchiveError and ValueError are refusals.
LimitsRefused(s) == s.limit \notin Accepts.size \/ Number[s.limit] <= 0 \/ ~s.manual

\* main with --core-backup check: exit status 2 on a usage error of either command
\* line, 3 on a refusal; main does not catch the OverflowError of a size limit.
Check(s) ==
    LET own == Parse(s, NoFlags)
        theirs == Parse(s, s.flags)
    IN  IF UsageError(own) THEN "usage"
        ELSE IF Invalid(own) \/ s.limit = "endless" THEN "traceback"
        ELSE IF LimitsRefused(s) THEN "refused"
        ELSE IF UsageError(theirs) THEN "usage"
        ELSE IF "prune_after_archive" \notin theirs.on THEN "refused"
        ELSE "goes on"

RunCheck ==
    /\ check' = Check(settings)
    /\ UNCHANGED <<settings, archiver, edits>>

\* .env is edited.  A running archiver keeps what it was started with.
Edit ==
    /\ edits < MaxEdits /\ edits' = edits + 1
    /\ \/ \E o \in Options, t \in Texts : settings' = [settings EXCEPT !.flags.text[o] = t]
       \/ \E o \in FromEnvironment, t \in Texts : settings' = [settings EXCEPT !.env[o] = t]
       \/ \E t \in Texts : settings' = [settings EXCEPT !.limit = t]
    /\ check' = Unset
    /\ UNCHANGED archiver

CommandInit ==
    /\ \E on \in SUBSET Switches, manual \in BOOLEAN :
          settings = [flags |-> [NoFlags EXCEPT !.on = on],
                      env |-> [o \in FromEnvironment |-> "none"],
                      limit |-> "positive", manual |-> manual]
    /\ archiver = Unset /\ check = Unset /\ edits = 0

CommandNext == StartArchiver \/ WaitFails \/ RunCheck \/ Edit

CommandSpec == CommandInit /\ [][CommandNext]_commandVars

-----------------------------------------------------------------------------
(* Properties.                                                             *)

\* The two places that validate agree: Config never raises on what the parsers
\* accept (config.py:59-72), so that a program reports its usage or runs.  What
\* is left is a number beyond what the programs can work with: an interval that
\* cannot be waited for, which ends the archiver after its first pass although it
\* was to repeat "until SIGTERM or SIGINT" (cli.py:244-245), and a size limit of
\* the snapshots that no float can hold.
OnlyEndlessRaises ==
    /\ archiver # Unset /\ archiver.mode = "traceback"
       => archiver.args.value["interval"] > LongestWait
    /\ check = "traceback" => settings.limit = "endless"
=============================================================================
