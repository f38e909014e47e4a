------------------------------ MODULE UnitFile ------------------------------
(***************************************************************************)
(* How the launch flags get into an installed unit and out of it again     *)
(* (service/unit.go).  A restart keeps the flags the running launch was    *)
(* started with, and the unit is the only place they are written, so the   *)
(* readers must give back what the renderers wrote, and must refuse, not   *)
(* guess, when a unit was edited by hand.                                  *)
(*                                                                         *)
(* A reader is a state machine fed one symbol at a time: the characters of *)
(* an ExecStart value, the lines of a systemd unit, or the elements of a   *)
(* plist.  "round" feeds what the renderer wrote; the other sources feed   *)
(* anything.  A whole word that needs no escaping is one symbol.           *)
(***************************************************************************)
EXTENDS Naturals, Sequences, FiniteSets, SequencesExt

CONSTANTS
    MaxPath,    \* bound: symbols of the executable's path
    MaxLine,    \* bound: symbols of a hand-written ExecStart value
    MaxLines,   \* bound: lines of a hand-written unit
    MaxTokens,  \* bound: elements of a hand-written plist
    Unset       \* a flag that was not supplied

VARIABLES
    source,   \* "round", "line", "lines" or "plist"
    wanted,   \* the arguments "round" was rendered from, and its flags
    input,    \* what was fed so far
    reader    \* the reader's variables

unitVars == <<source, wanted, input, reader>>

-----------------------------------------------------------------------------
(* Rendering.  quote, backslash, percent and space are special to systemd. *)

Characters == {"a", "quote", "backslash", "percent", "space"}

LaunchFlags == [tailscale : {TRUE, FALSE, Unset}, webhooks : {TRUE, FALSE, Unset}]

AppendFlag(args, bare, explicit, value) ==
    IF value = Unset THEN args ELSE Append(args, <<IF value THEN bare ELSE explicit>>)

UnitArgs(executable, flags) ==
    AppendFlag(AppendFlag(<<executable, <<"server">>, <<"run">>>>,
                          "--tailscale", "--tailscale=false", flags.tailscale),
               "--webhooks", "--webhooks=false", flags.webhooks)

\* unitValueEscaper, and a form that leaves the specifiers alone.
EscaperQuotes(c) ==
    IF c \in {"quote", "backslash"} THEN <<"backslash", c>> ELSE <<c>>
UnitValueEscaper(c) ==
    CASE c \in {"quote", "backslash"} -> <<"backslash", c>>
      [] c = "percent" -> <<c, c>>
      [] OTHER -> <<c>>

Quoted(arg) ==
    <<"quote">> \o FlattenSeq([i \in DOMAIN arg |-> UnitValueEscaper(arg[i])]) \o <<"quote">>

\* The ExecStart value of systemdUnit: the quoted arguments, joined by spaces.
SystemdUnit(args) ==
    FlattenSeq([i \in DOMAIN args |-> (IF i = 1 THEN <<>> ELSE <<"space">>) \o Quoted(args[i])])

-----------------------------------------------------------------------------
(* Reading an ExecStart value: unquoteUnitArgs.                            *)

NewLine == [at |-> "between", args |-> <<>>, arg |-> <<>>]

Bad(r) == [r EXCEPT !.at = "bad"]
Take(r, c) == [r EXCEPT !.at = "inside", !.arg = Append(@, c)]

\* The character after a closing quote.
AfterLoose(r, c) == IF c = "space" THEN [r EXCEPT !.at = "after"] ELSE
                    IF c = "quote" THEN [r EXCEPT !.at = "inside"] ELSE Bad(r)
After(r, c) == IF c = "space" THEN [r EXCEPT !.at = "between"] ELSE Bad(r)

UnquoteUnitArgs(r, c) ==
    CASE r.at = "between" -> IF c = "quote" THEN [r EXCEPT !.at = "inside"] ELSE Bad(r)
      [] r.at = "inside" ->
           (CASE c = "quote" -> [at |-> "after", args |-> Append(r.args, r.arg), arg |-> <<>>]
              [] c \in {"backslash", "percent"} -> [r EXCEPT !.at = c]
              [] OTHER -> Take(r, c))
      [] r.at = "backslash" -> IF c \in {"backslash", "quote"} THEN Take(r, c) ELSE Bad(r)
      [] r.at = "percent" -> IF c = "percent" THEN Take(r, c) ELSE Bad(r)
      [] r.at = "after" -> After(r, c)

\* The end of the value: it may end after an argument only.
UnquoteEnds(r) == [r EXCEPT !.at = IF @ = "after" THEN "ok" ELSE "bad"]

\* flagsFromArgs: each flag at most once, and nothing else.
Spellings(bare, explicit) == {<<bare>>, <<explicit>>}
FlagIn(args, bare, explicit) ==
    LET said == {i \in 4..Len(args) : args[i] \in Spellings(bare, explicit)} IN
    IF said = {} THEN Unset ELSE args[CHOOSE i \in said : TRUE] = <<bare>>
Recognized(args) ==
    /\ Len(args) >= 3 /\ args[2] = <<"server">> /\ args[3] = <<"run">>
    /\ \A i \in 4..Len(args) :
         \E names \in {Spellings("--tailscale", "--tailscale=false"),
                       Spellings("--webhooks", "--webhooks=false")} :
            args[i] \in names /\ \A j \in 4..Len(args) : args[j] \in names => j = i
FlagsFromArgs(args) ==
    [tailscale |-> FlagIn(args, "--tailscale", "--tailscale=false"),
     webhooks |-> FlagIn(args, "--webhooks", "--webhooks=false")]

-----------------------------------------------------------------------------
(* Finding the value: systemdExecStart, plistProgramArguments.             *)

Lines == {"[Service]", "[Install]", "ExecStart=", "other"}
NewLines == [at |-> "reading", section |-> "", found |-> FALSE]

SystemdExecStart(r, l) ==
    CASE l \in {"[Service]", "[Install]"} -> [r EXCEPT !.section = l]
      [] l = "ExecStart=" -> IF r.section # "[Service]" \/ r.found THEN Bad(r)
                             ELSE [r EXCEPT !.found = TRUE]
      [] OTHER -> r

Tokens == {"<dict>", "</dict>", "<array>", "</array>", "ProgramArguments", "Label",
           "<string>", "<true/>"}
NewPlist == [at |-> "reading", open |-> <<>>, key |-> "", arguments |-> FALSE,
             found |-> FALSE, args |-> 0]

\* The key a value at the top level follows: a key is used up by the element
\* after it.
ForgetsNothing(r) == r
Forgets(r) == [r EXCEPT !.key = ""]

PlistProgramArguments(r, t) ==
    LET s == IF Len(r.open) = 1 THEN Forgets(r) ELSE r IN
    CASE t \in {"</dict>", "</array>"} ->
           [r EXCEPT !.open = Tail(@), !.arguments = FALSE]
      [] r.arguments /\ t # "<string>" -> Bad(r)
      [] t \in {"ProgramArguments", "Label"} ->
           IF Len(r.open) = 1 THEN [r EXCEPT !.key = t] ELSE r
      [] t = "<string>" -> IF r.arguments THEN [r EXCEPT !.args = @ + 1] ELSE s
      [] t \in {"<array>", "<dict>"} ->
           LET its == t = "<array>" /\ Len(r.open) = 1 /\ r.key = "ProgramArguments" IN
           IF its /\ r.found THEN Bad(r)
           ELSE [s EXCEPT !.open = <<t>> \o @, !.arguments = its \/ @, !.found = @ \/ its]
      [] OTHER -> s

\* The decoder refuses an end that does not match; a plist holds one
\* dictionary, which launchd takes for the job.
WellFormed(r, t) ==
    /\ IF input = <<>> THEN t = "<dict>" ELSE r.open # <<>>
    /\ t = "</dict>" => r.open # <<>> /\ Head(r.open) = "<dict>"
    /\ t = "</array>" => r.open # <<>> /\ Head(r.open) = "<array>"

-----------------------------------------------------------------------------

Paths == UNION {[1..n -> Characters] : n \in 1..MaxPath}

Init ==
    /\ input = <<>>
    /\ \/ /\ source = "round" /\ reader = NewLine
          /\ \E path \in Paths, flags \in LaunchFlags :
               wanted = [args |-> UnitArgs(path, flags), flags |-> flags]
       \/ /\ wanted = Unset
          /\ \/ source = "line" /\ reader = NewLine
             \/ source = "lines" /\ reader = NewLines
             \/ source = "plist" /\ reader = NewPlist

Ended == reader.at \in {"ok", "bad"}

Feed(c, next) ==
    /\ ~Ended
    /\ input' = Append(input, c) /\ reader' = next
    /\ UNCHANGED <<source, wanted>>

Written == IF source = "round" THEN SystemdUnit(wanted.args) ELSE <<>>

ReadWritten ==
    /\ source = "round" /\ Len(input) < Len(Written)
    /\ LET c == Written[Len(input) + 1] IN Feed(c, UnquoteUnitArgs(reader, c))

ReadCharacter ==
    /\ source = "line" /\ Len(input) < MaxLine
    /\ \E c \in Characters : Feed(c, UnquoteUnitArgs(reader, c))

ReadLine ==
    /\ source = "lines" /\ Len(input) < MaxLines
    /\ \E l \in Lines : Feed(l, SystemdExecStart(reader, l))

ReadToken ==
    /\ source = "plist" /\ Len(input) < MaxTokens
    /\ \E t \in Tokens : WellFormed(reader, t) /\ Feed(t, PlistProgramArguments(reader, t))

End ==
    /\ ~Ended
    /\ source = "round" => Len(input) = Len(Written)
    /\ source = "plist" => reader.open = <<>>
    /\ reader' = IF source \in {"round", "line"} THEN UnquoteEnds(reader)
                 ELSE [reader EXCEPT !.at = IF reader.found THEN "ok" ELSE "bad"]
    /\ UNCHANGED <<source, wanted, input>>

Next == ReadWritten \/ ReadCharacter \/ ReadLine \/ ReadToken \/ End

Spec == Init /\ [][Next]_unitVars

-----------------------------------------------------------------------------

TypeOK ==
    /\ source \in {"round", "line", "lines", "plist"}
    /\ reader.at \in {"between", "inside", "backslash", "percent", "after",
                      "reading", "ok", "bad"}

\* What was rendered is read back: the same arguments, whatever characters the
\* binary's path holds, and the same flags, an explicit false and a flag that
\* was not supplied told apart (unitArgs, systemdUnit, unitLaunchFlags).
FlagsComeBack ==
    source = "round" /\ Ended =>
        /\ reader.at = "ok" /\ reader.args = wanted.args
        /\ Recognized(reader.args) /\ FlagsFromArgs(reader.args) = wanted.flags

\* A hand-written value is accepted only when rendering its arguments gives
\* exactly that value (unquoteUnitArgs "inverts systemdUnit's quoting
\* exactly").
AcceptsOnlyRendered ==
    source = "line" /\ reader.at = "ok" => SystemdUnit(reader.args) = input

Depth(n) ==
    Cardinality({i \in 1..n : input[i] \in {"<dict>", "<array>"}})
        - Cardinality({i \in 1..n : input[i] \in {"</dict>", "</array>"}})
ArgumentsAt ==
    {i \in 1..(Len(input) - 1) :
        input[i] = "ProgramArguments" /\ Depth(i) = 1 /\ input[i + 1] = "<array>"}

\* The command comes from the place the supervisor executes it from: the one
\* ExecStart of [Service], the one array that follows ProgramArguments in the
\* job dictionary.
FromTheRightPlace ==
    reader.at = "ok" =>
        /\ source = "plist" => Cardinality(ArgumentsAt) = 1
        /\ source = "lines" =>
             \E i \in DOMAIN input :
                /\ {n \in DOMAIN input : input[n] = "ExecStart="} = {i}
                /\ \E j \in 1..i : /\ input[j] = "[Service]"
                                   /\ \A k \in j..i : input[k] # "[Install]"
=============================================================================
