----------------------------- MODULE AppSettings -----------------------------
(***************************************************************************)
(* The settings file (Engine/AppSettings.cpp): its lines and what they     *)
(* mean.  A line is a sequence of tokens: " ", "tab", "cr", "[", "]", "=", *)
(* ";" and words; a word stands for its characters.                        *)
(***************************************************************************)
EXTENDS Naturals, SequencesExt

CONSTANT
    Numbers    \* the words std::stoi can read

\* Settings start as the header gives them; raised is an exception of stoi,
\* which nothing catches.
Unset == [BaseUrl |-> <<>>, ContentFolder |-> <<>>, Fun |-> <<>>, raised |-> FALSE]
Begin == [set |-> Unset, section |-> <<>>]

\* s without the members of chars at its front, at its end.
RECURSIVE TrimFront(_, _)
TrimFront(s, chars) == IF s # <<>> /\ Head(s) \in chars THEN TrimFront(Tail(s), chars) ELSE s
TrimBack(s, chars) == Reverse(TrimFront(Reverse(s), chars))

\* The first place of s where the tokens of part begin; 0 if there is none.
Find(s, part) == SelectInSeq([i \in DOMAIN s |-> SubSeq(s, i, Len(s))],
                             LAMBDA rest : IsPrefix(part, rest))

\* Before (after) place i; all of s (nothing) if i is 0.
Before(s, i) == IF i = 0 THEN s ELSE SubSeq(s, 1, i - 1)
After(s, i)  == SubSeq(s, i + 1, Len(s))

\* Mutant of Value: the comment is cut off after the spaces.
ValueCutLast(line) ==
    LET value == TrimBack(TrimFront(After(line, Find(line, <<"=">>)), {" "}), {" "})
    IN  Before(value, Find(value, <<";", ";">>))

Value(line) ==
    LET value == TrimFront(After(line, Find(line, <<"=">>)), {" "})
    IN  TrimBack(Before(value, Find(value, <<";", ";">>)), {" "})

Key(line) == TrimBack(Before(line, Find(line, <<"=">>)), {" "})

Assign(set, section, key, value) ==
    CASE section = <<"Generic">> /\ key = <<"BaseUrl">>       -> [set EXCEPT !.BaseUrl = value]
      [] section = <<"Generic">> /\ key = <<"ContentFolder">> -> [set EXCEPT !.ContentFolder = value]
      [] section = <<"FUN">> /\ key = <<"fun">> ->
            IF value # <<>> /\ Head(value) \in Numbers THEN [set EXCEPT !.Fun = <<Head(value)>>]
            ELSE [set EXCEPT !.raised = TRUE]
      [] OTHER -> set

ReadLine(state, untrimmed) ==
    LET line == TrimBack(TrimFront(untrimmed, {" ", "tab"}), {" ", "cr"})
    IN  CASE state.set.raised \/ line = <<>> -> state
          [] line # <<>> /\ Head(line) = ";" -> state
          [] line # <<>> /\ Head(line) = "[" ->
                [state EXCEPT !.section = Tail(Before(line, Find(line, <<"]">>)))]
          [] line # <<>> /\ Head(line) \notin {";", "["} ->
                IF Find(line, <<"=">>) = 0 THEN state
                ELSE [state EXCEPT !.set = Assign(@, state.section, Key(line), Value(line))]

Load(lines) == FoldLeft(ReadLine, Begin, lines).set

-----------------------------------------------------------------------------
(* What a file should give. *)

\* A line as somebody writes it: indented, padded, with a comment and with the
\* line end of Windows or not.
Written(item, style) ==
    style.indent \o
    (IF item.section # <<>> THEN <<"[">> \o item.section \o <<"]">>
     ELSE item.key \o style.pad \o <<"=">> \o style.pad \o item.value \o style.comment)
    \o style.end

\* Items of the section that set key.
Settings(items, section, key) ==
    {i \in DOMAIN items :
        /\ items[i].key = key
        /\ \E h \in 1..i : /\ items[h].section = section
                           /\ \A j \in h + 1..i : items[j].section = <<>>}

\* The last of them counts.
Latest(items, section, key) ==
    LET hits == Settings(items, section, key)
    IN  IF hits = {} THEN <<>> ELSE items[CHOOSE i \in hits : \A j \in hits : j <= i].value

\* However its lines are written, a file gives what its items say; it raises
\* if and only if fun is set to what is not a number.
Means(items, style) ==
    LET got == Load([i \in DOMAIN items |-> Written(items[i], style)])
        bad == {i \in Settings(items, <<"FUN">>, <<"fun">>) :
                    items[i].value = <<>> \/ Head(items[i].value) \notin Numbers}
    IN  /\ got.raised <=> bad # {}
        /\ ~got.raised =>
            /\ got.BaseUrl = Latest(items, <<"Generic">>, <<"BaseUrl">>)
            /\ got.ContentFolder = Latest(items, <<"Generic">>, <<"ContentFolder">>)
            /\ got.Fun = Latest(items, <<"FUN">>, <<"fun">>)
=============================================================================
