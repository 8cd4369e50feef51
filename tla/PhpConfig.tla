------------------------------ MODULE PhpConfig ------------------------------
(***************************************************************************)
(* parse_php_return_value: how a configuration file of Webasyst, PHP that  *)
(* returns an array, is read without running it.  The file arrives one     *)
(* token at a time; a token may be anything, so that every file of at most *)
(* MaxTokens tokens is read.  Where the code recurses, for an array in an  *)
(* array, the parser here keeps a stack of unfinished arrays.              *)
(***************************************************************************)
EXTENDS Naturals, FiniteSets, Sequences, SequencesExt

CONSTANTS
    Token,        \* what a file is made of: a subset of AllTokens
    Text,         \* the contents of quoted strings
    Number,       \* the numbers of literals, as their digits
    MaxTokens,    \* the tokens of a file, its end included
    MaxDepth,     \* nested arrays
    MaxEntries,   \* entries of all the arrays of a file
    Nil          \* no value

(* Values and tokens: a scalar is the token that spells it. *)
Mark(kind) == [kind |-> kind, value |-> Nil]
Texts == {[kind |-> "text", value |-> t] : t \in Text}
Numbers == {[kind |-> "int", value |-> n] : n \in Number}
Floats == {[kind |-> "float", value |-> n] : n \in Number}
Scalars == Texts \cup Numbers \cup Floats \cup {Mark(k) : k \in {"true", "false", "null"}}
Words == {Mark(k) : k \in {"return", "array", "name"}}
Signs == {Mark(k) : k \in {"<?php", "(", ")", "[", "]", "=>", ",", ";", "eof"}}

(* "bad" is whatever the tokenizer refuses: a variable, a concatenation, a *)
(* closing tag, an interpolated or unterminated string, anything else.     *)
AllTokens == Scalars \cup Words \cup Signs \cup {Mark("bad")}

ASSUME PhpConfigAssumption ==
    /\ Token \subseteq AllTokens
    /\ MaxTokens \in Nat /\ MaxDepth \in Nat \ {0} /\ MaxEntries \in Nat \ {0}

AutoKey == Mark("auto")
Array(entries) == [kind |-> "array", entries |-> entries]
Entry(key, value) == [key |-> key, value |-> value]

VARIABLE parser

(* An unfinished array: its entries so far, what an entry began with, and  *)
(* the key of the entry, if it turns out to have one of its own.           *)
Frame(closing) == [closing |-> closing, entries |-> <<>>, first |-> Nil, key |-> AutoKey]

NewParser == [mode |-> "start", stack |-> <<>>, count |-> 0, value |-> Nil, read |-> <<>>]
ParserInit == parser = NewParser

Reading == parser.mode \notin {"done", "refused"}
Expecting(p, mode) == [p EXCEPT !.mode = mode]
Refused(p) == [p EXCEPT !.mode = "refused", !.stack = <<>>]
Innermost(p) == Last(p.stack)
WithInnermost(p, frame) == [p EXCEPT !.stack = Append(Front(@), frame)]

-----------------------------------------------------------------------------
(* _parse_value returns: to the file, or to the entry of an array. *)
Completed(p, v) ==
    IF p.stack = <<>>
    THEN [p EXCEPT !.mode = "value", !.value = v]
    ELSE IF Innermost(p).key = AutoKey
    THEN [WithInnermost(p, [Innermost(p) EXCEPT !.first = v]) EXCEPT !.mode = "first"]
    ELSE [WithInnermost(p, [Innermost(p) EXCEPT !.first = v]) EXCEPT !.mode = "second"]

(* An array begins, unless it is too deep. *)
Begun(p, closing) ==
    IF Len(p.stack) = MaxDepth
    THEN Refused(p)
    ELSE [p EXCEPT !.mode = "begun", !.stack = Append(@, Frame(closing))]

(* The entry that ends here is counted and kept. *)
Kept(p) ==
    LET f == Innermost(p)
    IN  IF p.count = MaxEntries
        THEN Refused(p)
        ELSE [WithInnermost(p, [Frame(f.closing) EXCEPT !.entries = Append(f.entries, Entry(f.key, f.first))])
                 EXCEPT !.count = @ + 1, !.mode = "kept"]

(* Fault: an array that ends right after an entry forgets that entry. *)
EndedEarly(p) ==
    IF p.mode = "refused" THEN p
    ELSE Completed([p EXCEPT !.stack = Front(@)],
                   Array(IF p.count > 1 THEN Front(Innermost(p).entries) ELSE Innermost(p).entries))

(* The innermost array ends: it is itself a value. *)
Ended(p) ==
    IF p.mode = "refused" THEN p
    ELSE Completed([p EXCEPT !.stack = Front(@)], Array(Innermost(p).entries))

(* _array_key: only strings and integers are keys. *)
Keyed(p) ==
    IF Innermost(p).first.kind \in {"text", "int"}
    THEN [WithInnermost(p, [Innermost(p) EXCEPT !.key = Innermost(p).first]) EXCEPT !.mode = "keyed"]
    ELSE Refused(p)

(* A comma follows the entry, unless there are too many entries. *)
Separated(p) == IF p.mode = "refused" THEN p ELSE Expecting(p, "comma")

Closes(p, t) == p.stack # <<>> /\ t = Mark(Innermost(p).closing)

ExpectsValue(p) == p.mode \in {"returned", "begun", "keyed", "comma"}

(* _parse_value, and the end of an array where a value could follow. *)
AtValue(p, t) ==
    CASE t \in Scalars -> Completed(p, t)
      [] t = Mark("[") -> Begun(p, "]")
      [] t = Mark("array") -> Expecting(p, "array")
      [] p.mode \in {"begun", "comma"} /\ Closes(p, t) -> Ended(p)
      [] OTHER -> Refused(p)

(* An array, after the first or the second value of an entry. *)
InEntry(p, t) ==
    IF p.mode = "first" /\ t = Mark("=>") THEN Keyed(p)
    ELSE IF t = Mark(",") THEN Separated(Kept(p))
    ELSE IF Closes(p, t) THEN Ended(Kept(p))
    ELSE Refused(p)

(* What stands around the value of the file. *)
AroundValue(p, t) ==
    IF p.mode = "start" /\ t = Mark("<?php") THEN Expecting(p, "opened")
    ELSE IF p.mode \in {"start", "opened"} /\ t = Mark("return") THEN Expecting(p, "returned")
    ELSE IF p.mode = "value" /\ t = Mark(";") THEN Expecting(p, "semicolon")
    ELSE IF p.mode = "semicolon" /\ t = Mark("eof") THEN Expecting(p, "done")
    ELSE Refused(p)

(* The parser after one token. *)
After(p, t) ==
    IF ExpectsValue(p) THEN AtValue(p, t)
    ELSE IF p.mode \in {"first", "second"} THEN InEntry(p, t)
    ELSE IF p.mode = "array" /\ t = Mark("(") THEN Begun(p, ")")
    ELSE AroundValue(p, t)

(* The token budget is the tokenizer's, which runs first: a file with too  *)
(* many tokens is refused, wherever the parser would have stopped.         *)
ReadToken(t) ==
    /\ Reading
    /\ LET read == Append(parser.read, t)
       IN  parser' = [(IF Len(read) > MaxTokens THEN Refused(parser) ELSE After(parser, t))
                         EXCEPT !.read = read]
=============================================================================
