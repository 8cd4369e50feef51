------------------------------ MODULE PhpWriting ------------------------------
(***************************************************************************)
(* What the parser of PhpConfig is held against: the ways to write a value *)
(* down, which know nothing of modes and stacks.  The reference is defined *)
(* by recursion over values.                                               *)
(***************************************************************************)
EXTENDS PhpConfig

(* The reference: the ways to write a value down. *)
RECURSIVE Spellings(_)
Spellings(v) ==
    IF v.kind # "array" THEN {<<v>>}
    ELSE LET Item(e) == {(IF e.key = AutoKey THEN <<>> ELSE <<e.key, Mark("=>")>>) \o s :
                            s \in Spellings(e.value)}
             Join(written, e) == {(IF w = <<>> THEN w ELSE Append(w, Mark(","))) \o i :
                                    w \in written, i \in Item(e)}
             items == FoldLeft(Join, {<<>>}, v.entries)
             bodies == items \cup {Append(i, Mark(",")) : i \in items \ {<<>>}}
         IN  {<<Mark("[")>> \o b \o <<Mark("]")>> : b \in bodies}
             \cup {<<Mark("array"), Mark("(")>> \o b \o <<Mark(")")>> : b \in bodies}

Files(v) ==
    {start \o <<Mark("return")>> \o s \o <<Mark(";"), Mark("eof")>> :
        start \in {<<>>, <<Mark("<?php")>>}, s \in Spellings(v)}

RECURSIVE Depth(_)
Depth(v) ==
    IF v.kind # "array" THEN 0
    ELSE 1 + Max({0} \cup {Depth(v.entries[i].value) : i \in DOMAIN v.entries})

RECURSIVE Size(_)
Size(v) ==
    IF v.kind # "array" THEN 0
    ELSE FoldLeft(LAMBDA n, e : n + 1 + Size(e.value), 0, v.entries)

Allowed(v) == Depth(v) <= MaxDepth /\ Size(v) <= MaxEntries

(* Some values that must be read however they are written: scalars, and    *)
(* arrays of at most two entries, with and without keys, one in another.   *)
Samples ==
    LET scalars == Token \cap Scalars
        keys == (Token \cap (Texts \cup Numbers)) \cup {AutoKey}
        singles == {Array(<<Entry(k, v)>>) : k \in keys, v \in scalars \cup {Array(<<>>)}}
    IN  scalars \cup {Array(<<>>)} \cup singles
        \cup {Array(<<a.entries[1], b.entries[1]>>) : a \in singles, b \in singles}

SamplePrefixes ==
    LET files == {f \in UNION {Files(v) : v \in {s \in Samples : Allowed(s)}} : Len(f) <= MaxTokens}
    IN  UNION {{SubSeq(f, 1, n) : n \in 1..Len(f)} : f \in files}

(* What a file is taken to say is what it says: a file that is accepted is *)
(* one way to write the value it is read as, within the limits; and no     *)
(* file is refused that writes a value within the limits.                  *)
ReadsWhatIsWritten ==
    /\ parser.mode = "done" => parser.read \in Files(parser.value) /\ Allowed(parser.value)
    /\ parser.mode = "refused" => parser.read \notin SamplePrefixes
=============================================================================
