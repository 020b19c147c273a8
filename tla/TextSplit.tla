----------------------------- MODULE TextSplit -----------------------------
(***************************************************************************)
(* split_text of outbound_delivery.py: the chunks of a text that is longer *)
(* than a platform takes, broken at a blank if one is near the end. A text *)
(* is a sequence of characters, of which only "x" (any other character),   *)
(* " " and "n" (newline) differ for the algorithm.                         *)
(***************************************************************************)
EXTENDS Integers, Sequences, SequencesExt, FiniteSetsExt

CONSTANTS
    MaxLength,  \* bound on the length of a text
    Limits      \* limits of a chunk

SplitAssumption == MaxLength \in Nat /\ Limits \subseteq Nat \ {0}

Blank == {" ", "n"}
Characters == Blank \cup {"x"}

VARIABLES text, limit, remaining, chunks

vars == <<text, limit, remaining, chunks>>

Visible(t) == SelectSeq(t, LAMBDA c : c \notin Blank)

(* Positions of what strip leaves. *)
Shown(t) == {i \in DOMAIN t : t[i] \notin Blank}
Rstrip(t) == IF Shown(t) = {} THEN <<>> ELSE SubSeq(t, 1, Max(Shown(t)))
Lstrip(t) == IF Shown(t) = {} THEN <<>> ELSE SubSeq(t, Min(Shown(t)), Len(t))

Init ==
    /\ text \in SeqOf(Characters, MaxLength)
    /\ limit \in Limits
    /\ remaining = Lstrip(Rstrip(text))
    /\ chunks = <<>>

(* minimum_soft_break, counted as in the code from 0. *)
Soft == Max({1, limit \div 2})

(* rfind of a pattern in the window of limit + 1 characters. *)
Found(pattern) ==
    {k \in Soft..(limit + 1 - Len(pattern)) :
        \A i \in DOMAIN pattern : remaining[k + i] = pattern[i]}

Breaks == Found(<<"n", "n">>) \cup Found(<<"n">>) \cup Found(<<" ">>)

BreakAt == IF Breaks = {} THEN limit ELSE Max(Breaks)

(* Mutant of Cut: the character at the break is dropped. *)
CutOneMore ==
    /\ Len(remaining) > limit
    /\ chunks' = Append(chunks, Rstrip(SubSeq(remaining, 1, BreakAt)))
    /\ remaining' = Lstrip(SubSeq(remaining, BreakAt + 2, Len(remaining)))
    /\ UNCHANGED <<text, limit>>

(* One pass of the loop; a chunk of blanks only is cut at the limit instead. *)
Cut ==
    /\ Len(remaining) > limit
    /\ LET chunk == Rstrip(SubSeq(remaining, 1, BreakAt))
           at == IF chunk = <<>> THEN limit ELSE BreakAt
       IN  /\ chunks' = Append(chunks, IF chunk = <<>> THEN SubSeq(remaining, 1, limit) ELSE chunk)
           /\ remaining' = Lstrip(SubSeq(remaining, at + 1, Len(remaining)))
    /\ UNCHANGED <<text, limit>>

(* The rest is the last chunk. *)
Rest ==
    /\ Len(remaining) \in 1..limit
    /\ chunks' = Append(chunks, remaining)
    /\ remaining' = <<>>
    /\ UNCHANGED <<text, limit>>

Next == Cut \/ Rest

Spec == Init /\ [][Next]_vars

-----------------------------------------------------------------------------
(* Every chunk fits the platform, and none is blank, which platforms refuse. *)
ChunksFit == \A i \in DOMAIN chunks : Len(chunks[i]) <= limit /\ Visible(chunks[i]) # <<>>

(* Nothing a reader sees is lost, repeated or moved by the splitting. *)
NothingLost == Visible(FlattenSeq(chunks) \o remaining) = Visible(text)
=============================================================================
