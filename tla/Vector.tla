-------------------------------- MODULE Vector --------------------------------
(***************************************************************************)
(* The template of Code/util/vector.h, as the strings of Code/util/        *)
(* string.cpp use it: a block of pages, how many elements it has, and how  *)
(* many it takes.  A push into a full vector asks for twice the pages,     *)
(* copies in the wrong direction, frees the old block, and neither stores  *)
(* the element nor raises maxData: so does every push behind it.           *)
(***************************************************************************)
EXTENDS Integers, SequencesExt

CONSTANTS
    maxData,        \* PAGE_SIZE / sizeof(T)
    Texts,          \* what strings are made from, without the 0 at the end
    Strings,        \* the strings of a program
    junk,           \* what a new block holds
    MaxPages        \* bound: the pages a vector asks for

ASSUME VectorAssumption ==
    /\ maxData \in Nat \ {0}
    /\ MaxPages \in Nat \ {0}
    /\ Texts \subseteq Seq(UNION {Range(text) : text \in Texts})
    /\ IsFiniteSet(Strings)

VARIABLES
    vecs,           \* per string: its block (0: none), pages and elements
    blocks,         \* the blocks taken from the page manager: number -> pages
    pushed,         \* everything push_back was called with
    copying         \* operator= of two strings: target, source, index

vectorVars == <<vecs, blocks, pushed, copying>>

NUL == "NUL"
Unused == [block |-> 0, pages |-> 0, data |-> <<>>]
Idle == [on |-> FALSE]

VectorInit ==
    /\ vecs = [s \in Strings |-> Unused]
    /\ blocks = [b \in {} |-> 0]
    /\ pushed = [s \in Strings |-> <<>>]
    /\ copying = Idle

NewBlock == CHOOSE b \in 1..(Cardinality(Strings) + 1) : b \notin DOMAIN blocks
With(b, pages, of) == [x \in DOMAIN of \cup {b} |-> IF x = b THEN pages ELSE of[x]]
Without(b, of) == [x \in DOMAIN of \ {b} |-> of[x]]

Grown(v) == v.pages > 1

\* Mutant of HasRoom: one element too many
HasRoomForOneMore(v) == Len(v.data) <= maxData

HasRoom(v) == Len(v.data) < maxData

\* Mutant of Grow: the old block is kept
GrowKeeping(s) ==
    LET v == vecs[s]
        b == CHOOSE b \in 1..(MaxPages * Cardinality(Strings) + 1) : b \notin DOMAIN blocks
    IN  /\ blocks' = With(b, 2 * v.pages, blocks)
        /\ vecs' = [vecs EXCEPT ![s] = [block |-> b, pages |-> 2 * v.pages,
                                        data |-> [k \in DOMAIN v.data |-> junk]]]

\* push_back into a full vector
Grow(s) ==
    LET v == vecs[s]
    IN  /\ blocks' = Without(v.block, With(NewBlock, 2 * v.pages, blocks))
        /\ vecs' = [vecs EXCEPT ![s] = [block |-> NewBlock, pages |-> 2 * v.pages,
                                        data |-> [k \in DOMAIN v.data |-> junk]]]

Put(s, c) ==
    /\ vecs' = [vecs EXCEPT ![s].data = Append(@, c)]
    /\ UNCHANGED blocks

PushBack(s, c) ==
    /\ IF HasRoom(vecs[s]) THEN Put(s, c) ELSE Grow(s)
    /\ pushed' = [pushed EXCEPT ![s] = Append(@, c)]

\* A string's constructor: its vector takes a page
Construct(s) ==
    /\ ~copying.on /\ vecs[s].block = 0 /\ pushed[s] = <<>>
    /\ vecs' = [vecs EXCEPT ![s] = [block |-> NewBlock, pages |-> 1, data |-> <<>>]]
    /\ blocks' = With(NewBlock, 1, blocks)
    /\ UNCHANGED <<pushed, copying>>

\* string(char* ) and operator=(char* ): behind what is there
StartText(s, text) ==
    /\ ~copying.on /\ vecs[s].block # 0
    /\ copying' = [on |-> TRUE, to |-> s, text |-> Append(text, NUL), i |-> 0]
    /\ UNCHANGED <<vecs, blocks, pushed>>

\* operator=(string& ): the size is looked at again at every element
StartCopy(s, from) ==
    /\ ~copying.on /\ vecs[s].block # 0 /\ vecs[from].block # 0
    /\ copying' = [on |-> TRUE, to |-> s, from |-> from, i |-> 0]
    /\ UNCHANGED <<vecs, blocks, pushed>>

Source == IF "text" \in DOMAIN copying THEN copying.text ELSE vecs[copying.from].data

CopyElement ==
    /\ copying.on /\ copying.i < Len(Source)
    /\ 2 * vecs[copying.to].pages <= MaxPages
    /\ PushBack(copying.to, Source[copying.i + 1])
    /\ copying' = [copying EXCEPT !.i = @ + 1]

CopyDone ==
    /\ copying.on /\ copying.i >= Len(Source)
    /\ copying' = Idle
    /\ UNCHANGED <<vecs, blocks, pushed>>

\* free(): callers do not use the string again
FreeString(s) ==
    /\ ~copying.on /\ vecs[s].block # 0
    /\ blocks' = Without(vecs[s].block, blocks)
    /\ vecs' = [vecs EXCEPT ![s] = Unused]
    /\ pushed' = [pushed EXCEPT ![s] = <<junk>>]
    /\ UNCHANGED copying

VectorStep ==
    \/ \E s \in Strings : Construct(s) \/ FreeString(s)
    \/ \E s \in Strings, text \in Texts : StartText(s, text)
    \/ \E s, from \in Strings : StartCopy(s, from)
    \/ CopyElement \/ CopyDone

-----------------------------------------------------------------------------

\* Until it is full a vector holds what was pushed, in order and no more than fits its
\* page, a string assigned to itself included
PushedIsKept ==
    \A s \in Strings :
        LET v == vecs[s]
        IN  /\ Len(v.data) <= maxData
            /\ v.block # 0 /\ ~Grown(v) => v.data = pushed[s]

\* Growing hands every old block back: the blocks that are taken are those the strings
\* have, with the pages they count, and no two strings have one
BlocksAreStrings ==
    /\ DOMAIN blocks = {vecs[s].block : s \in Strings} \ {0}
    /\ \A s \in Strings : vecs[s].block # 0 => blocks[vecs[s].block] = vecs[s].pages
    /\ \A s, t \in Strings : vecs[s].block = vecs[t].block /\ vecs[s].block # 0 => s = t
=============================================================================
