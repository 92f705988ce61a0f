------------------------------- MODULE PlainFs -------------------------------
(***************************************************************************)
(* What LevelDB asks of its environment: a directory of files on which     *)
(* threads run operations, each of which takes effect when it returns.  An *)
(* operation that fails may spoil the one file it was to write; nothing    *)
(* else ever changes a file.                                               *)
(***************************************************************************)
EXTENDS Naturals, Sequences, Functions

CONSTANTS Threads,
          Names,     \* file names in the directory
          Pieces,    \* what may be appended
          Broken,    \* the content of a file that exists but cannot be read
          None       \* no operation

VARIABLES content,   \* the files: a partial function from Names
          pending,   \* the operation each thread is in
          failures   \* how many operations have failed

vars == <<content, pending, failures>>

Write(n, truncate) == [kind |-> "write", to |-> n, truncate |-> truncate]
Rename(m, n) == [kind |-> "rename", from |-> m, to |-> n]
Requests == {Write(n, truncate) : n \in Names, truncate \in BOOLEAN}
                \cup {Rename(m, n) : m \in Names, n \in Names}

With(n, c) == [m \in DOMAIN content \cup {n} |-> IF m = n THEN c ELSE content[m]]

Begin(t, r) ==
    /\ pending[t] = None
    /\ pending' = [pending EXCEPT ![t] = r]
    /\ UNCHANGED <<content, failures>>

\* A file opened for writing is emptied, or kept if it is there.
Effect(r) ==
    IF r.kind = "rename"
    THEN [m \in (DOMAIN content \ {r.from}) \cup {r.to} |->
              content[IF m = r.to THEN r.from ELSE m]]
    ELSE IF r.truncate \/ r.to \notin DOMAIN content \/ content[r.to] = Broken
         THEN With(r.to, <<>>) ELSE content

Return(t) ==
    /\ pending[t] # None
    /\ content' = Effect(pending[t])
    /\ pending' = [pending EXCEPT ![t] = None]
    /\ UNCHANGED failures

\* Opening for append never loses what was there.
Spoiled(r) ==
    {content} \cup
    IF r.kind = "write" /\ ~r.truncate /\ r.to \in DOMAIN content THEN {}
    ELSE {With(r.to, c) : c \in {<<>>, Broken}}

Fail(t) ==
    /\ pending[t] # None
    /\ content' \in Spoiled(pending[t])
    /\ pending' = [pending EXCEPT ![t] = None]
    /\ failures' = failures + 1

\* An operation fails at once and does nothing.
Refuse == failures' = failures + 1 /\ UNCHANGED <<content, pending>>

Remove(n) ==
    /\ n \in DOMAIN content
    /\ content' = Restrict(content, DOMAIN content \ {n})
    /\ UNCHANGED <<pending, failures>>

\* A piece is written to an open file.
Extend(n, v) ==
    /\ n \in DOMAIN content /\ content[n] # Broken
    /\ content' = With(n, Append(content[n], v))
    /\ UNCHANGED <<pending, failures>>

Init(c) == content = c /\ pending = [t \in Threads |-> None] /\ failures = 0

Next ==
    \/ Refuse
    \/ \E t \in Threads : Return(t) \/ Fail(t) \/ \E r \in Requests : Begin(t, r)
    \/ \E n \in Names : Remove(n) \/ \E v \in Pieces : Extend(n, v)
=============================================================================
