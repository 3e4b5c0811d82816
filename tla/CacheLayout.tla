---------------------------- MODULE CacheLayout ----------------------------
(***************************************************************************)
(* How cache_create and cache_construct divide a block of memory between   *)
(* the header, the hash bins, the pool of entries and the store.           *)
(*                                                                         *)
(* A size_t is modelled modulo SizeModulus, which stands for 2^32 or 2^64  *)
(* and is much larger than any length: a difference that should be         *)
(* negative comes out just below it.                                       *)
(***************************************************************************)
EXTENDS Integers

CONSTANTS
  BlockLengths,  \* the lengths clients pass
  ChainLengths,  \* the values of config->hash_chain_length
  Percentages,   \* the values of config->nentries_percentage
  SizeModulus,   \* SIZE_MAX + 1
  SizeHeader,    \* sizeof(cache_t)
  SizePointer,   \* sizeof(struct cacheentry *)
  SizeEntry,     \* sizeof(entry_t)
  Quantum        \* sizeof(free_t)

IntMax == 2147483647      \* INT_MAX, for nentries

MinLength == 512     \* the least length either function accepts

\* What the constants are: sizes that are not 0, an entry_t that holds a
\* pointer, a header that is much less than the least block, and lengths far
\* from the modulus.
SizesFit ==
  /\ SizeHeader \in Nat \ {0}
  /\ SizePointer \in Nat \ {0}
  /\ SizeEntry \in Nat \ {0}
  /\ Quantum \in Nat \ {0}
  /\ SizePointer <= SizeEntry
  /\ SizeHeader + SizePointer + Quantum <= MinLength
  /\ SizeModulus \in Nat
  /\ SizeModulus % Quantum = 0
  /\ \A n \in BlockLengths : n \in Nat /\ 4 * n < SizeModulus /\ n \div SizeEntry <= IntMax
  /\ ChainLengths \subseteq Int
  /\ Percentages \subseteq Int

VARIABLES
  call,     \* the call being answered, or NoCall
  reply     \* the result code and, when it is OK, the layout

vars == <<call, reply>>

Functions == {"cache_create", "cache_construct"}

Calls == [function : Functions, length : BlockLengths,
          chain : ChainLengths, percentage : Percentages]

NoCall == [function |-> "none"]
NoReply == [result |-> "none"]
BadArg == [result |-> "BAD_ARG"]

-----------------------------------------------------------------------------
(* The arithmetic. *)

Size(n) == n % SizeModulus

RoundUp(n) == ((n + Quantum - 1) \div Quantum) * Quantum
RoundDown(n) == (n \div Quantum) * Quantum

\* Mutant: the least power of two greater than n.
power2le_Greater(n) ==
  IF n = 0 THEN 1
           ELSE CHOOSE p \in {2 ^ i : i \in 0 .. 30} : n < p /\ p - n <= n

\* The greatest power of two that is at most n, and 1 for n = 0.
power2le(n) ==
  IF n = 0 THEN 1
           ELSE CHOOSE p \in {2 ^ i : i \in 0 .. 30} : p <= n /\ n - p < p

nentries(c) == ((c.length \div SizeEntry) * c.percentage) \div 100
nbins(c) == power2le(nentries(c) \div c.chain)
ofentries(c) == SizeHeader + SizePointer * (nbins(c) + 1)
szentries(c) == SizeEntry * nentries(c)
\* Mutants: the store is not aligned; its length does not allow for the
\* alignment.
ofstore_Unaligned(c) == ofentries(c) + szentries(c)

ofstore(c) == RoundUp(ofentries(c) + szentries(c))
szstore_NoPadding(c) == RoundDown(Size(c.length - ofentries(c) - szentries(c)))

szstore(c) == RoundDown(Size(c.length - ofstore(c)))

\* The two functions differ here: cache_construct leaves the padding before
\* the store out of its sum.
szcache(c) ==
  IF c.function = "cache_create"
  THEN Size(ofstore(c) + szstore(c))
  ELSE Size(ofentries(c) + szentries(c) + szstore(c))

ValidArguments(c) ==
  /\ c.length >= MinLength
  /\ c.chain >= 1
  /\ c.percentage >= 5 /\ c.percentage <= 95

ReplyTo(c) ==
  IF ~ ValidArguments(c) THEN BadArg
  ELSE IF nentries(c) < 1 THEN BadArg
  ELSE IF szcache(c) > c.length THEN BadArg   \* "calculations didn't work"
  ELSE [result   |-> "OK",
        nbins    |-> nbins(c),
        nentries |-> nentries(c),
        ofbins   |-> SizeHeader,
        ofentries |-> ofentries(c),
        ofstore  |-> ofstore(c),
        storelength |-> szstore(c),
        allocated |-> IF c.function = "cache_create" THEN szcache(c) ELSE c.length]

-----------------------------------------------------------------------------

Init == call = NoCall /\ reply = NoReply

Answer(c) ==
  /\ call = NoCall
  /\ call' = c
  /\ reply' = ReplyTo(c)

Destroy ==
  /\ call # NoCall
  /\ call' = NoCall
  /\ reply' = NoReply

Next == (\E c \in Calls : Answer(c)) \/ Destroy

Spec == Init /\ [][Next]_vars

-----------------------------------------------------------------------------
(* Properties. *)

Made == reply.result = "OK"

\* A layout's parts follow each other without overlap and end inside the
\* block: "calculations didn't work" is to be answered otherwise.
LayoutFits ==
  Made => /\ reply.ofentries >= reply.ofbins + SizePointer * (reply.nbins + 1)
          /\ reply.ofstore >= reply.ofentries + SizeEntry * reply.nentries
          /\ reply.ofstore + reply.storelength <= reply.allocated

\* The store is a whole number of quanta, at least one, from an offset that
\* is one: a free_t fits wherever purge or cache_empty writes one.
StoreHoldsFreeBlocks ==
  Made => /\ reply.ofstore % Quantum = 0
          /\ reply.storelength % Quantum = 0
          /\ reply.storelength >= Quantum

\* Header, bins and entries leave room for a store of one quantum at least.
HasRoom(c) == ofstore(c) + Quantum <= c.length

\* Of the blocks accepted, those with room are laid out as they should be and
\* no others are: the subtraction of ofstore from length wraps or leaves 0,
\* and neither of the two sums refuses that.
LaidOutIfRoom == Made => (LayoutFits /\ StoreHoldsFreeBlocks <=> HasRoom(call))

\* The pool shared out over the bins makes chains of the configured length,
\* or less than twice that: "nbins" is rounded down to a power of two, for
\* the hash function's mask, and is never 0.
ChainsAsConfigured ==
  Made => LET full == reply.nbins * call.chain
          IN  /\ reply.nentries < 2 * full
              /\ reply.nbins = 1 \/ full <= reply.nentries
              /\ \E i \in 0 .. 30 : reply.nbins = 2 ^ i

=============================================================================
