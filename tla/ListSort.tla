------------------------------ MODULE ListSort ------------------------------
(***************************************************************************)
(* The bottom-up mergesort of the list macros (LL_SORT, DL_SORT, CDL_SORT, *)
(* HASH_SRT), which all share one loop: passes over the list that merge    *)
(* neighbouring runs of 1, 2, 4, ... elements, until a pass makes a single *)
(* merge.  The list is the sequence of its elements; what a macro does to  *)
(* the links is in the module of its list.                                 *)
(***************************************************************************)
EXTENDS Integers, Sequences, SequencesExt

CONSTANT RankOf   \* cmp(a, b) is RankOf[a] - RankOf[b]

\* psize and qsize elements of p and q are left to merge.
TakeP_Unstable(a, b) == RankOf[a] < RankOf[b]
TakeP(a, b) == RankOf[a] <= RankOf[b]

Merge(p, q) ==
  LET m[ij \in (1 .. Len(p) + 1) \X (1 .. Len(q) + 1)] ==
        LET i == ij[1]
            j == ij[2]
        IN  IF i > Len(p) \/ j > Len(q)
            THEN SubSeq(p, i, Len(p)) \o SubSeq(q, j, Len(q))
            ELSE IF TakeP(p[i], q[j]) THEN <<p[i]>> \o m[<<i + 1, j>>]
                                      ELSE <<q[j]>> \o m[<<i, j + 1>>]
  IN  m[<<1, 1>>]

\* The k-th run of insize elements; the last may be short or empty.
Run(s, insize, k) ==
  SubSeq(s, (k - 1) * insize + 1, IF k * insize < Len(s) THEN k * insize ELSE Len(s))

NMerges(s, insize) == (Len(s) + 2 * insize - 1) \div (2 * insize)

MergePass(s, insize) ==
  FlattenSeq([k \in 1 .. NMerges(s, insize) |->
                Merge(Run(s, insize, 2 * k - 1), Run(s, insize, 2 * k))])

LastPass_TooEarly(s, insize) == NMerges(s, insize) <= 2
LastPass(s, insize) == NMerges(s, insize) <= 1

\* After k passes; an insize of Len(s) is enough.
MergeSort(s) ==
  LET pass[k \in 0 .. Len(s)] ==
        IF k = 0 THEN [list |-> s, insize |-> 1]
        ELSE [list |-> MergePass(pass[k - 1].list, pass[k - 1].insize),
              insize |-> 2 * pass[k - 1].insize]
      last(k) == LastPass(s, pass[k - 1].insize)
  IN  pass[CHOOSE k \in 1 .. Len(s) : last(k) /\ \A j \in 1 .. k - 1 : ~ last(j)].list

=============================================================================
