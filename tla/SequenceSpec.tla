---------------------------- MODULE SequenceSpec ----------------------------
(***************************************************************************)
(* What a list promises its caller, whatever its representation: each of   *)
(* its containers is a sequence, and every call has the effect on the      *)
(* sequence and the result its name says.  call is the last call with its  *)
(* arguments and the element it returned, so that an implementation cannot *)
(* take one call for another.                                              *)
(***************************************************************************)
EXTENDS Integers, Sequences, SequencesExt

CONSTANTS Ids, Elem, Nil, Fn    \* containers, their elements, NULL, a mapping

VARIABLES seqs, call

seqVars == <<seqs, call>>

Init ==
  /\ seqs = [i \in Ids |-> <<>>]
  /\ call = <<"new">>

PushBack(i, v) ==
  /\ call' = <<"PushBack", i, v>>
  /\ seqs' = [seqs EXCEPT ![i] = Append(@, v)]

PushFront(i, v) ==
  /\ call' = <<"PushFront", i, v>>
  /\ seqs' = [seqs EXCEPT ![i] = <<v>> \o @]

PopBack(i) ==
  /\ seqs[i] # <<>>
  /\ call' = <<"PopBack", i, Last(seqs[i])>>
  /\ seqs' = [seqs EXCEPT ![i] = Front(@)]

PopFront(i) ==
  /\ seqs[i] # <<>>
  /\ call' = <<"PopFront", i, Head(seqs[i])>>
  /\ seqs' = [seqs EXCEPT ![i] = Tail(@)]

\* Clear and Destroy: the container is empty afterwards.
Empty(i) ==
  /\ call' = <<"Empty", i>>
  /\ seqs' = [seqs EXCEPT ![i] = <<>>]

\* An access to position p, counted from 0, outside the sequence may extend
\* it, with null elements only.
Extended(i, s) ==
  /\ IsPrefix(seqs[i], s)
  /\ \A k \in Len(seqs[i])+1 .. Len(s) : s[k] = Nil

Get(i, p) ==
  /\ IF p \in 0 .. Len(seqs[i]) - 1
     THEN call' = <<"Get", i, p, seqs[i][p+1]>> /\ UNCHANGED seqs
     ELSE /\ call' = <<"Get", i, p, Nil>>
          /\ Extended(i, seqs'[i])
          /\ seqs' = [seqs EXCEPT ![i] = seqs'[i]]

Set(i, p, v) ==
  /\ call' = <<"Set", i, p, v>>
  /\ IF p \in 0 .. Len(seqs[i]) - 1
     THEN seqs' = [seqs EXCEPT ![i][p+1] = v]
     ELSE /\ IF p < 0 THEN Extended(i, seqs'[i])
             ELSE seqs'[i][p+1] = v /\ Extended(i, [seqs'[i] EXCEPT ![p+1] = Nil])
          /\ seqs' = [seqs EXCEPT ![i] = seqs'[i]]

\* A change of the capacity shows nowhere.
Resize(i) == call' = <<"Resize", i>> /\ UNCHANGED seqs

\* The container has n elements at least, those that are new equal v.
Fill(i, n, v) ==
  /\ call' = <<"Fill", i, n, v>>
  /\ seqs' = [seqs EXCEPT ![i] = @ \o [k \in 1 .. n - Len(@) |-> v]]

\* The element at position k leaves; insertions go in front of position k.
Detach(i, k) ==
  /\ call' = <<"Detach", i, k>>
  /\ seqs' = [seqs EXCEPT ![i] = RemoveAt(@, k)]

InsertElement(i, k, v) ==
  /\ call' = <<"InsertElement", i, k, v>>
  /\ seqs' = [seqs EXCEPT ![i] = InsertAt(@, k, v)]

InsertList(i, k, j) ==
  /\ i # j
  /\ call' = <<"InsertList", i, k, j>>
  /\ seqs' = [seqs EXCEPT ![i] = SubSeq(@, 1, k-1) \o seqs[j] \o SubSeq(@, k, Len(@)),
                          ![j] = <<>>]

Split(i, k, j) ==
  /\ i # j
  /\ call' = <<"Split", i, k, j>>
  /\ seqs' = [seqs EXCEPT ![i] = SubSeq(@, 1, k),
                          ![j] = SubSeq(seqs[i], k+1, Len(seqs[i]))]

CopyInto(i, j) ==
  /\ call' = <<"CopyInto", i, j>>
  /\ seqs' = [seqs EXCEPT ![j] = @ \o seqs[i]]

Copy(i, j) ==
  /\ call' = <<"Copy", i, j>>
  /\ seqs' = [seqs EXCEPT ![j] = seqs[i]]

Map(i) ==
  /\ call' = <<"Map", i>>
  /\ seqs' = [seqs EXCEPT ![i] = [k \in DOMAIN @ |-> Fn[@[k]]]]

DeepCopy(i, j) ==
  /\ call' = <<"DeepCopy", i, j>>
  /\ seqs' = [seqs EXCEPT ![j] = [k \in DOMAIN seqs[i] |-> Fn[seqs[i][k]]]]

Next ==
  \E i \in Ids :
    \/ \E v \in Elem : PushBack(i, v) \/ PushFront(i, v)
    \/ PopBack(i) \/ PopFront(i) \/ Empty(i) \/ Map(i) \/ Resize(i)
    \/ \E p \in -1 .. Len(seqs[i]) + 1 : Get(i, p) \/ \E v \in Elem : Set(i, p, v)
    \/ \E n \in 0 .. Len(seqs'[i]) : \E v \in Elem : Fill(i, n, v)
    \/ \E k \in DOMAIN seqs[i] : Detach(i, k) \/ \E v \in Elem : InsertElement(i, k, v)
    \/ \E j \in Ids :
         \/ CopyInto(i, j) \/ Copy(i, j) \/ DeepCopy(i, j)
         \/ \E k \in DOMAIN seqs[i] : InsertList(i, k, j) \/ Split(i, k, j)

Spec == Init /\ [][Next]_seqVars
=============================================================================
