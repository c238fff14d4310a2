----------------------------- MODULE PrefixProofs -----------------------------
(***************************************************************************)
(* deletePrefix empties its prefix, for any bucket, page size and number   *)
(* of calls at once: the invariant is that nothing is left behind a token. *)
(* Only deletions happen meanwhile, so what was cleared stays clear.  What *)
(* it lists is what lies in the directory, however the caller closed it.   *)
(***************************************************************************)
EXTENDS PrefixDeletion, SequenceTheorems, TLAPS

-------------------------------------------------------------------------------
(* The prefix. *)

(* Without its closing slashes, what was asked is the directory. *)
LEMMA StrippedIsDirectory ==
  ASSUME NEW d \in Deleters
  PROVE  Stripped(Asked[d]) = Directory
<1> DEFINE asked == Asked[d]
           letters == {i \in DOMAIN asked : asked[i] # Slash}
           n == Len(Directory)
<1>1. /\ asked \in Seq(STRING) /\ Len(asked) \in Nat /\ n \in Nat /\ n <= Len(asked)
      /\ DOMAIN asked = 1..Len(asked)
      /\ \A i \in 1..Len(asked) : asked[i] = IF i <= n THEN Directory[i] ELSE Slash
  BY DirectoryIsAsked, DirectoryEndsInNoSlash, LenProperties
<1>2. letters \subseteq 1..n
  BY <1>1
<1>3. CASE n = 0
  <2>1. letters = {} /\ Directory = <<>>
    BY <1>2, <1>3, DirectoryEndsInNoSlash, EmptySeq
  <2> QED
    BY <2>1 DEF Stripped
<1>4. CASE n > 0
  <2>1. Directory # <<>>
    BY <1>4
  <2>2. n \in letters
    BY <1>1, <1>4, <2>1, DirectoryEndsInNoSlash
  <2>3. \A i \in letters : (\A j \in letters : j <= i) <=> i = n
    BY <1>1, <1>2, <2>2
  <2>4. (CHOOSE i \in letters : \A j \in letters : j <= i) = n
    BY <2>2, <2>3
  <2>5. Stripped(asked) = SubSeq(asked, 1, n)
    BY <2>2, <2>4 DEF Stripped
  <2>6. \A k \in 1..n : asked[k] = Directory[k] /\ asked[k] \in STRING
    BY <1>1, ElementOfSeq
  <2>7. /\ SubSeq(asked, 1, n) \in Seq(STRING)
        /\ Len(SubSeq(asked, 1, n)) = n
        /\ \A k \in 1..n : SubSeq(asked, 1, n)[k] = asked[1 + k - 1]
    BY <1>1, <2>6, SubSeqProperties
  <2>8. \A k \in 1..n : 1 + k - 1 = k
    BY <1>1
  <2>9. \A k \in 1..n : SubSeq(asked, 1, n)[k] = Directory[k]
    BY <2>6, <2>7, <2>8
  <2>10. SubSeq(asked, 1, n) = Directory
    BY <2>7, <2>9, DirectoryEndsInNoSlash, SeqEqual
  <2> QED
    BY <2>5, <2>10
<1> QED
  BY <1>1, <1>3, <1>4

(* A name begins with the directory and one slash when it lies in it.      *)
LEMMA MatchingIsUnder ==
  ASSUME NEW d \in Deleters
  PROVE  Matching[d] = Under
<1> DEFINE n == Len(Directory)
           prefix == Append(Directory, Slash)
<1>1. Normalised(Asked[d]) = prefix
  BY StrippedIsDirectory DEF Normalised
<1>2. Directory \in Seq(STRING) /\ n \in Nat
  BY DirectoryEndsInNoSlash, LenProperties
<1>3. /\ Len(prefix) = n + 1
      /\ DOMAIN prefix = 1..(n + 1)
      /\ \A i \in 1..n : prefix[i] = Directory[i]
      /\ prefix[n + 1] = Slash
  BY <1>2, AppendProperties DEF Slash
<1>4. ASSUME NEW k \in Keys
      PROVE  StartsWith(NameOf[k], prefix) <=> k \in Under
  <2> DEFINE name == NameOf[k]
  <2>1. name \in Seq(STRING) /\ Len(name) \in Nat
    BY KeysAreNamed, LenProperties
  <2>2. n + 1 <= Len(name) <=> n < Len(name)
    BY <1>2, <2>1
  <2>3. CASE n < Len(name)
    <3>1. \A i \in 1..n : name[i] \in STRING
      BY <1>2, <2>1, <2>3, ElementOfSeq
    <3>2. /\ SubSeq(name, 1, n) \in Seq(STRING)
          /\ Len(SubSeq(name, 1, n)) = n
          /\ \A i \in 1..n : SubSeq(name, 1, n)[i] = name[1 + i - 1]
      BY <1>2, <2>1, <2>3, <3>1, SubSeqProperties
    <3>3. \A i \in 1..n : SubSeq(name, 1, n)[i] = name[i]
      BY <1>2, <3>2
    <3>4. SubSeq(name, 1, n) = Directory <=> \A i \in 1..n : name[i] = Directory[i]
      BY <1>2, <3>2, <3>3, SeqEqual
    <3>5. (\A i \in 1..(n + 1) : name[i] = prefix[i])
            <=> /\ \A i \in 1..n : name[i] = Directory[i]
                /\ name[n + 1] = Slash
      BY <1>2, <1>3
    <3> QED
      BY <1>3, <2>2, <2>3, <3>4, <3>5 DEF StartsWith, Under
  <2>4. CASE ~(n < Len(name))
    BY <1>3, <2>2, <2>4 DEF StartsWith, Under
  <2> QED
    BY <2>3, <2>4
<1>5. Matching[d] = {k \in Keys : StartsWith(NameOf[k], prefix)}
  BY <1>1 DEF Matching
<1> QED
  BY <1>4, <1>5 DEF Under

-------------------------------------------------------------------------------
(* Types. *)

LEMMA TokenIsNumber ==
  ASSUME NEW t \in Keys \union {Start}
  PROVE  t \in Nat
BY KeysAreNumbered DEF Start

LEMMA TypeInit == Init => TypeOK
BY KeysAreNumbered DEF Init, TypeOK, Calls, Start

LEMMA ProceedIsCall ==
  ASSUME NEW c \in Calls
  PROVE  Proceed(c) \in Calls
<1>1. CASE c.more
  BY <1>1 DEF Proceed, NextToken, Calls
<1>2. CASE ~c.more
  BY <1>2 DEF Proceed, Calls
<1> QED BY <1>1, <1>2

LEMMA TypeNext == TypeOK /\ [Next]_pvars => TypeOK'
<1> SUFFICES ASSUME TypeOK, [Next]_pvars PROVE TypeOK'
  OBVIOUS
<1> USE DEF TypeOK, Calls
<1>1. ASSUME NEW d \in Deleters, List(d) PROVE TypeOK'
  <2>1. PICK upTo \in Keys, more \in BOOLEAN :
          call' = [call EXCEPT ![d] =
            IF Between(d, call[d].token, upTo) = {}
            THEN Proceed([call[d] EXCEPT !.upTo = upTo, !.more = more,
                                         !.page = Between(d, call[d].token, upTo)])
            ELSE [call[d] EXCEPT !.upTo = upTo, !.more = more,
                                 !.page = Between(d, call[d].token, upTo), !.pc = "delete"]]
    BY <1>1 DEF List
  <2>2. Between(d, call[d].token, upTo) \subseteq Keys
    BY DEF Between
  <2> DEFINE read == [call[d] EXCEPT !.upTo = upTo, !.more = more,
                                     !.page = Between(d, call[d].token, upTo)]
  <2>3. read \in Calls /\ [read EXCEPT !.pc = "delete"] \in Calls
    BY <2>2
  <2>4. Proceed(read) \in Calls
    BY <2>3, ProceedIsCall
  <2> QED BY <1>1, <2>1, <2>3, <2>4 DEF List
<1>2. ASSUME NEW d \in Deleters, DeletePage(d) PROVE TypeOK'
  <2>1. refused' \subseteq Keys /\ objects' \subseteq Keys
    BY <1>2 DEF DeletePage
  <2>2. Proceed(call[d]) \in Calls
    BY ProceedIsCall
  <2> QED BY <1>2, <2>1, <2>2 DEF DeletePage
<1>3. ASSUME NEW d \in Deleters, Throw(d) PROVE TypeOK'
  BY <1>3 DEF Throw
<1>4. CASE UNCHANGED pvars
  BY <1>4 DEF pvars
<1> QED BY <1>1, <1>2, <1>3, <1>4 DEF Next

IInv == TypeOK /\ ClearedBehind /\ Emptied

LEMMA ClearedInit == Init => ClearedBehind /\ Emptied
BY KeysAreNumbered DEF Init, ClearedBehind, Emptied, Under, Start

(* What a call knows of the objects behind it survives any deletion.       *)
LEMMA DeletionKeepsOthers ==
  ASSUME IInv, NEW d \in Deleters, DeletePage(d),
         NEW e \in Deleters, e # d
  PROVE  /\ call[e].pc = "list" =>
              \A k \in objects' \intersect Under : k <= call[e].token => k \in refused'
         /\ call[e].pc = "delete" =>
              /\ \A k \in objects' \intersect Under :
                   k <= call[e].upTo => k \in refused' \union call[e].page
              /\ ~call[e].more => \A k \in objects' \intersect Under : k <= call[e].upTo
         /\ call[e].pc = "done" => objects' \intersect Under \subseteq refused'
         /\ call'[e] = call[e]
<1>1. objects' \subseteq objects /\ refused \subseteq refused'
  BY DEF DeletePage
<1>2. call'[e] = call[e]
  BY DEF DeletePage, IInv, TypeOK
<1> QED BY <1>1, <1>2 DEF IInv, ClearedBehind, Emptied

LEMMA ClearedNext == IInv /\ [Next]_pvars => ClearedBehind' /\ Emptied'
<1> SUFFICES ASSUME IInv, [Next]_pvars PROVE ClearedBehind' /\ Emptied'
  OBVIOUS
<1> USE DEF IInv
<1>1. ASSUME NEW d \in Deleters, List(d) PROVE ClearedBehind' /\ Emptied'
  <2> DEFINE Page(upTo) == Between(d, call[d].token, upTo)
             Read(upTo, more) == [call[d] EXCEPT !.upTo = upTo, !.more = more,
                                                 !.page = Page(upTo)]
  <2>1. PICK upTo \in Keys, more \in BOOLEAN :
          /\ ~more => \A k \in objects \intersect Matching[d] : k <= upTo
          /\ call' = [call EXCEPT ![d] = IF Page(upTo) = {} THEN Proceed(Read(upTo, more))
                                         ELSE [Read(upTo, more) EXCEPT !.pc = "delete"]]
    BY <1>1 DEF List
  <2>2. objects' = objects /\ refused' = refused /\ call[d].pc = "list"
    BY <1>1 DEF List
  <2>3. \A k \in objects \intersect Under : k <= upTo => k \in refused \union Page(upTo)
    <3>0. call[d].token \in Keys \union {Start}
      BY DEF TypeOK, Calls
    <3>6. call[d].token \in Nat
      BY <3>0, TokenIsNumber
    <3>1. \A k \in objects \intersect Under : k <= call[d].token => k \in refused
      BY <2>2 DEF ClearedBehind
    <3>2. SUFFICES ASSUME NEW k \in objects \intersect Under, k <= upTo
                   PROVE  k \in refused \union Page(upTo)
      OBVIOUS
    <3>3. k \in Nat /\ upTo \in Nat
      BY TokenIsNumber DEF TypeOK
    <3>4. CASE k <= call[d].token
      BY <3>1, <3>4
    <3>5. CASE call[d].token < k
      BY <3>2, <3>5, MatchingIsUnder DEF Between
    <3> QED BY <3>6, <3>3, <3>4, <3>5
  <2>4. \A e \in Deleters : e # d => call'[e] = call[e]
    BY <2>1 DEF TypeOK
  <2>5. CASE Page(upTo) = {}
    <3>1. call'[d] = Proceed(Read(upTo, more))
      BY <2>1, <2>5 DEF TypeOK
    <3>2. CASE more
      <4>1. call'[d].pc = "list" /\ call'[d].token = upTo
        BY <3>1, <3>2 DEF Proceed, NextToken, TypeOK, Calls
      <4> QED BY <2>2, <2>3, <2>4, <2>5, <4>1 DEF ClearedBehind, Emptied
    <3>3. CASE ~more
      <4>1. call'[d].pc = "done"
        BY <3>1, <3>3 DEF Proceed, TypeOK, Calls
      <4>2. objects \intersect Under \subseteq refused
        BY <2>1, <2>3, <2>5, <3>3, MatchingIsUnder
      <4> QED BY <2>2, <2>4, <4>1, <4>2 DEF ClearedBehind, Emptied
    <3> QED BY <3>2, <3>3
  <2>6. CASE Page(upTo) # {}
    <3>1. /\ call'[d].pc = "delete" /\ call'[d].upTo = upTo
          /\ call'[d].more = more /\ call'[d].page = Page(upTo)
      BY <2>1, <2>6 DEF TypeOK, Calls
    <3> QED BY <2>1, <2>2, <2>3, <2>4, <3>1, MatchingIsUnder DEF ClearedBehind, Emptied
  <2> QED BY <2>5, <2>6
<1>2. ASSUME NEW d \in Deleters, DeletePage(d) PROVE ClearedBehind' /\ Emptied'
  <2>1. /\ call[d].pc = "delete"
        /\ call'[d] = Proceed(call[d])
        /\ objects' \intersect call[d].page \subseteq refused'
        /\ objects' \subseteq objects /\ refused \subseteq refused'
    BY <1>2 DEF DeletePage, TypeOK
  <2>2. \A k \in objects' \intersect Under : k <= call[d].upTo => k \in refused'
    BY <2>1 DEF ClearedBehind
  <2>3. CASE call[d].more
    <3>1. call'[d].pc = "list" /\ call'[d].token = call[d].upTo
      BY <2>1, <2>3 DEF Proceed, NextToken, TypeOK, Calls
    <3> QED BY <1>2, <2>2, <3>1, DeletionKeepsOthers DEF ClearedBehind, Emptied
  <2>4. CASE ~call[d].more
    <3>1. call'[d].pc = "done"
      BY <2>1, <2>4 DEF Proceed, TypeOK, Calls
    <3>2. objects' \intersect Under \subseteq refused'
      BY <2>1, <2>2, <2>4 DEF ClearedBehind
    <3> QED BY <1>2, <3>1, <3>2, DeletionKeepsOthers DEF ClearedBehind, Emptied
  <2> QED BY <2>3, <2>4
<1>3. ASSUME NEW d \in Deleters, Throw(d) PROVE ClearedBehind' /\ Emptied'
  <2>1. call'[d].pc = "thrown" /\ \A e \in Deleters : e # d => call'[e] = call[e]
    BY <1>3 DEF Throw, TypeOK, Calls
  <2> QED BY <1>3, <2>1 DEF Throw, ClearedBehind, Emptied
<1>4. CASE UNCHANGED pvars
  BY <1>4 DEF pvars, ClearedBehind, Emptied
<1> QED BY <1>1, <1>2, <1>3, <1>4 DEF Next

(* A deletePrefix that returned left nothing under its prefix but what the *)
(* store refused to delete (rustfs_storage.ts:64-96).                       *)
THEOREM PrefixIsEmptied == Spec => []Emptied
<1>1. Init => IInv
  BY TypeInit, ClearedInit DEF IInv
<1>2. IInv /\ [Next]_pvars => IInv'
  BY TypeNext, ClearedNext DEF IInv
<1>3. IInv => Emptied
  BY DEF IInv
<1> QED BY <1>1, <1>2, <1>3, PTL DEF Spec

(* No step of it touches what lies outside the directory, whatever the     *)
(* names of the bucket and however the callers close the prefix            *)
(* (rustfs_storage.ts:55-58,65).                                            *)
THEOREM NeighboursStay == Spec => NeighboursAreKept
<1>1. TypeOK /\ (\A d \in Deleters : call[d].page \subseteq Under) /\ [Next]_pvars
        => (\A d \in Deleters : call[d].page \subseteq Under)'
  <2> SUFFICES ASSUME TypeOK, \A d \in Deleters : call[d].page \subseteq Under, [Next]_pvars,
                      NEW e \in Deleters
               PROVE  call'[e].page \subseteq Under
    OBVIOUS
  <2>1. ASSUME NEW d \in Deleters, List(d) PROVE call'[e].page \subseteq Under
    BY <2>1, MatchingIsUnder DEF List, Proceed, Between, TypeOK, Calls
  <2>2. ASSUME NEW d \in Deleters, DeletePage(d) PROVE call'[e].page \subseteq Under
    BY <2>2 DEF DeletePage, Proceed, TypeOK, Calls
  <2>3. ASSUME NEW d \in Deleters, Throw(d) PROVE call'[e].page \subseteq Under
    BY <2>3 DEF Throw, TypeOK, Calls
  <2> QED BY <2>1, <2>2, <2>3 DEF Next, pvars
<1>2. Init => \A d \in Deleters : call[d].page \subseteq Under
  BY DEF Init
<1>3. TypeOK /\ (\A d \in Deleters : call[d].page \subseteq Under) /\ [Next]_pvars
        => [objects' \ Under = objects \ Under]_pvars
  BY DEF Next, List, DeletePage, Throw, pvars
<1> QED BY <1>1, <1>2, <1>3, TypeInit, TypeNext, PTL DEF Spec, NeighboursAreKept
===============================================================================
