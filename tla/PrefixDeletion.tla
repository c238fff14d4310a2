---------------------------- MODULE PrefixDeletion ----------------------------
(***************************************************************************)
(* RustfsStorage.deletePrefix (rustfs_storage.ts:64-96): page through the  *)
(* keys under a prefix and delete page by page, following the token of the *)
(* store.  Several DELETE requests may be doing so at once, each naming     *)
(* the same directory with as many closing slashes as it likes.  The store  *)
(* is outside the repository: its listing is ordered, a page holds what is *)
(* there between its token and the next one, and a page that is not the    *)
(* last may be shorter than asked for, even empty.                          *)
(***************************************************************************)
EXTENDS Naturals, Sequences, FiniteSets

CONSTANTS
  Keys,      \* the keys of the bucket, numbered in the order it lists them
  NameOf,    \* the name of each key, letter by letter
  Directory, \* the directory to delete: hls/<id>
  Deleters,  \* the calls of deletePrefix
  Asked,     \* the keyPrefix of each: Directory, then any number of slashes
  MaxKeys,   \* the size of a page (DELETE_BATCH)
  Unreliable \* may the store fail?

Slash == "/"

ASSUME KeysAreNumbered == Keys # {} /\ Keys \subseteq Nat \ {0} /\ IsFiniteSet(Keys)
ASSUME KeysAreNamed == NameOf \in [Keys -> Seq(STRING)]
ASSUME DirectoryEndsInNoSlash ==
  /\ Directory \in Seq(STRING)
  /\ Directory # <<>> => Directory[Len(Directory)] # Slash
ASSUME DirectoryIsAsked ==
  /\ Asked \in [Deleters -> Seq(STRING)]
  /\ \A d \in Deleters :
       /\ Len(Asked[d]) >= Len(Directory)
       /\ \A i \in 1..Len(Asked[d]) :
            Asked[d][i] = IF i <= Len(Directory) THEN Directory[i] ELSE Slash
ASSUME MaxKeysIsPositive == MaxKeys \in Nat \ {0}
ASSUME UnreliableIsBoolean == Unreliable \in BOOLEAN

VARIABLES
  objects,  \* the keys that are there
  refused,  \* history: keys a DeleteObjects answer listed as not deleted
  call      \* per call: where it stands, its token, its page

pvars == <<objects, refused, call>>

Start == 0
Calls == [pc    : {"list", "delete", "done", "thrown"},
          token : Keys \union {Start},
          upTo  : Keys \union {Start},
          more  : BOOLEAN,
          page  : SUBSET Keys]

(* keyPrefix.replace(/\/+$/, '') *)
Stripped(prefix) ==
  LET letters == {i \in DOMAIN prefix : prefix[i] # Slash} IN
  IF letters = {} THEN <<>>
  ELSE SubSeq(prefix, 1, CHOOSE i \in letters : \A j \in letters : j <= i)

(* Faulty: the prefix as the callers write it, without its closing slash.  *)
Unclosed(prefix) == Stripped(prefix)

(* It ends in exactly one slash, so that no sibling's name begins with it.  *)
Normalised(prefix) == Append(Stripped(prefix), Slash)

(* What ListObjectsV2 knows of a prefix: how a name begins. *)
StartsWith(name, prefix) ==
  /\ Len(prefix) <= Len(name)
  /\ \A i \in DOMAIN prefix : name[i] = prefix[i]

(* The keys each call lists. *)
Matching ==
  [d \in Deleters |-> {k \in Keys : StartsWith(NameOf[k], Normalised(Asked[d]))}]

Init ==
  /\ objects \in SUBSET Keys
  /\ refused = {}
  /\ call = [d \in Deleters |->
       [pc |-> "list", token |-> Start, upTo |-> Start, more |-> FALSE, page |-> {}]]

Between(d, from, to) == {k \in objects \intersect Matching[d] : from < k /\ k <= to}

(* Faulty: deleting as we page, list again from the start. *)
FromStart(upTo) == Start

(* Faulty: the token is an offset, and the deletion shifts what it counts.  *)
Offset(upTo) == upTo + MaxKeys

(* The token of the next page, which the store hands back. *)
NextToken(upTo) == upTo

Proceed(c) ==
  IF c.more THEN [c EXCEPT !.pc = "list", !.token = NextToken(c.upTo), !.page = {}]
  ELSE [c EXCEPT !.pc = "done", !.page = {}]

(* One ListObjectsV2: a page up to some key, and whether more may follow.   *)
(* The last page is the one that leaves nothing after it.                   *)
List(d) ==
  /\ call[d].pc = "list"
  /\ \E upTo \in {k \in Keys : k > call[d].token}, more \in BOOLEAN :
       LET page == Between(d, call[d].token, upTo)
           read == [call[d] EXCEPT !.upTo = upTo, !.more = more, !.page = page]
       IN /\ Cardinality(page) <= MaxKeys
          /\ ~more => \A k \in objects \intersect Matching[d] : k <= upTo
          /\ more => \E k \in Keys : k > upTo
          /\ call' = [call EXCEPT ![d] =
                        IF page = {} THEN Proceed(read) ELSE [read EXCEPT !.pc = "delete"]]
  /\ UNCHANGED <<objects, refused>>

(* One DeleteObjects.  Keys that are gone already are no error; the keys   *)
(* it could not delete are in an answer nobody reads.                       *)
DeletePage(d) ==
  /\ call[d].pc = "delete"
  /\ \E kept \in (IF Unreliable THEN SUBSET call[d].page ELSE {{}}) :
       /\ objects' = objects \ (call[d].page \ kept)
       /\ refused' = refused \union kept
  /\ call' = [call EXCEPT ![d] = Proceed(@)]

(* A call to the store that throws ends deletePrefix. *)
Throw(d) ==
  /\ Unreliable
  /\ call[d].pc \in {"list", "delete"}
  /\ call' = [call EXCEPT ![d].pc = "thrown"]
  /\ UNCHANGED <<objects, refused>>

Next == \E d \in Deleters : List(d) \/ DeletePage(d) \/ Throw(d)

Spec == Init /\ [][Next]_pvars
FairSpec == Spec /\ \A d \in Deleters : WF_pvars(List(d) \/ DeletePage(d))
-------------------------------------------------------------------------------
TypeOK ==
  /\ objects \in SUBSET Keys
  /\ refused \in SUBSET Keys
  /\ call \in [Deleters -> Calls]

(* What lies in the directory: its path, a slash, and more. *)
Under ==
  {k \in Keys :
     /\ Len(Directory) < Len(NameOf[k])
     /\ SubSeq(NameOf[k], 1, Len(Directory)) = Directory
     /\ NameOf[k][Len(Directory) + 1] = Slash}

(* A call that returned left nothing in its directory but what the store   *)
(* refused to delete - whatever the sizes of the pages, although every      *)
(* deletion shifts the listing, and with slashes or without in what was     *)
(* asked (rustfs_storage.ts:55-65,90-92).                                   *)
Emptied ==
  \A d \in Deleters : call[d].pc = "done" => objects \intersect Under \subseteq refused

(* Why: behind its token, and its page apart, a call has left nothing.     *)
ClearedBehind ==
  \A d \in Deleters :
    /\ call[d].pc = "list" =>
         \A k \in objects \intersect Under : k <= call[d].token => k \in refused
    /\ call[d].pc = "delete" =>
         /\ \A k \in objects \intersect Under :
              k <= call[d].upTo => k \in refused \union call[d].page
         /\ ~call[d].more => \A k \in objects \intersect Under : k <= call[d].upTo

(* It never touches a neighbour: not a sibling whose name merely begins    *)
(* like the directory's, nor an object of that very name                    *)
(* (rustfs_storage.ts:55-58,65).                                            *)
NeighboursAreKept == [][objects' \ Under = objects \ Under]_pvars

(* It returns, keys that cannot be deleted or not: a page is never listed  *)
(* twice.                                                                    *)
Terminates == \A d \in Deleters : <>(call[d].pc \in {"done", "thrown"})
===============================================================================
