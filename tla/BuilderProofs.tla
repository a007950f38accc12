--------------------------- MODULE BuilderProofs ---------------------------
(***************************************************************************)
(* Proofs about ownership, for every number of nodes and however a client  *)
(* uses constructors and builders: no node has two owners but the ones     *)
(* that the client shared, none is leaked, destruction takes whole trees   *)
(* and nothing else, and every Module that owns nothing shared is a tree   *)
(* that the other modules specify traversals of.                           *)
(***************************************************************************)
EXTENDS Builders, FiniteSetTheorems, FunctionTheorems, TLAPS

-----------------------------------------------------------------------------
(* The inductive invariant                                                 *)

(***************************************************************************)
(* Node n is the i-th one that o owns.                                     *)
(***************************************************************************)
Owns(o, i, n) ==
    /\ o \in Owner
    /\ i \in DOMAIN Content(o)
    /\ n = Content(o)[i]
    /\ n # Null

OwnsOK ==
    /\ client \subseteq Live /\ shared \subseteq Live
    /\ \A o, i, n : Owns(o, i, n) => n \in Live /\ n \notin client \ shared
    /\ \A o, p, i, j, n :
          Owns(o, i, n) /\ Owns(p, j, n) /\ n \notin shared => o = p /\ i = j

HeapInv == TypeOK /\ OwnsOK /\ NothingLeaks

LEMMA LiveNodes ==
    ASSUME TypeOK
    PROVE  /\ Null \notin Live /\ Null \notin client /\ Live \subseteq Address
           /\ \A n \in Live : n \notin Builder /\ Content(n) = heap[n].kids /\ n \in Owner
           /\ \A b \in Builder : Content(b) = pending[b] /\ b \in Owner
  BY BuildersAssumption DEF TypeOK, Content, Owner

LEMMA OwnsOnce == TypeOK /\ OwnsOK => OneOwner
  <1> SUFFICES ASSUME TypeOK, OwnsOK
               PROVE  OneOwner
    OBVIOUS
  <1>1. \A o \in Owner : \A i \in DOMAIN Content(o) :
           Content(o)[i] # Null => Owns(o, i, Content(o)[i])
    BY DEF Owns
  <1>2. NoDangling
    BY <1>1 DEF OwnsOK, NoDangling
  <1>3. \A o \in Owner : \A i \in DOMAIN Content(o) : Content(o)[i] \notin client \ shared
    BY <1>1, LiveNodes DEF OwnsOK
  <1>4. ASSUME NEW o \in Owner, NEW p \in Owner, NEW i \in DOMAIN Content(o),
               NEW j \in DOMAIN Content(p), Content(o)[i] = Content(p)[j],
               Content(o)[i] \notin shared \cup {Null}
        PROVE  o = p /\ i = j
    <2>1. Owns(o, i, Content(o)[i]) /\ Owns(p, j, Content(o)[i])
      BY <1>4 DEF Owns
    <2> QED
      BY <1>4, <2>1 DEF OwnsOK
  <1> QED
    BY <1>2, <1>3, <1>4 DEF OneOwner, OwnedOnce

(***************************************************************************)
(* What a node or builder owns lives.                                      *)
(***************************************************************************)
LEMMA KidsLive ==
    ASSUME TypeOK, OwnsOK
    PROVE  /\ \A n \in Live : \A i \in DOMAIN heap[n].kids : heap[n].kids[i] \in Live \cup {Null}
           /\ \A b \in Builder : Elements(pending[b]) \subseteq Live \cup {Null}
  <1>1. OneOwner
    BY OwnsOnce
  <1>2. \A o \in Owner : \A i \in DOMAIN Content(o) : Content(o)[i] \in Live \cup {Null}
    BY <1>1 DEF OneOwner, NoDangling
  <1>3. \A n \in Live : \A i \in DOMAIN heap[n].kids : heap[n].kids[i] \in Live \cup {Null}
    BY <1>2, LiveNodes
  <1>4. \A b \in Builder : \A i \in DOMAIN pending[b] : pending[b][i] \in Live \cup {Null}
    BY <1>2, LiveNodes
  <1> QED
    BY <1>3, <1>4 DEF Elements

LEMMA RootsLive ==
    ASSUME TypeOK, OwnsOK
    PROVE  Roots \subseteq Live \cup {Null}
  BY KidsLive DEF Roots, OwnsOK

-----------------------------------------------------------------------------
(* Subtrees                                                                *)

(***************************************************************************)
(* The nodes below R are the least set that contains R and whatever its    *)
(* members own.                                                            *)
(***************************************************************************)
LEMMA SubtreesLeast ==
    ASSUME NEW R, NEW S \in SUBSET Live, R \ {Null} \subseteq S, Closed(S)
    PROVE  Subtrees(R) \subseteq S
  BY DEF Subtrees

LEMMA SubtreesClosed ==
    ASSUME TypeOK, OwnsOK, NEW R, R \ {Null} \subseteq Live
    PROVE  /\ Subtrees(R) \subseteq Live
           /\ R \ {Null} \subseteq Subtrees(R)
           /\ Closed(Subtrees(R))
  <1>1. Subtrees(R) \subseteq Live /\ R \ {Null} \subseteq Subtrees(R)
    BY DEF Subtrees
  <1>2. ASSUME NEW n \in Subtrees(R), NEW i \in DOMAIN heap[n].kids,
               heap[n].kids[i] # Null
        PROVE  heap[n].kids[i] \in Subtrees(R)
    <2>1. heap[n].kids[i] \in Live
      BY <1>1, <1>2, KidsLive
    <2>2. \A S \in SUBSET Live : R \ {Null} \subseteq S /\ Closed(S) => n \in S
      BY <1>2 DEF Subtrees
    <2>3. \A S \in SUBSET Live :
             R \ {Null} \subseteq S /\ Closed(S) => heap[n].kids[i] \in S
      BY <1>2, <2>2 DEF Closed
    <2> QED
      BY <2>1, <2>3 DEF Subtrees
  <1> QED
    BY <1>1, <1>2 DEF Closed

(***************************************************************************)
(* A node below R that is not in R is owned by a node below R.             *)
(***************************************************************************)
LEMMA SubtreesOwned ==
    ASSUME TypeOK, OwnsOK, NEW R, R \ {Null} \subseteq Live,
           NEW m \in Subtrees(R), m \notin R
    PROVE  \E n \in Subtrees(R) : \E i \in DOMAIN heap[n].kids : heap[n].kids[i] = m
  <1> SUFFICES ASSUME \A n \in Subtrees(R) : \A i \in DOMAIN heap[n].kids : heap[n].kids[i] # m
               PROVE  FALSE
    OBVIOUS
  <1> DEFINE S == Subtrees(R) \ {m}
  <1>1. /\ S \in SUBSET Live /\ R \ {Null} \subseteq S
    BY SubtreesClosed
  <1>2. Closed(S)
    BY SubtreesClosed DEF Closed
  <1>3. Subtrees(R) \subseteq S
    BY <1>1, <1>2, SubtreesLeast
  <1> QED
    BY <1>3

LEMMA SubtreesOfNone == Subtrees({}) = {}
  <1>1. Closed({})
    BY DEF Closed
  <1> QED
    BY <1>1, SubtreesLeast

-----------------------------------------------------------------------------
(* New nodes                                                               *)

(***************************************************************************)
(* Nothing leaks when whoever holds everything owned now holds, in the     *)
(* next state, the new nodes A and everything that was owned before.       *)
(***************************************************************************)
LEMMA GrowNoLeak ==
    ASSUME HeapInv, NEW A, A \cap Live = {}, Live' = Live \cup A,
           \A n \in Live : heap'[n] = heap[n],
           \A S \in SUBSET Live' :
              Roots' \ {Null} \subseteq S /\ Closed(S)'
                 => A \subseteq S /\ Roots \ {Null} \subseteq S
    PROVE  NothingLeaks'
  <1>1. ASSUME NEW S \in SUBSET Live', Roots' \ {Null} \subseteq S, Closed(S)'
        PROVE  Live' \subseteq S
    <2>1. A \subseteq S /\ Roots \ {Null} \subseteq S
      BY <1>1
    <2> DEFINE T == S \cap Live
    <2>2. Roots \ {Null} \subseteq T
      BY <2>1, RootsLive DEF HeapInv
    <2>3. Closed(T)
      BY <1>1, KidsLive DEF Closed, HeapInv
    <2>4. Subtrees(Roots) \subseteq T
      BY <2>2, <2>3, SubtreesLeast
    <2> QED
      BY <2>1, <2>4 DEF HeapInv, NothingLeaks
  <1>2. Live' \subseteq Subtrees(Roots)'
    BY <1>1 DEF Subtrees
  <1>3. Subtrees(Roots)' \subseteq Live'
    BY DEF Subtrees
  <1> QED
    BY <1>2, <1>3 DEF NothingLeaks

LEMMA AddingHeap ==
    ASSUME TypeOK, NEW a \in Free, NEW cell, heap' = Adding(a, cell)
    PROVE  /\ Live' = Live \cup {a} /\ a \notin Live /\ a \in Address /\ a \notin Builder
           /\ a # Null
           /\ heap'[a] = cell /\ \A n \in Live : heap'[n] = heap[n]
           /\ Owner' = Owner \cup {a} /\ a \notin Owner
           /\ Content(a)' = cell.kids
           /\ \A n \in Live : Content(n)' = Content(n)
           /\ \A b \in Builder : Content(b)' = pending'[b]
  <1>1. /\ Live' = Live \cup {a} /\ a \notin Live /\ a \in Address /\ a \notin Builder
        /\ a # Null
        /\ heap'[a] = cell /\ \A n \in Live : heap'[n] = heap[n]
    BY BuildersAssumption DEF Adding, Free, Live
  <1>2. \A n \in Live : n \notin Builder
    BY LiveNodes
  <1> QED
    BY <1>1, <1>2 DEF Owner, Content

(***************************************************************************)
(* A node that takes over pointers of the client.                          *)
(***************************************************************************)
LEMMA FromClient ==
    ASSUME HeapInv, NEW a \in Free, NEW cell, heap' = Adding(a, cell),
           client' = (client \ Elements(cell.kids)) \cup {a},
           UNCHANGED <<pending, shared>>,
           Elements(cell.kids) \subseteq Movable, Distinct(cell.kids)
    PROVE  OwnsOK' /\ NothingLeaks'
  <1> USE DEF HeapInv
  <1>1. /\ Live' = Live \cup {a} /\ a \notin Live /\ a # Null
        /\ heap'[a] = cell /\ \A n \in Live : heap'[n] = heap[n]
        /\ Owner' = Owner \cup {a} /\ a \notin Owner
        /\ Content(a)' = cell.kids
        /\ \A o \in Owner : Content(o)' = Content(o)
    <2>1. \A b \in Builder : Content(b)' = Content(b)
      BY AddingHeap, LiveNodes
    <2> QED
      BY <2>1, AddingHeap DEF Owner
  <1>2. \A o, i, n : Owns(o, i, n)' =>
           \/ o = a /\ i \in DOMAIN cell.kids /\ n = cell.kids[i] /\ n # Null
           \/ o # a /\ Owns(o, i, n)
    BY <1>1 DEF Owns
  <1>3. \A i \in DOMAIN cell.kids :
           cell.kids[i] # Null => cell.kids[i] \in client /\ cell.kids[i] \notin client'
    BY <1>1 DEF Elements, Movable, OwnsOK
  <1>4. client' \subseteq Live' /\ shared' \subseteq Live'
    BY <1>1 DEF OwnsOK
  <1>5. \A o, i, n : Owns(o, i, n)' => n \in Live' /\ n \notin (client \ shared)'
    BY <1>1, <1>2, <1>3 DEF OwnsOK
  <1>6. ASSUME NEW o, NEW p, NEW i, NEW j, NEW n, Owns(o, i, n)', Owns(p, j, n)',
               n \notin shared'
        PROVE  o = p /\ i = j
    BY <1>2, <1>3, <1>6 DEF OwnsOK, Distinct
  <1>7. ASSUME NEW S \in SUBSET Live', Roots' \ {Null} \subseteq S, Closed(S)'
        PROVE  {a} \subseteq S /\ Roots \ {Null} \subseteq S
    <2>1. a \in S
      BY <1>1, <1>7 DEF Roots
    <2>2. Elements(cell.kids) \subseteq S \cup {Null}
      BY <1>1, <1>7, <2>1 DEF Closed, Elements
    <2> QED
      BY <1>7, <2>1, <2>2 DEF Roots
  <1>8. NothingLeaks'
    <2>1. {a} \cap Live = {} /\ Live' = Live \cup {a}
      BY <1>1
    <2>2. \A S \in SUBSET Live' :
             Roots' \ {Null} \subseteq S /\ Closed(S)'
                => {a} \subseteq S /\ Roots \ {Null} \subseteq S
      BY <1>7
    <2>3. \A n \in Live : heap'[n] = heap[n]
      BY <1>1
    <2> HIDE DEF HeapInv
    <2> QED
      BY <2>1, <2>2, <2>3, GrowNoLeak
  <1> QED
    BY <1>4, <1>5, <1>6, <1>8 DEF OwnsOK

(***************************************************************************)
(* A node that takes over what a builder holds.                            *)
(***************************************************************************)
LEMMA FromBuilder ==
    ASSUME HeapInv, NEW a \in Free, NEW b \in Builder, NEW cell, heap' = Adding(a, cell),
           cell.kids = pending[b],
           client' = client \cup {a}, shared' = shared,
           \A c \in Builder : pending'[c] = IF c = b THEN <<>> ELSE pending[c]
    PROVE  OwnsOK' /\ NothingLeaks'
  <1> USE DEF HeapInv
  <1>1. /\ Live' = Live \cup {a} /\ a \notin Live /\ a # Null /\ a \notin Builder
        /\ heap'[a] = cell /\ \A n \in Live : heap'[n] = heap[n]
        /\ Owner' = Owner \cup {a} /\ a \notin Owner
        /\ Content(a)' = Content(b) /\ b \in Owner
        /\ Content(b)' = <<>>
        /\ \A o \in Owner \ {b} : Content(o)' = Content(o)
    <2>1. \A c \in Builder \ {b} : Content(c)' = Content(c)
      BY AddingHeap, LiveNodes
    <2>2. Content(b) = pending[b] /\ Content(b)' = <<>>
      BY AddingHeap, LiveNodes
    <2> QED
      BY <2>1, <2>2, AddingHeap DEF Owner
  <1>2. \A o, i, n : Owns(o, i, n)' =>
           \/ o = a /\ Owns(b, i, n)
           \/ o # a /\ o # b /\ Owns(o, i, n)
    <2>1. DOMAIN <<>> = {}
      OBVIOUS
    <2> QED
      BY <1>1, <2>1 DEF Owns
  <1>3. client' = client \cup {a}
    OBVIOUS
  <1>4. client' \subseteq Live' /\ shared' \subseteq Live'
    BY <1>1, <1>3 DEF OwnsOK
  <1>5. \A o, i, n : Owns(o, i, n)' => n \in Live' /\ n \notin (client \ shared)'
    BY <1>1, <1>2, <1>3 DEF OwnsOK
  <1>6. ASSUME NEW o, NEW p, NEW i, NEW j, NEW n, Owns(o, i, n)', Owns(p, j, n)',
               n \notin shared'
        PROVE  o = p /\ i = j
    BY <1>2, <1>6 DEF OwnsOK
  <1>7. ASSUME NEW S \in SUBSET Live', Roots' \ {Null} \subseteq S, Closed(S)'
        PROVE  {a} \subseteq S /\ Roots \ {Null} \subseteq S
    <2>1. a \in S
      BY <1>1, <1>3, <1>7 DEF Roots
    <2>2. Elements(pending[b]) \subseteq S \cup {Null}
      BY <1>1, <1>7, <2>1 DEF Closed, Elements
    <2>3. client \subseteq S
      BY <1>1, <1>3, <1>7, LiveNodes DEF Roots
    <2>4. ASSUME NEW c \in Builder
          PROVE  Elements(pending[c]) \subseteq S \cup {Null}
      <3>1. CASE c = b
        BY <2>2, <3>1
      <3>2. CASE c # b
        BY <1>7, <3>2 DEF Roots
      <3> QED
        BY <3>1, <3>2
    <2> QED
      BY <2>1, <2>3, <2>4 DEF Roots
  <1>8. NothingLeaks'
    <2>1. {a} \cap Live = {} /\ Live' = Live \cup {a}
      BY <1>1
    <2>2. \A S \in SUBSET Live' :
             Roots' \ {Null} \subseteq S /\ Closed(S)'
                => {a} \subseteq S /\ Roots \ {Null} \subseteq S
      BY <1>7
    <2>3. \A n \in Live : heap'[n] = heap[n]
      BY <1>1
    <2> HIDE DEF HeapInv
    <2> QED
      BY <2>1, <2>2, <2>3, GrowNoLeak
  <1> QED
    BY <1>4, <1>5, <1>6, <1>8 DEF OwnsOK

(***************************************************************************)
(* FunctionBuilder::build makes two nodes, one inside the other.           *)
(***************************************************************************)
LEMMA FunctionHeap ==
    ASSUME TypeOK, NEW a \in Free, NEW body \in Free, BuildFunction(a, body)
    PROVE  /\ Live' = Live \cup {a, body} /\ {a, body} \cap Live = {} /\ a # body
           /\ a # Null /\ body # Null /\ a \notin Builder /\ body \notin Builder
           /\ \A n \in Live : heap'[n] = heap[n]
           /\ heap'[body] = Built("function")
           /\ heap'[a] = Declared(body)
           /\ Owner' = Owner \cup {a, body}
           /\ Content(a)' = <<body>> /\ Content(body)' = Content("function")
           /\ Content("function")' = <<>>
           /\ \A o \in Owner \ {"function"} : Content(o)' = Content(o)
  <1>1. /\ Live' = Live \cup {a, body} /\ {a, body} \cap Live = {} /\ a # body
        /\ a # Null /\ body # Null /\ a \notin Builder /\ body \notin Builder
    BY BuildersAssumption DEF BuildFunction, Free, Live
  <1>2. /\ \A n \in Live : heap'[n] = heap[n]
        /\ heap'[body] = Built("function")
        /\ heap'[a] = Declared(body)
    <2>1. heap' = [n \in Live \cup {a, body} |->
                     IF n = body THEN Built("function")
                     ELSE IF n = a THEN Declared(body) ELSE heap[n]]
      BY DEF BuildFunction
    <2>2. \A n \in Live : n # a /\ n # body
      BY <1>1
    <2> QED
      BY <1>1, <2>1, <2>2
  <1>3. Owner' = Owner \cup {a, body}
    BY <1>1 DEF Owner
  <1>4. \A b \in Builder : pending'[b] = IF b = "function" THEN <<>> ELSE pending[b]
    BY DEF BuildFunction, MovedFrom, Emptied, Builder, BlockBuilder
  <1>5. "function" \in Builder
    BY DEF Builder, BlockBuilder
  <1>6. Content(a)' = <<body>> /\ Content(body)' = Content("function")
    BY <1>1, <1>2, <1>5 DEF Content, Built, Declared
  <1>7. Content("function")' = <<>>
    BY <1>4, <1>5 DEF Content
  <1>8. \A o \in Owner \ {"function"} : Content(o)' = Content(o)
    BY <1>2, <1>4, LiveNodes DEF Content, Owner
  <1> QED
    BY <1>1, <1>2, <1>3, <1>6, <1>7, <1>8

LEMMA BuildsFunction ==
    ASSUME HeapInv, NEW a \in Free, NEW body \in Free, BuildFunction(a, body),
           shared' = shared
    PROVE  OwnsOK' /\ NothingLeaks'
  <1> USE DEF HeapInv
  <1>1. client' = client \cup {a}
    BY DEF BuildFunction
  <1>2. \A o, i, n : Owns(o, i, n)' =>
           \/ o = a /\ i = 1 /\ n = body
           \/ o = body /\ Owns("function", i, n)
           \/ o \notin {a, body, "function"} /\ Owns(o, i, n)
    <2>1. DOMAIN <<>> = {} /\ DOMAIN <<body>> = {1} /\ <<body>>[1] = body
      OBVIOUS
    <2>2. "function" \in Owner
      BY DEF Owner, Builder, BlockBuilder
    <2> QED
      BY <2>1, <2>2, FunctionHeap DEF Owns
  <1>3. client' \subseteq Live' /\ shared' \subseteq Live'
    BY <1>1, FunctionHeap DEF OwnsOK
  <1>4. ASSUME NEW o, NEW i, NEW n, Owns(o, i, n)'
        PROVE  n \in Live' /\ n \notin (client \ shared)'
    BY <1>1, <1>2, <1>4, FunctionHeap DEF OwnsOK
  <1>5. ASSUME NEW o, NEW p, NEW i, NEW j, NEW n, Owns(o, i, n)', Owns(p, j, n)',
               n \notin shared'
        PROVE  o = p /\ i = j
    <2>1. \A q, k : Owns(q, k, n) => n # body
      BY FunctionHeap DEF OwnsOK
    <2> QED
      BY <1>2, <1>5, <2>1 DEF OwnsOK
  <1>6. ASSUME NEW S \in SUBSET Live', Roots' \ {Null} \subseteq S, Closed(S)'
        PROVE  {a, body} \subseteq S /\ Roots \ {Null} \subseteq S
    <2>1. a \in S
      BY <1>1, <1>6, FunctionHeap DEF Roots
    <2>2. body \in S
      <3>1. \A i \in DOMAIN heap'[a].kids : heap'[a].kids[i] \in S \cup {Null}
        BY <1>6, <2>1 DEF Closed
      <3>2. heap'[a] = Declared(body)
        BY FunctionHeap
      <3>3. heap'[a].kids = <<body>> /\ <<body>>[1] = body /\ 1 \in DOMAIN <<body>>
        BY <3>2 DEF Declared
      <3> QED
        BY <3>1, <3>3, FunctionHeap
    <2>3. Elements(pending["function"]) \subseteq S \cup {Null}
      <3>1. \A i \in DOMAIN heap'[body].kids : heap'[body].kids[i] \in S \cup {Null}
        BY <1>6, <2>2 DEF Closed
      <3>2. heap'[body].kids = pending["function"]
        BY FunctionHeap DEF Built
      <3> QED
        BY <3>1, <3>2 DEF Elements
    <2>4. client \subseteq S
      BY <1>1, <1>6, LiveNodes DEF Roots
    <2>5. ASSUME NEW c \in Builder
          PROVE  Elements(pending[c]) \subseteq S \cup {Null}
      <3>1. CASE c = "function"
        BY <2>3, <3>1
      <3>2. CASE c # "function"
        <4>1. pending'[c] = pending[c]
          BY <3>2 DEF BuildFunction, MovedFrom, Emptied, Builder, BlockBuilder
        <4> QED
          BY <1>6, <4>1 DEF Roots, Elements
      <3> QED
        BY <3>1, <3>2
    <2> QED
      BY <2>1, <2>2, <2>4, <2>5 DEF Roots
  <1>7. NothingLeaks'
    <2>1. {a, body} \cap Live = {} /\ Live' = Live \cup {a, body}
      BY FunctionHeap
    <2>2. \A S \in SUBSET Live' :
             Roots' \ {Null} \subseteq S /\ Closed(S)'
                => {a, body} \subseteq S /\ Roots \ {Null} \subseteq S
      BY <1>6
    <2>3. \A n \in Live : heap'[n] = heap[n]
      BY FunctionHeap
    <2> HIDE DEF HeapInv
    <2> QED
      BY <2>1, <2>2, <2>3, GrowNoLeak
  <1> QED
    BY <1>3, <1>4, <1>5, <1>7 DEF OwnsOK

(***************************************************************************)
(* A builder that takes over a pointer of the client.                      *)
(***************************************************************************)
LEMMA Adds ==
    ASSUME HeapInv, NEW b \in Builder, NEW n \in Live \cup {Null}, heap' = heap,
           pending' = [pending EXCEPT ![b] = Append(@, n)],
           \/ n \in Movable /\ client' = client \ {n} /\ shared' = shared
           \/ client' = client /\ shared' = shared \cup {n} /\ n # Null
    PROVE  OwnsOK' /\ NothingLeaks'
  <1> USE DEF HeapInv
  <1>1. /\ heap' = heap /\ client' \in {client, client \ {n}}
        /\ pending' = [pending EXCEPT ![b] = Append(@, n)]
    OBVIOUS
  <1>2. /\ pending[b] \in Seq(Address \cup {Null}) /\ n \in Address \cup {Null}
        /\ pending'[b] = Append(pending[b], n)
        /\ \A c \in Builder \ {b} : pending'[c] = pending[c]
    BY <1>1 DEF TypeOK
  <1>3. /\ DOMAIN pending'[b] = DOMAIN pending[b] \cup {Len(pending[b]) + 1}
        /\ \A i \in DOMAIN pending[b] : pending'[b][i] = pending[b][i]
        /\ pending'[b][Len(pending[b]) + 1] = n
    BY <1>2
  <1>4. /\ Live' = Live /\ Owner' = Owner
        /\ Content(b)' = pending'[b] /\ Content(b) = pending[b]
        /\ \A o \in Owner \ {b} : Content(o)' = Content(o)
    BY <1>1, <1>2 DEF Live, Owner, Content
  <1>5. \A o, i, m : Owns(o, i, m)' =>
           Owns(o, i, m) \/ (o = b /\ i = Len(pending[b]) + 1 /\ m = n /\ n # Null)
    BY <1>3, <1>4 DEF Owns
  <1>6. client' \subseteq Live' /\ shared' \subseteq Live'
    BY <1>1, <1>4 DEF OwnsOK
  <1>7. \A o, i, m : Owns(o, i, m)' => m \in Live' /\ m \notin (client \ shared)'
    BY <1>1, <1>4, <1>5 DEF OwnsOK
  <1>8. \A o, p, i, j, m :
           Owns(o, i, m)' /\ Owns(p, j, m)' /\ m \notin shared' => o = p /\ i = j
    BY <1>5 DEF OwnsOK, Movable
  <1>9. Roots \subseteq Roots'
    <2>1. Elements(pending[b]) \cup {n} \subseteq Elements(pending'[b])
      BY <1>3 DEF Elements
    <2>2. \A c \in Builder : Elements(pending[c]) \subseteq Elements(pending'[c])
      BY <1>2, <2>1
    <2>3. \A c \in Builder : Elements(pending'[c]) \subseteq Roots'
      BY DEF Roots, Elements
    <2> QED
      BY <1>1, <2>1, <2>2, <2>3 DEF Roots
  <1>10. NothingLeaks'
    <2>1. {} \cap Live = {} /\ Live' = Live \cup {}
      BY <1>4
    <2>2. \A S \in SUBSET Live' :
             Roots' \ {Null} \subseteq S /\ Closed(S)'
                => {} \subseteq S /\ Roots \ {Null} \subseteq S
      BY <1>9
    <2>3. \A m \in Live : heap'[m] = heap[m]
      BY <1>1
    <2> HIDE DEF HeapInv
    <2> QED
      BY <2>1, <2>2, <2>3, GrowNoLeak
  <1> QED
    BY <1>6, <1>7, <1>8, <1>10 DEF OwnsOK

-----------------------------------------------------------------------------
(* Destruction                                                             *)

(***************************************************************************)
(* Destroying the trees of R, when nothing else goes on pointing to R.     *)
(***************************************************************************)
LEMMA Deletes ==
    ASSUME HeapInv, NEW R, R \ {Null} \subseteq Roots, Delete(R),
           client' = client \ R, shared' = shared,
           \A b \in Builder : pending'[b] = pending[b] \/ pending'[b] = <<>>,
           \A b \in Builder : \A i \in DOMAIN pending'[b] : pending'[b][i] \in R => pending'[b][i] = Null,
           \A m \in R : m # Null /\ m \notin client => \E b \in Builder : m \in Elements(pending[b]),
           Roots \ {Null} \subseteq Roots' \cup R
    PROVE  OwnsOK' /\ NothingLeaks' /\ WholeTreesDie
  <1> USE DEF HeapInv
  <1> DEFINE D == Subtrees(R)
  <1>1. R \ {Null} \subseteq Live
    BY RootsLive
  <1>2. D \subseteq Live /\ R \ {Null} \subseteq D /\ Closed(D)
    BY <1>1, SubtreesClosed
  <1>3. /\ Live' = Live \ D /\ \A n \in Live' : heap'[n] = heap[n]
        /\ D \cap shared = {}
    BY DEF Delete, Live
  <1>4. \A m \in D \ R : \E n \in D : \E i : Owns(n, i, m)
    <2> SUFFICES ASSUME NEW m \in D, m \notin R
                 PROVE  \E n \in D : \E i : Owns(n, i, m)
      OBVIOUS
    <2>1. PICK n \in D : \E i \in DOMAIN heap[n].kids : heap[n].kids[i] = m
      BY <1>1, SubtreesOwned
    <2>2. PICK i \in DOMAIN heap[n].kids : heap[n].kids[i] = m
      BY <2>1
    <2>3. Owns(n, i, m)
      BY <1>2, <2>2, LiveNodes DEF Owns
    <2> QED
      BY <2>3
  <1>5. \A o, i, n : Owns(o, i, n)' => Owns(o, i, n) /\ o \notin D
    <2> SUFFICES ASSUME NEW o, NEW i, NEW n, Owns(o, i, n)'
                 PROVE  Owns(o, i, n) /\ o \notin D
      OBVIOUS
    <2>1. CASE o \in Builder
      <3>1. Content(o)' = pending'[o] /\ Content(o) = pending[o]
        BY <2>1 DEF Content
      <3>2. pending'[o] = pending[o]
        <4>1. DOMAIN <<>> = {}
          OBVIOUS
        <4> QED
          BY <2>1, <3>1, <4>1 DEF Owns
      <3> QED
        BY <1>2, <2>1, <3>1, <3>2, LiveNodes DEF Owns, Owner
    <2>2. CASE o \notin Builder
      <3>1. o \in Live' /\ Content(o)' = Content(o)
        BY <1>3, <2>2 DEF Owns, Owner, Content
      <3> QED
        BY <1>3, <3>1 DEF Owns, Owner
    <2> QED
      BY <2>1, <2>2
  <1>6. \A o, i, n : Owns(o, i, n)' => n \notin R
    <2> SUFFICES ASSUME NEW o, NEW i, NEW n, Owns(o, i, n)', n \in R
                 PROVE  FALSE
      OBVIOUS
    <2>1. Owns(o, i, n) /\ n # Null
      BY <1>5 DEF Owns
    <2>2. n \notin shared /\ \E b \in Builder : n \in Elements(pending[b])
      BY <1>2, <1>3, <2>1 DEF OwnsOK
    <2> PICK b \in Builder : n \in Elements(pending[b])
      BY <2>2
    <2>3. PICK j \in DOMAIN pending[b] : n = pending[b][j]
      BY <2>2 DEF Elements
    <2>4. Owns(b, j, n)
      BY <2>1, <2>3, LiveNodes DEF Owns
    <2>5. o = b
      BY <2>1, <2>2, <2>4 DEF OwnsOK
    <2>6. Content(o)' = pending'[b]
      BY <2>5 DEF Content
    <2> QED
      BY <2>1, <2>6 DEF Owns
  <1>7. client' \subseteq Live' /\ shared' \subseteq Live'
    BY <1>3, <1>4 DEF OwnsOK
  <1>8. \A o, i, n : Owns(o, i, n)' => n \in Live' /\ n \notin (client \ shared)'
    <2> SUFFICES ASSUME NEW o, NEW i, NEW n, Owns(o, i, n)'
                 PROVE  n \in Live' /\ n \notin (client \ shared)'
      OBVIOUS
    <2>1. Owns(o, i, n) /\ o \notin D /\ n \notin R
      BY <1>5, <1>6
    <2>2. n \notin D
      BY <1>3, <1>4, <2>1 DEF OwnsOK
    <2> QED
      BY <1>3, <2>1, <2>2 DEF OwnsOK
  <1>9. \A o, p, i, j, n :
           Owns(o, i, n)' /\ Owns(p, j, n)' /\ n \notin shared' => o = p /\ i = j
    BY <1>5 DEF OwnsOK
  <1>10. NothingLeaks'
    <2>1. ASSUME NEW S \in SUBSET Live', Roots' \ {Null} \subseteq S, Closed(S)'
          PROVE  Live' \subseteq S
      <3> DEFINE T == S \cup D
      <3>1. T \in SUBSET Live /\ Roots \ {Null} \subseteq T
        BY <1>2, <1>3, <2>1
      <3>2. Closed(T)
        BY <1>2, <1>3, <2>1 DEF Closed
      <3>3. Subtrees(Roots) \subseteq T
        BY <3>1, <3>2, SubtreesLeast
      <3> QED
        BY <1>3, <3>3 DEF NothingLeaks
    <2>2. Live' \subseteq Subtrees(Roots)'
      BY <2>1 DEF Subtrees
    <2>3. Subtrees(Roots)' \subseteq Live'
      BY DEF Subtrees
    <2> QED
      BY <2>2, <2>3 DEF NothingLeaks
  <1>11. WholeTreesDie
    <2>1. Live \ Live' = D
      BY <1>2, <1>3
    <2>2. (D \cap Roots) \ {Null} \subseteq Live /\ R \ {Null} \subseteq D \cap Roots
      BY <1>2
    <2>3. Subtrees(D \cap Roots) \subseteq D
      BY <1>2, SubtreesLeast
    <2>4. /\ Subtrees(D \cap Roots) \in SUBSET Live
          /\ (D \cap Roots) \ {Null} \subseteq Subtrees(D \cap Roots)
          /\ Closed(Subtrees(D \cap Roots))
      BY <2>2, SubtreesClosed
    <2>5. D \subseteq Subtrees(D \cap Roots)
      BY <2>2, <2>4, SubtreesLeast
    <2> QED
      BY <1>2, <2>1, <2>3, <2>5 DEF WholeTreesDie
  <1> QED
    BY <1>7, <1>8, <1>9, <1>10, <1>11 DEF OwnsOK

LEMMA DeletesUnshared ==
    ASSUME NEW R, R \ {Null} \subseteq Live, Delete(R)
    PROVE  (R \ {Null}) \cap shared = {}
  BY DEF Delete, Subtrees

-----------------------------------------------------------------------------
(* Types                                                                   *)

LEMMA ScopesGrow ==
    /\ Empty \in Scope
    /\ \A scope \in Scope, x \in Name, type \in DataType :
          [y \in DOMAIN scope \cup {x} |-> IF y \in DOMAIN scope THEN scope[y] ELSE type] \in Scope
  <1>1. Empty \in [{} -> DataType] /\ {} \in SUBSET Name
    BY DEF Empty
  <1>2. ASSUME NEW scope \in Scope, NEW x \in Name, NEW type \in DataType
        PROVE  [y \in DOMAIN scope \cup {x} |->
                   IF y \in DOMAIN scope THEN scope[y] ELSE type] \in Scope
    <2>1. PICK S \in SUBSET Name : scope \in [S -> DataType]
      BY DEF Scope
    <2>2. [y \in DOMAIN scope \cup {x} |->
              IF y \in DOMAIN scope THEN scope[y] ELSE type] \in [S \cup {x} -> DataType]
      BY <2>1
    <2>3. S \cup {x} \in SUBSET Name
      BY <2>1
    <2> QED
      BY <2>2, <2>3 DEF Scope
  <1> QED
    BY <1>1, <1>2 DEF Scope

LEMMA ScopesShrink ==
    ASSUME NEW scope \in Scope, NEW S
    PROVE  [x \in S \cap DOMAIN scope |-> scope[x]] \in Scope
  <1>1. PICK T \in SUBSET Name : scope \in [T -> DataType]
    BY DEF Scope
  <1>2. [x \in S \cap T |-> scope[x]] \in [S \cap T -> DataType] /\ S \cap T \in SUBSET Name
    BY <1>1
  <1> QED
    BY <1>1, <1>2 DEF Scope

LEMMA AddsCell ==
    ASSUME TypeOK, NEW a \in Free, NEW cell \in Cell, heap' = Adding(a, cell)
    PROVE  Live' \subseteq Address /\ heap' \in [Live' -> Cell]
  <1>1. /\ Live' = Live \cup {a} /\ a \in Address
        /\ heap'[a] = cell /\ \A n \in Live : heap'[n] = heap[n]
    BY AddingHeap
  <1>2. \A n \in Live' : heap'[n] \in Cell
    BY <1>1 DEF TypeOK
  <1>3. heap' = [n \in Live' |-> heap'[n]]
    BY DEF Adding, Live
  <1>4. heap' \in [Live' -> Cell]
    BY <1>2, <1>3
  <1> QED
    BY <1>1, <1>4 DEF TypeOK

LEMMA PlainCell ==
    ASSUME NEW kind \in NodeKind, NEW kids \in Seq(Address \cup {Null})
    PROVE  Plain(kind, kids) \in Cell
  BY ScopesGrow DEF Plain, Cell

LEMMA BuiltCell ==
    ASSUME TypeOK, NEW b \in BlockBuilder
    PROVE  Built(b) \in Cell
  <1>1. pending[b] \in Seq(Address \cup {Null}) /\ variables[b] \in Scope
    BY DEF TypeOK, Builder, ScopeBuilder
  <1> QED
    BY <1>1, ScopesGrow DEF Built, Cell, NodeKind

LEMMA DeletesCells ==
    ASSUME TypeOK, NEW R, Delete(R)
    PROVE  Live' \subseteq Address /\ heap' \in [Live' -> Cell]
  BY DEF TypeOK, Delete, Live

LEMMA EmptiedTypes ==
    ASSUME TypeOK, NEW bs, NEW kept, Emptied(bs, kept)
    PROVE  /\ pending' \in [Builder -> Seq(Address \cup {Null})]
           /\ variables' \in [ScopeBuilder -> Scope]
           /\ given' \in [ScopeBuilder -> SUBSET (Name \X DataType)]
  <1>1. <<>> \in Seq(Address \cup {Null})
    OBVIOUS
  <1>2. pending' \in [Builder -> Seq(Address \cup {Null})]
    BY <1>1 DEF TypeOK, Emptied
  <1>3. variables' \in [ScopeBuilder -> Scope]
    <2>1. \A b \in ScopeBuilder : variables[b] \in Scope
      BY DEF TypeOK
    <2>2. \A b \in ScopeBuilder :
             [x \in kept[b] \cap DOMAIN variables[b] |-> variables[b][x]] \in Scope
      BY <2>1, ScopesShrink
    <2> QED
      BY <2>1, <2>2 DEF Emptied
  <1>4. given' \in [ScopeBuilder -> SUBSET (Name \X DataType)]
    BY DEF TypeOK, Emptied
  <1> QED
    BY <1>2, <1>3, <1>4

-----------------------------------------------------------------------------
(* Steps                                                                   *)

LEMMA NothingDies ==
    ASSUME Live \subseteq Live'
    PROVE  WholeTreesDie
  <1>1. Live \ Live' = {}
    OBVIOUS
  <1>2. Closed({})
    BY DEF Closed
  <1> QED
    BY <1>1, <1>2, SubtreesOfNone DEF WholeTreesDie

LEMMA NewFromClient ==
    ASSUME HeapInv, NEW a \in Free, NEW kind \in NodeKind,
           NEW kids \in Seq(Address \cup {Null}),
           Elements(kids) \subseteq Movable, Distinct(kids),
           New(a, Plain(kind, kids), Elements(kids)),
           UNCHANGED <<pending, variables, given, shared, intact>>
    PROVE  HeapInv' /\ WholeTreesDie
  <1> DEFINE cell == Plain(kind, kids)
  <1>1. cell \in Cell /\ cell.kids = kids
    BY PlainCell DEF Plain
  <1>2. heap' = Adding(a, cell) /\ client' = (client \ Elements(cell.kids)) \cup {a}
    BY <1>1 DEF New
  <1>3. TypeOK /\ UNCHANGED <<pending, shared>>
    BY DEF HeapInv
  <1> HIDE DEF cell
  <1>4. OwnsOK' /\ NothingLeaks'
    BY <1>1, <1>2, <1>3, FromClient
  <1>5. Live' \subseteq Address /\ heap' \in [Live' -> Cell]
    BY <1>1, <1>2, <1>3, AddsCell
  <1>6. Live' = Live \cup {a}
    BY <1>2, <1>3, AddingHeap
  <1>7. TypeOK'
    BY <1>3, <1>4, <1>5 DEF TypeOK, OwnsOK
  <1> QED
    BY <1>4, <1>6, <1>7, NothingDies DEF HeapInv

LEMMA NewFromBuilder ==
    ASSUME HeapInv, NEW a \in Free, NEW b \in Builder, NEW cell \in Cell,
           cell.kids = pending[b], New(a, cell, {}), MovedFrom({b}),
           UNCHANGED <<shared, intact>>
    PROVE  HeapInv' /\ WholeTreesDie
  <1>1. /\ heap' = Adding(a, cell)
        /\ client' = client \cup {a} /\ shared' = shared
        /\ \A c \in Builder : pending'[c] = IF c = b THEN <<>> ELSE pending[c]
    BY DEF New, MovedFrom, Emptied
  <1>2. TypeOK
    BY DEF HeapInv
  <1>3. OwnsOK' /\ NothingLeaks'
    BY <1>1, FromBuilder
  <1>4. Live' \subseteq Address /\ heap' \in [Live' -> Cell]
    BY <1>1, <1>2, AddsCell
  <1>5. Live' = Live \cup {a}
    BY <1>1, <1>2, AddingHeap
  <1>6. TypeOK'
    BY <1>2, <1>3, <1>4, EmptiedTypes DEF TypeOK, OwnsOK, MovedFrom
  <1> QED
    BY <1>3, <1>5, <1>6, NothingDies DEF HeapInv

LEMMA ConstructStep ==
    ASSUME HeapInv, NEW a \in Free, Construct(a), UNCHANGED <<shared, intact>>
    PROVE  HeapInv' /\ WholeTreesDie
  <1>1. TypeOK /\ Movable \subseteq Address \cup {Null}
    BY DEF HeapInv, TypeOK, Movable
  <1>2. CASE MakeLeaf(a)
    <2>1. <<>> \in Seq(Address \cup {Null}) /\ Elements(<<>>) = {} /\ Distinct(<<>>)
      BY DEF Elements, Distinct
    <2>2. "LiteralInt32" \in NodeKind
      BY DEF NodeKind
    <2> QED
      BY <1>2, <2>1, <2>2, NewFromClient DEF MakeLeaf
  <1>3. ASSUME NEW e \in Movable, MakeReturn(a, e) \/ MakeFunction(a, e)
        PROVE  HeapInv' /\ WholeTreesDie
    <2>1. /\ <<e>> \in Seq(Address \cup {Null}) /\ Elements(<<e>>) = {e} /\ {e} \subseteq Movable
          /\ Distinct(<<e>>)
      BY <1>1 DEF Elements, Distinct
    <2>2. "Return" \in NodeKind /\ "Function" \in NodeKind
      BY DEF NodeKind
    <2> QED
      BY <1>3, <2>1, <2>2, NewFromClient DEF MakeReturn, MakeFunction
  <1>4. ASSUME NEW l \in Movable, NEW r \in Movable, MakeBinary(a, l, r)
        PROVE  HeapInv' /\ WholeTreesDie
    <2>1. /\ <<l, r>> \in Seq(Address \cup {Null})
          /\ Elements(<<l, r>>) = {l, r} /\ {l, r} \subseteq Movable
          /\ Distinct(<<l, r>>)
      BY <1>1, <1>4 DEF Elements, MakeBinary
    <2>2. "Binary" \in NodeKind
      BY DEF NodeKind
    <2> QED
      BY <1>4, <2>1, <2>2, NewFromClient DEF MakeBinary
  <1>5. ASSUME NEW c \in Movable, NEW t \in Movable, NEW f \in Movable,
               MakeConditional(a, c, t, f)
        PROVE  HeapInv' /\ WholeTreesDie
    <2>1. /\ <<c, t, f>> \in Seq(Address \cup {Null})
          /\ Elements(<<c, t, f>>) = {c, t, f} /\ {c, t, f} \subseteq Movable
          /\ Distinct(<<c, t, f>>)
      BY <1>1, <1>5 DEF Elements, MakeConditional
    <2>2. "Conditional" \in NodeKind
      BY DEF NodeKind
    <2> QED
      BY <1>5, <2>1, <2>2, NewFromClient DEF MakeConditional
  <1>6. ASSUME NEW b \in BlockBuilder, BuildBlock(a, b)
        PROVE  HeapInv' /\ WholeTreesDie
    <2>1. b \in Builder /\ Built(b).kids = pending[b]
      BY DEF Builder, Built
    <2>2. Built(b) \in Cell
      BY <1>1, BuiltCell
    <2> QED
      BY <1>6, <2>1, <2>2, NewFromBuilder DEF BuildBlock
  <1>7. ASSUME NEW body \in Free, BuildFunction(a, body)
        PROVE  HeapInv' /\ WholeTreesDie
    <2>1. OwnsOK' /\ NothingLeaks'
      BY <1>7, BuildsFunction
    <2>2. /\ Live' = Live \cup {a, body}
          /\ \A n \in Live : heap'[n] = heap[n]
          /\ heap'[body] = Built("function") /\ heap'[a] = Declared(body)
      BY <1>1, <1>7, FunctionHeap
    <2>3. Built("function") \in Cell
      BY <1>1, BuiltCell DEF BlockBuilder
    <2>4. Declared(body) \in Cell
      <3>1. <<body>> \in Seq(Address \cup {Null})
        BY DEF Free
      <3>2. variables["parameters"] \in Scope
        BY <1>1 DEF TypeOK, ScopeBuilder
      <3> QED
        BY <3>1, <3>2, ScopesGrow DEF Declared, Cell, NodeKind
    <2>5. Live' \subseteq Address
      BY <1>1, <2>2 DEF TypeOK, Free
    <2>6. heap' \in [Live' -> Cell]
      <3>1. heap' = [n \in Live' |-> heap'[n]]
        BY <1>7 DEF BuildFunction, Live
      <3>2. \A n \in Live' : heap'[n] \in Cell
        BY <1>1, <2>2, <2>3, <2>4 DEF TypeOK
      <3> QED
        BY <3>1, <3>2
    <2>7. TypeOK'
      BY <1>1, <1>7, <2>1, <2>5, <2>6, EmptiedTypes DEF TypeOK, OwnsOK, BuildFunction, MovedFrom
    <2> QED
      BY <2>1, <2>2, <2>7, NothingDies DEF HeapInv
  <1>8. CASE BuildModule(a)
    <2>1. "module" \in Builder /\ pending["module"] \in Seq(Address \cup {Null})
      BY <1>1 DEF Builder, TypeOK
    <2>2. /\ Plain("Module", pending["module"]) \in Cell
          /\ Plain("Module", pending["module"]).kids = pending["module"]
      BY <2>1, PlainCell DEF NodeKind, Plain
    <2> QED
      BY <1>8, <2>1, <2>2, NewFromBuilder DEF BuildModule
  <1> QED
    BY <1>2, <1>3, <1>4, <1>5, <1>6, <1>7, <1>8 DEF Construct

LEMMA CollectStep ==
    ASSUME HeapInv, Collect, UNCHANGED <<shared, intact>>
    PROVE  HeapInv' /\ WholeTreesDie
  <1>1. TypeOK
    BY DEF HeapInv
  <1>2. ASSUME NEW b \in ScopeBuilder, NEW x \in Name, NEW type \in VariableType,
               AddVariable(b, x, type)
        PROVE  HeapInv' /\ WholeTreesDie
    <2>1. UNCHANGED <<heap, client, pending>>
      BY <1>2 DEF AddVariable
    <2>2. OwnsOK'
      BY <2>1 DEF HeapInv, OwnsOK, Owns, Owner, Content, Live
    <2>3. NothingLeaks'
      BY <2>1 DEF HeapInv, NothingLeaks, Subtrees, Closed, Roots, Live
    <2>4. type \in DataType
      BY BuildersAssumption
    <2>5. variables' \in [ScopeBuilder -> Scope]
      <3> DEFINE grown == [y \in DOMAIN variables[b] \cup {x} |->
                              IF y \in DOMAIN variables[b] THEN variables[b][y] ELSE type]
      <3>1. grown \in Scope
        <4>1. variables[b] \in Scope
          BY <1>1 DEF TypeOK
        <4> QED
          BY <2>4, <4>1, ScopesGrow
      <3>2. variables' = [variables EXCEPT ![b] = grown]
        BY <1>2 DEF AddVariable
      <3> HIDE DEF grown
      <3> QED
        BY <1>1, <3>1, <3>2 DEF TypeOK
    <2>6. given' \in [ScopeBuilder -> SUBSET (Name \X DataType)]
      <3>1. given[b] \cup {<<x, type>>} \in SUBSET (Name \X DataType)
        BY <1>1, <2>4 DEF TypeOK
      <3>2. given' = [given EXCEPT ![b] = given[b] \cup {<<x, type>>}]
        BY <1>2 DEF AddVariable
      <3> QED
        BY <1>1, <3>1, <3>2 DEF TypeOK
    <2>7. TypeOK'
      BY <1>1, <2>1, <2>5, <2>6 DEF TypeOK, Live
    <2>8. Live \subseteq Live'
      BY <2>1 DEF Live
    <2> QED
      BY <2>2, <2>3, <2>7, <2>8, NothingDies DEF HeapInv
  <1>3. ASSUME NEW b \in Builder, NEW n \in Movable, Add(b, n)
        PROVE  HeapInv' /\ WholeTreesDie
    <2>1. OwnsOK' /\ NothingLeaks'
      <3>1. n \in Live \cup {Null}
        BY DEF Movable, HeapInv, OwnsOK
      <3> QED
        BY <1>3, <3>1, Adds DEF Add
    <2>2. /\ UNCHANGED <<heap, variables, given>>
          /\ client' \subseteq client
          /\ pending' = [pending EXCEPT ![b] = Append(pending[b], n)]
      BY <1>3 DEF Add
    <2>3. Append(pending[b], n) \in Seq(Address \cup {Null})
      <3>1. pending[b] \in Seq(Address \cup {Null}) /\ n \in Address \cup {Null}
        BY <1>1 DEF TypeOK, Movable
      <3> QED
        BY <3>1
    <2>4. pending' \in [Builder -> Seq(Address \cup {Null})]
      BY <1>1, <2>2, <2>3 DEF TypeOK
    <2>5. TypeOK'
      BY <1>1, <2>2, <2>4 DEF TypeOK, Live
    <2>6. Live \subseteq Live'
      BY <2>2 DEF Live
    <2> QED
      BY <2>1, <2>5, <2>6, NothingDies DEF HeapInv
  <1> QED
    BY <1>2, <1>3 DEF Collect, AddExpression, AddFunction, Builder

LEMMA PointerStep ==
    ASSUME HeapInv, NEW f \in Live, AddFunctionPointer(f)
    PROVE  HeapInv' /\ WholeTreesDie
  <1>1. /\ TypeOK /\ f # Null /\ f \in Address /\ "module" \in Builder
        /\ UNCHANGED <<heap, client, variables, given, intact>>
        /\ shared' = shared \cup {f}
        /\ pending' = [pending EXCEPT !["module"] = Append(@, f)]
    BY LiveNodes DEF HeapInv, AddFunctionPointer, Builder
  <1>2. OwnsOK' /\ NothingLeaks'
    BY <1>1, Adds
  <1>3. pending' \in [Builder -> Seq(Address \cup {Null})]
    <2>1. Append(pending["module"], f) \in Seq(Address \cup {Null})
      BY <1>1 DEF TypeOK
    <2> QED
      BY <1>1, <2>1 DEF TypeOK
  <1>4. TypeOK'
    BY <1>1, <1>3 DEF TypeOK, Live
  <1>5. Live \subseteq Live'
    BY <1>1 DEF Live
  <1> QED
    BY <1>2, <1>4, <1>5, NothingDies DEF HeapInv

LEMMA DiscardStep ==
    ASSUME HeapInv, Discard, UNCHANGED <<shared, intact>>
    PROVE  HeapInv' /\ WholeTreesDie
  <1>1. TypeOK /\ OneOwner
    BY OwnsOnce DEF HeapInv
  <1>2. ASSUME NEW R, R \subseteq Movable, Delete(R), client' = client \ R,
               UNCHANGED <<pending, variables, given>>
        PROVE  HeapInv' /\ WholeTreesDie
    <2>0. (R \ {Null}) \cap shared = {}
      <3>1. R \ {Null} \subseteq Live
        BY <1>2 DEF Movable, HeapInv, OwnsOK
      <3> QED
        BY <1>2, <3>1, DeletesUnshared
    <2>1. \A b \in Builder : \A i \in DOMAIN pending'[b] : pending'[b][i] \in R => pending'[b][i] = Null
      BY <1>1, <1>2, <2>0, LiveNodes DEF OneOwner, OwnedOnce, Movable, Owner, Content
    <2>2. R \ {Null} \subseteq client
      BY <1>2 DEF Movable
    <2>3. R \ {Null} \subseteq Roots /\ Roots \ {Null} \subseteq Roots' \cup R
      BY <1>2, <2>2 DEF Roots
    <2>4. OwnsOK' /\ NothingLeaks' /\ WholeTreesDie
      BY <1>2, <2>1, <2>2, <2>3, Deletes
    <2>5. Live' \subseteq Address /\ heap' \in [Live' -> Cell]
      BY <1>1, <1>2, DeletesCells
    <2>6. TypeOK'
      BY <1>1, <1>2, <2>4, <2>5 DEF TypeOK, OwnsOK
    <2> QED
      BY <2>4, <2>6 DEF HeapInv
  <1>3. ASSUME NEW b \in Builder, DestroyBuilder(b)
        PROVE  HeapInv' /\ WholeTreesDie
    <2> DEFINE R == Elements(pending[b])
    <2>1. Delete(R) /\ client' = client
      BY <1>3 DEF DestroyBuilder
    <2>2. \A c \in Builder : pending'[c] = IF c = b THEN <<>> ELSE pending[c]
      <3>1. "parameters" \notin Builder
        BY DEF Builder, BlockBuilder
      <3> QED
        BY <1>3, <3>1 DEF DestroyBuilder, Emptied
    <2>0. (R \ {Null}) \cap shared = {}
      BY <1>1, <2>1, KidsLive, DeletesUnshared DEF HeapInv
    <2>3. client' = client \ R
      BY <1>1, <2>0, <2>1, LiveNodes DEF OneOwner, OwnedOnce, Elements
    <2>4. ASSUME NEW c \in Builder, NEW i \in DOMAIN pending'[c], pending'[c][i] \in R
          PROVE  pending'[c][i] = Null
      <3>1. DOMAIN <<>> = {}
        OBVIOUS
      <3>2. c # b /\ pending'[c] = pending[c]
        BY <2>2, <2>4, <3>1
      <3>3. PICK j \in DOMAIN pending[b] : pending[c][i] = pending[b][j]
        BY <2>4, <3>2 DEF Elements
      <3> QED
        BY <1>1, <2>0, <2>4, <3>2, <3>3, LiveNodes DEF OneOwner, OwnedOnce
    <2>5. R \subseteq Roots
      BY DEF Roots
    <2>6. Roots \ {Null} \subseteq Roots' \cup R
      <3>1. \A c \in Builder : Elements(pending[c]) \subseteq Elements(pending'[c]) \cup R
        BY <2>2
      <3>2. \A c \in Builder : Elements(pending'[c]) \subseteq Roots'
        BY DEF Roots, Elements
      <3> HIDE DEF R
      <3> QED
        BY <2>1, <3>1, <3>2 DEF Roots
    <2>7. \A m \in R : \E c \in Builder : m \in Elements(pending[c])
      OBVIOUS
    <2> HIDE DEF R
    <2>8. OwnsOK' /\ NothingLeaks' /\ WholeTreesDie
      BY <2>1, <2>2, <2>3, <2>4, <2>5, <2>6, <2>7, Deletes
    <2>9. Live' \subseteq Address /\ heap' \in [Live' -> Cell]
      BY <1>1, <2>1, DeletesCells
    <2>10. TypeOK'
      BY <1>1, <1>3, <2>8, <2>9, EmptiedTypes DEF TypeOK, OwnsOK, DestroyBuilder
    <2> QED
      BY <2>8, <2>10 DEF HeapInv
  <1>4. ASSUME NEW n \in client, Destroy(n)
        PROVE  HeapInv' /\ WholeTreesDie
    BY <1>2, <1>4 DEF Destroy, Movable
  <1>5. ASSUME NEW t \in Movable, NEW f \in Movable, MakeConditionalThrows(t, f)
        PROVE  HeapInv' /\ WholeTreesDie
    BY <1>2, <1>5 DEF MakeConditionalThrows
  <1> QED
    BY <1>3, <1>4, <1>5 DEF Discard

-----------------------------------------------------------------------------
(* Theorems                                                                *)

LEMMA HeapInitially == Init => HeapInv
  <1> SUFFICES ASSUME Init
               PROVE  HeapInv
    OBVIOUS
  <1>1. Live = {} /\ client = {}
    BY DEF Init, Live
  <1>2. /\ pending = [b \in Builder |-> <<>>]
        /\ variables = [b \in ScopeBuilder |-> Empty]
        /\ given = [b \in ScopeBuilder |-> {}]
        /\ shared = {} /\ intact = TRUE
    BY DEF Init
  <1>3. <<>> \in Seq(Address \cup {Null}) /\ DOMAIN <<>> = {}
    OBVIOUS
  <1>4. heap \in [Live -> Cell]
    BY <1>1 DEF Init, Live
  <1>5. TypeOK
    BY <1>1, <1>2, <1>3, <1>4, ScopesGrow DEF TypeOK
  <1>6. \A o, i, n : ~ Owns(o, i, n)
    BY <1>1, <1>2, <1>3 DEF Owns, Owner, Content
  <1>7. OwnsOK
    BY <1>1, <1>2, <1>6 DEF OwnsOK
  <1>8. NothingLeaks
    BY <1>1 DEF NothingLeaks, Subtrees
  <1> QED
    BY <1>5, <1>7, <1>8 DEF HeapInv

LEMMA HeapStep == HeapInv /\ [Next]_vars => HeapInv' /\ [WholeTreesDie]_vars
  <1> SUFFICES ASSUME HeapInv, [Next]_vars
               PROVE  HeapInv' /\ [WholeTreesDie]_vars
    OBVIOUS
  <1>1. CASE UNCHANGED vars
    BY <1>1 DEF HeapInv, TypeOK, OwnsOK, NothingLeaks, vars, Owns, Owner, Content, Live,
                Subtrees, Closed, Roots
  <1>2. CASE Operation /\ UNCHANGED <<shared, intact>>
    BY <1>2, ConstructStep, CollectStep, DiscardStep DEF Operation
  <1>3. ASSUME NEW f \in Live, AddFunctionPointer(f)
        PROVE  HeapInv' /\ WholeTreesDie
    BY <1>3, PointerStep
  <1>4. CASE FreesShared
    <2>1. /\ UNCHANGED <<heap, client, pending, variables, given, shared>>
          /\ intact' = FALSE
      BY <1>4 DEF FreesShared
    <2>2. HeapInv'
      <3>1. TypeOK'
        BY <2>1 DEF HeapInv, TypeOK, Live
      <3>2. OwnsOK'
        BY <2>1 DEF HeapInv, OwnsOK, Owns, Owner, Content, Live
      <3>3. NothingLeaks'
        BY <2>1 DEF HeapInv, NothingLeaks, Subtrees, Closed, Roots, Live
      <3> QED
        BY <3>1, <3>2, <3>3 DEF HeapInv
    <2>3. Live \subseteq Live'
      BY <2>1 DEF Live
    <2> QED
      BY <2>2, <2>3, NothingDies
  <1> QED
    BY <1>1, <1>2, <1>3, <1>4 DEF Next

(***************************************************************************)
(* The invariant holds whatever a client does with constructors, builders  *)
(* and the nodes it owns.                                                  *)
(***************************************************************************)
THEOREM HeapInvariant == Spec => []HeapInv
  BY HeapInitially, HeapStep, PTL DEF Spec

(***************************************************************************)
(* The members of nodes and builders have their declared types.            *)
(***************************************************************************)
THEOREM BuilderTypeCorrect == Spec => []TypeOK
  BY HeapInvariant, PTL DEF HeapInv

(***************************************************************************)
(* No owner's pointer dangles, and no node is ever owned twice that the    *)
(* client did not itself hand over while it was owned.                     *)
(***************************************************************************)
THEOREM OwnershipCorrect == Spec => []OneOwner
  BY HeapInvariant, OwnsOnce, PTL DEF HeapInv

(***************************************************************************)
(* No node leaks, and no node owns itself, directly or not.                *)
(***************************************************************************)
THEOREM NothingIsLeaked == Spec => []NothingLeaks
  BY HeapInvariant, PTL DEF HeapInv

(***************************************************************************)
(* Destruction takes a node and all of its descendants, and nothing else.  *)
(***************************************************************************)
THEOREM DestructionCorrect == Spec => DestroysDescendants
  BY HeapInvariant, HeapStep, PTL DEF Spec, DestroysDescendants

-----------------------------------------------------------------------------
(* Trees laid out                                                          *)

Places == Address \cup {Null}

(***************************************************************************)
(* The nodes of a list of pointers, and a set that nothing in it points    *)
(* out of.                                                                 *)
(***************************************************************************)
Holds(ks) == Elements(ks) \ {Null}

Whole(h, S) == \A n \in S : Holds(h[n].kids) \subseteq S

(***************************************************************************)
(* The trees of ks take the positions lo .. hi, one after the other: the   *)
(* i-th begins at start[i], behind the last position used before.          *)
(***************************************************************************)
Row(ks, pos, last, lo, hi) ==
    \E start \in [1 .. (Len(ks) + 1) -> Nat] :
       /\ start[Len(ks) + 1] = hi + 1
       /\ \A i \in 1 .. (Len(ks) + 1) :
             /\ lo <= start[i]
             /\ start[i] = lo \/ \E j \in 1 .. (i - 1) :
                                    ks[j] # Null /\ start[i] = last[ks[j]] + 1
             /\ \A j \in 1 .. (i - 1) : ks[j] # Null => last[ks[j]] < start[i]
       /\ \A i \in 1 .. Len(ks) : ks[i] # Null => pos[ks[i]] = start[i]

TypeOfKid(type, k) == IF k = Null THEN Undefined ELSE type[k]

(***************************************************************************)
(* dataType(), for the nodes made here.                                    *)
(***************************************************************************)
Typed(h, type, n) ==
    LET kind == h[n].kind
        kids == h[n].kids
    IN
    /\ kind \in {"LiteralInt32", "Function"} => type[n] = "Int32"
    /\ kind = "Module" => type[n] = "Void"
    /\ kind = "Binary" => type[n] = TypeOfKid(type, kids[2])
    /\ kind = "Return" => type[n] = TypeOfKid(type, kids[1])
    /\ kind = "Block"  => type[n] = IF kids = <<>> THEN Undefined
                                    ELSE TypeOfKid(type, kids[Len(kids)])
    /\ kind = "Conditional" =>
          type[n] = IF kids[2] # Null THEN TypeOfKid(type, kids[2])
                    ELSE IF kids[3] = Null THEN "Void" ELSE TypeOfKid(type, kids[3])

(***************************************************************************)
(* S are the nodes of the trees of ks, and nothing else; pos, last and     *)
(* type lay them out from position 1 on.                                   *)
(***************************************************************************)
Forest(h, S, ks, pos, last, type, size) ==
    /\ S \subseteq DOMAIN h /\ Holds(ks) \subseteq S /\ Whole(h, S)
    /\ pos \in [S -> 1 .. size] /\ last \in [S -> 1 .. size] /\ type \in [S -> NodeType]
    /\ \A m, n \in S : pos[m] = pos[n] => m = n
    /\ \A p \in 1 .. size : \E n \in S : pos[n] = p
    /\ Row(ks, pos, last, 1, size)
    /\ \A n \in S : Row(h[n].kids, pos, last, pos[n] + 1, last[n]) /\ Typed(h, type, n)
    /\ \A T \in SUBSET S : Holds(ks) \subseteq T /\ Whole(h, T) => S \subseteq T

IsForest(h, ks) ==
    \E S \in SUBSET DOMAIN h, size \in Nat : \E pos, last, type :
       Forest(h, S, ks, pos, last, type, size)

(***************************************************************************)
(* A heap, as far as its shape matters.                                    *)
(***************************************************************************)
MadeKind == {"LiteralInt32", "Return", "Binary", "Conditional", "Function", "Block", "Module"}

Shaped(cell) ==
    /\ cell.kind \in MadeKind
    /\ cell.kids \in Seq(Places)
    /\ cell.kind = "LiteralInt32" => cell.kids = <<>>
    /\ cell.kind \in {"Return", "Function"} => Len(cell.kids) = 1
    /\ cell.kind = "Binary" => Len(cell.kids) = 2
    /\ cell.kind = "Conditional" => Len(cell.kids) = 3 /\ cell.kids[1] # Null

IsHeap(h) == DOMAIN h \subseteq Address /\ \A n \in DOMAIN h : Shaped(h[n])

LEMMA HoldsOf ==
    ASSUME NEW ks \in Seq(Places)
    PROVE  /\ DOMAIN ks = 1 .. Len(ks) /\ Len(ks) \in Nat
           /\ \A i \in 1 .. Len(ks) : ks[i] # Null => ks[i] \in Holds(ks)
           /\ \A k \in Holds(ks) : k # Null /\ \E i \in 1 .. Len(ks) : ks[i] = k
  BY DEF Holds, Elements

LEMMA RowBounds ==
    ASSUME NEW ks \in Seq(Places), NEW pos, NEW last, NEW lo \in Nat, NEW hi \in Nat,
           Row(ks, pos, last, lo, hi)
    PROVE  /\ lo <= hi + 1
           /\ \A k \in Holds(ks) : pos[k] \in Nat /\ lo <= pos[k] /\ last[k] < hi + 1
  <1>1. PICK start \in [1 .. (Len(ks) + 1) -> Nat] :
           /\ start[Len(ks) + 1] = hi + 1
           /\ \A i \in 1 .. (Len(ks) + 1) :
                 /\ lo <= start[i]
                 /\ \A j \in 1 .. (i - 1) : ks[j] # Null => last[ks[j]] < start[i]
           /\ \A i \in 1 .. Len(ks) : ks[i] # Null => pos[ks[i]] = start[i]
    BY DEF Row
  <1>2. Len(ks) \in Nat /\ Len(ks) + 1 \in 1 .. (Len(ks) + 1)
    BY HoldsOf
  <1>3. ASSUME NEW k \in Holds(ks)
        PROVE  pos[k] \in Nat /\ lo <= pos[k] /\ last[k] < hi + 1
    <2>1. PICK i \in 1 .. Len(ks) : ks[i] = k /\ k # Null
      BY HoldsOf
    <2>2. i \in 1 .. (Len(ks) + 1) /\ i \in 1 .. (Len(ks) + 1 - 1)
      BY <1>2
    <2>3. pos[k] = start[i] /\ start[i] \in Nat
      BY <1>1, <2>1, <2>2
    <2> QED
      BY <1>1, <1>2, <2>1, <2>2, <2>3
  <1> QED
    BY <1>1, <1>2, <1>3

(***************************************************************************)
(* The layout pos2, last2 of the trees of ks is pos, last, d places later. *)
(***************************************************************************)
Shifted(ks, pos, last, pos2, last2, d) ==
    \A k \in Holds(ks) : /\ last[k] \in Nat
                         /\ pos2[k] = pos[k] + d /\ last2[k] = last[k] + d

LEMMA RowShifts ==
    ASSUME NEW ks \in Seq(Places), NEW pos, NEW last, NEW lo \in Nat, NEW hi \in Nat,
           Row(ks, pos, last, lo, hi),
           NEW d \in Nat, NEW pos2, NEW last2, Shifted(ks, pos, last, pos2, last2, d),
           NEW lo2 \in Nat, NEW hi2 \in Nat, lo2 = lo + d, hi2 = hi + d
    PROVE  Row(ks, pos2, last2, lo2, hi2)
  <1>1. PICK start \in [1 .. (Len(ks) + 1) -> Nat] :
           /\ start[Len(ks) + 1] = hi + 1
           /\ \A i \in 1 .. (Len(ks) + 1) :
                 /\ lo <= start[i]
                 /\ start[i] = lo \/ \E j \in 1 .. (i - 1) :
                                        ks[j] # Null /\ start[i] = last[ks[j]] + 1
                 /\ \A j \in 1 .. (i - 1) : ks[j] # Null => last[ks[j]] < start[i]
           /\ \A i \in 1 .. Len(ks) : ks[i] # Null => pos[ks[i]] = start[i]
    BY DEF Row
  <1> DEFINE L     == Len(ks)
             moved == [i \in 1 .. (L + 1) |-> start[i] + d]
  <1>2. /\ L \in Nat /\ moved \in [1 .. (L + 1) -> Nat]
        /\ \A i \in 1 .. (L + 1) : moved[i] = start[i] + d /\ start[i] \in Nat
    BY HoldsOf
  <1>3. ASSUME NEW i \in 1 .. L, ks[i] # Null
        PROVE  /\ last[ks[i]] \in Nat
               /\ pos2[ks[i]] = pos[ks[i]] + d /\ last2[ks[i]] = last[ks[i]] + d
    <2>1. ks[i] \in Holds(ks)
      BY <1>3, HoldsOf
    <2> QED
      BY <2>1 DEF Shifted
  <1>4. /\ start[L + 1] = hi + 1
        /\ \A i \in 1 .. (L + 1) :
              /\ lo <= start[i]
              /\ start[i] = lo \/ \E j \in 1 .. (i - 1) :
                                     ks[j] # Null /\ start[i] = last[ks[j]] + 1
              /\ \A j \in 1 .. (i - 1) : ks[j] # Null => last[ks[j]] < start[i]
        /\ \A i \in 1 .. L : ks[i] # Null => pos[ks[i]] = start[i]
    BY <1>1
  <1> HIDE DEF L, moved
  <1>5. moved[L + 1] = hi + d + 1
    <2>1. L + 1 \in 1 .. (L + 1)
      BY <1>2
    <2>2. moved[L + 1] = start[L + 1] + d
      BY <1>2, <2>1
    <2>3. start[L + 1] = hi + 1
      BY <1>4
    <2>4. hi + 1 + d = hi + d + 1
      OBVIOUS
    <2> QED
      BY <2>2, <2>3, <2>4
  <1>6. ASSUME NEW i \in 1 .. (L + 1)
        PROVE  /\ lo + d <= moved[i]
               /\ moved[i] = lo + d \/ \E j \in 1 .. (i - 1) :
                                          ks[j] # Null /\ moved[i] = last2[ks[j]] + 1
               /\ \A j \in 1 .. (i - 1) : ks[j] # Null => last2[ks[j]] < moved[i]
    <2>1. moved[i] = start[i] + d /\ start[i] \in Nat
      BY <1>2
    <2>2. \A j \in 1 .. (i - 1) : j \in 1 .. L
      BY <1>2
    <2>3. ASSUME NEW j \in 1 .. (i - 1), ks[j] # Null
          PROVE  last2[ks[j]] < moved[i]
      <3> DEFINE e == last[ks[j]]
      <3>1. e \in Nat /\ last2[ks[j]] = e + d
        BY <1>3, <2>2, <2>3
      <3>2. e < start[i]
        BY <1>4, <2>3
      <3> HIDE DEF e
      <3> QED
        BY <2>1, <3>1, <3>2
    <2>4. start[i] = lo \/ \E j \in 1 .. (i - 1) : ks[j] # Null /\ start[i] = last[ks[j]] + 1
      BY <1>4
    <2>5. ASSUME NEW j \in 1 .. (i - 1), ks[j] # Null, start[i] = last[ks[j]] + 1
          PROVE  moved[i] = last2[ks[j]] + 1
      <3> DEFINE e == last[ks[j]]
      <3>1. e \in Nat /\ last2[ks[j]] = e + d
        BY <1>3, <2>2, <2>5
      <3>2. start[i] = e + 1
        BY <2>5
      <3> HIDE DEF e
      <3> QED
        BY <2>1, <3>1, <3>2
    <2>6. lo + d <= moved[i]
      BY <1>4, <2>1
    <2> QED
      BY <2>1, <2>3, <2>4, <2>5, <2>6
  <1>7. ASSUME NEW i \in 1 .. L, ks[i] # Null
        PROVE  pos2[ks[i]] = moved[i]
    <2>1. pos2[ks[i]] = pos[ks[i]] + d
      BY <1>3, <1>7
    <2>2. pos[ks[i]] = start[i]
      BY <1>4, <1>7
    <2>3. moved[i] = start[i] + d
      BY <1>2, <1>7
    <2> QED
      BY <2>1, <2>2, <2>3
  <1>8. /\ moved \in [1 .. (Len(ks) + 1) -> Nat]
        /\ moved[Len(ks) + 1] = hi + d + 1
        /\ \A i \in 1 .. (Len(ks) + 1) :
              /\ lo + d <= moved[i]
              /\ moved[i] = lo + d \/ \E j \in 1 .. (i - 1) :
                                          ks[j] # Null /\ moved[i] = last2[ks[j]] + 1
              /\ \A j \in 1 .. (i - 1) : ks[j] # Null => last2[ks[j]] < moved[i]
        /\ \A i \in 1 .. Len(ks) : ks[i] # Null => pos2[ks[i]] = moved[i]
    BY <1>2, <1>5, <1>6, <1>7 DEF L
  <1>9. Row(ks, pos2, last2, lo + d, hi + d)
    BY <1>8 DEF Row
  <1> QED
    BY <1>9

LEMMA RowEmpty ==
    ASSUME NEW pos, NEW last
    PROVE  Row(<<>>, pos, last, 1, 0)
  <1> DEFINE start == [i \in 1 .. 1 |-> 1]
  <1>1. /\ start \in [1 .. 1 -> Nat] /\ Len(<<>>) + 1 = 1 /\ Len(<<>>) = 0
        /\ start[1] = 0 + 1 /\ start[1] = 1 /\ \A i \in 1 .. 1 : i = 1
    OBVIOUS
  <1> HIDE DEF start
  <1>2. /\ start[Len(<<>>) + 1] = 0 + 1
        /\ \A i \in 1 .. (Len(<<>>) + 1) :
              1 <= start[i] /\ start[i] = 1 /\ 1 .. (i - 1) = {}
        /\ 1 .. Len(<<>>) = {}
    BY <1>1
  <1>3. start \in [1 .. (Len(<<>>) + 1) -> Nat]
    BY <1>1
  <1> QED
    BY <1>2, <1>3 DEF Row

(***************************************************************************)
(* One more tree, or a null pointer.                                       *)
(***************************************************************************)
LEMMA RowAppends ==
    ASSUME NEW ks \in Seq(Places), NEW pos, NEW last, NEW lo \in Nat, NEW hi \in Nat,
           Row(ks, pos, last, lo, hi), \A k \in Holds(ks) : last[k] \in Nat,
           NEW n \in Places, NEW new \in Nat,
           IF n = Null THEN new = hi
           ELSE pos[n] = hi + 1 /\ last[n] = new /\ hi < new
    PROVE  Row(Append(ks, n), pos, last, lo, new)
  <1>1. PICK start \in [1 .. (Len(ks) + 1) -> Nat] :
           /\ start[Len(ks) + 1] = hi + 1
           /\ \A i \in 1 .. (Len(ks) + 1) :
                 /\ lo <= start[i]
                 /\ start[i] = lo \/ \E j \in 1 .. (i - 1) :
                                        ks[j] # Null /\ start[i] = last[ks[j]] + 1
                 /\ \A j \in 1 .. (i - 1) : ks[j] # Null => last[ks[j]] < start[i]
           /\ \A i \in 1 .. Len(ks) : ks[i] # Null => pos[ks[i]] = start[i]
    BY DEF Row
  <1> DEFINE L    == Len(ks)
             more == Append(ks, n)
             then == [i \in 1 .. (L + 2) |-> IF i = L + 2 THEN new + 1 ELSE start[i]]
  <1>2. /\ L \in Nat /\ Len(more) = L + 1
        /\ \A i \in 1 .. L : more[i] = ks[i]
        /\ more[L + 1] = n
    BY HoldsOf
  <1>3. /\ then \in [1 .. (L + 2) -> Nat] /\ then[L + 2] = new + 1
        /\ \A i \in 1 .. (L + 1) : then[i] = start[i]
    BY <1>2
  <1>4. \A i \in 1 .. L : ks[i] # Null => last[ks[i]] \in Nat /\ last[ks[i]] < hi + 1
    <2>1. \A i \in 1 .. L : i \in 1 .. ((L + 1) - 1) /\ L + 1 \in 1 .. (L + 1)
      BY <1>2
    <2> QED
      BY <1>1, <2>1, HoldsOf
  <1> HIDE DEF L, more, then
  <1>5. ASSUME NEW i \in 1 .. (L + 2)
        PROVE  /\ lo <= then[i]
               /\ then[i] = lo \/ \E j \in 1 .. (i - 1) :
                                     more[j] # Null /\ then[i] = last[more[j]] + 1
               /\ \A j \in 1 .. (i - 1) : more[j] # Null => last[more[j]] < then[i]
    <2>1. CASE i \in 1 .. (L + 1)
      <3>1. \A j \in 1 .. (i - 1) : more[j] = ks[j] /\ then[i] = start[i]
        BY <1>2, <1>3, <2>1
      <3>2. then[i] = start[i]
        BY <1>3, <2>1
      <3>3. L + 1 = Len(ks) + 1
        BY DEF L
      <3> QED
        BY <1>1, <2>1, <3>1, <3>2, <3>3
    <2>2. CASE i = L + 2
      <3>1. then[i] = new + 1 /\ i - 1 = L + 1 /\ start[L + 1] = hi + 1 /\ lo <= hi + 1
        BY <1>1, <1>2, <1>3, <2>2 DEF L
      <3>2. \A j \in 1 .. (L + 1) : j = L + 1 \/ (j \in 1 .. L /\ more[j] = ks[j])
        BY <1>2
      <3>3. \A j \in 1 .. (i - 1) : more[j] # Null => last[more[j]] < then[i]
        BY <1>2, <1>4, <3>1, <3>2, SMTT(30)
      <3>4. CASE n = Null
        <4>1. then[i] = start[L + 1] /\ L + 1 \in 1 .. (Len(ks) + 1)
          BY <1>1, <1>2, <3>1, <3>4 DEF L
        <4>2. then[i] = lo \/ \E j \in 1 .. L : ks[j] # Null /\ then[i] = last[ks[j]] + 1
          BY <1>1, <1>2, <4>1, SMTT(30)
        <4>3. \A j \in 1 .. L : j \in 1 .. (i - 1) /\ more[j] = ks[j]
          BY <1>2, <3>1
        <4> QED
          BY <3>1, <3>3, <4>2, <4>3, <3>4
      <3>5. CASE n # Null
        <4>1. L + 1 \in 1 .. (i - 1) /\ more[L + 1] # Null /\ then[i] = last[more[L + 1]] + 1
          BY <1>2, <3>1, <3>5
        <4> QED
          BY <3>1, <3>3, <3>5, <4>1
      <3> QED
        BY <3>4, <3>5
    <2> QED
      BY <1>2, <2>1, <2>2
  <1>6. \A i \in 1 .. (L + 1) : more[i] # Null => pos[more[i]] = then[i]
    <2>1. ASSUME NEW i \in 1 .. (L + 1), more[i] # Null
          PROVE  pos[more[i]] = then[i]
      <3>1. CASE i \in 1 .. L
        BY <1>1, <1>2, <1>3, <2>1, <3>1 DEF L
      <3>2. CASE i = L + 1
        BY <1>1, <1>2, <1>3, <2>1, <3>2 DEF L
      <3> QED
        BY <1>2, <3>1, <3>2
    <2> QED
      BY <2>1
  <1>7. Len(more) + 1 = L + 2 /\ Len(more) = L + 1
    BY <1>2
  <1>8. Row(more, pos, last, lo, new)
    BY <1>3, <1>5, <1>6, <1>7, ZenonT(30) DEF Row
  <1> QED
    BY <1>8 DEF more

(***************************************************************************)
(* A tree takes the whole row it is alone in.                              *)
(***************************************************************************)
LEMMA RowOne ==
    ASSUME NEW n \in Address, n # Null, NEW pos, NEW last, NEW lo \in Nat, NEW hi \in Nat,
           Row(<<n>>, pos, last, lo, hi), last[n] \in Nat, lo <= last[n]
    PROVE  pos[n] = lo /\ last[n] = hi
  <1>1. Len(<<n>>) = 1 /\ <<n>>[1] = n /\ 1 + 1 = 2
    OBVIOUS
  <1>2. PICK start \in [1 .. 2 -> Nat] :
           /\ start[2] = hi + 1
           /\ \A i \in 1 .. 2 :
                 /\ lo <= start[i]
                 /\ start[i] = lo \/ \E j \in 1 .. (i - 1) :
                                        <<n>>[j] # Null /\ start[i] = last[<<n>>[j]] + 1
                 /\ \A j \in 1 .. (i - 1) : <<n>>[j] # Null => last[<<n>>[j]] < start[i]
           /\ \A i \in 1 .. 1 : <<n>>[i] # Null => pos[<<n>>[i]] = start[i]
    BY <1>1 DEF Row
  <1>3. 1 \in 1 .. 2 /\ 2 \in 1 .. 2 /\ 1 .. (1 - 1) = {} /\ 1 .. (2 - 1) = {1} /\ 1 .. 1 = {1}
    OBVIOUS
  <1>4. start[1] = lo /\ pos[n] = start[1]
    BY <1>1, <1>2, <1>3
  <1>5. last[n] < start[2]
    BY <1>1, <1>2, <1>3
  <1>6. start[2] = lo \/ start[2] = last[n] + 1
    BY <1>1, <1>2, <1>3
  <1> QED
    BY <1>2, <1>4, <1>5, <1>6

(***************************************************************************)
(* dataType() depends on the types of the kids only.                       *)
(***************************************************************************)
LEMMA TypedSame ==
    ASSUME NEW h, NEW n \in DOMAIN h, Shaped(h[n]), NEW h2, h2[n] = h[n], NEW type, NEW type2,
           type2[n] = type[n], \A k \in Holds(h[n].kids) : type2[k] = type[k],
           Typed(h, type, n)
    PROVE  Typed(h2, type2, n)
  <1> DEFINE kids == h[n].kids
  <1>1. kids \in Seq(Places) /\ Len(kids) \in Nat /\ DOMAIN kids = 1 .. Len(kids)
    BY HoldsOf DEF Shaped
  <1>2. \A i \in 1 .. Len(kids) : TypeOfKid(type2, kids[i]) = TypeOfKid(type, kids[i])
    BY <1>1, HoldsOf DEF TypeOfKid
  <1>3. h[n].kind = "Binary" => TypeOfKid(type2, kids[2]) = TypeOfKid(type, kids[2])
    BY <1>2 DEF Shaped
  <1>4. h[n].kind = "Return" => TypeOfKid(type2, kids[1]) = TypeOfKid(type, kids[1])
    BY <1>2 DEF Shaped
  <1>5. h[n].kind = "Conditional" =>
           /\ TypeOfKid(type2, kids[2]) = TypeOfKid(type, kids[2])
           /\ TypeOfKid(type2, kids[3]) = TypeOfKid(type, kids[3])
    BY <1>2 DEF Shaped
  <1>6. kids # <<>> => TypeOfKid(type2, kids[Len(kids)]) = TypeOfKid(type, kids[Len(kids)])
    BY <1>1, <1>2
  <1> QED
    BY <1>3, <1>4, <1>5, <1>6 DEF Typed

-----------------------------------------------------------------------------
(* Forests                                                                 *)

LEMMA ForestEmpty ==
    ASSUME NEW h
    PROVE  IsForest(h, <<>>)
  <1> DEFINE none == [n \in {} |-> 0]
  <1>1. Row(<<>>, none, none, 1, 0)
    BY RowEmpty
  <1>2. Holds(<<>>) = {}
    BY DEF Holds, Elements
  <1>3. none \in [{} -> 1 .. 0] /\ none \in [{} -> NodeType] /\ 1 .. 0 = {}
    OBVIOUS
  <1>4. Forest(h, {}, <<>>, none, none, none, 0)
    BY <1>1, <1>2, <1>3 DEF Forest, Whole
  <1>5. {} \in SUBSET DOMAIN h /\ 0 \in Nat
    OBVIOUS
  <1> QED
    BY <1>4, <1>5 DEF IsForest

LEMMA HoldsAppend ==
    ASSUME NEW ks \in Seq(Places), NEW n \in Places
    PROVE  /\ Append(ks, n) \in Seq(Places)
           /\ Holds(Append(ks, n)) = Holds(ks) \cup ({n} \ {Null})
  <1>1. /\ Len(Append(ks, n)) = Len(ks) + 1 /\ Len(ks) \in Nat
        /\ Append(ks, n) \in Seq(Places)
        /\ \A i \in 1 .. Len(ks) : Append(ks, n)[i] = ks[i]
        /\ Append(ks, n)[Len(ks) + 1] = n
    OBVIOUS
  <1>2. DOMAIN ks = 1 .. Len(ks) /\ DOMAIN Append(ks, n) = (1 .. Len(ks)) \cup {Len(ks) + 1}
    BY <1>1
  <1>3. Elements(Append(ks, n)) = Elements(ks) \cup {n}
    BY <1>1, <1>2 DEF Elements
  <1> QED
    BY <1>1, <1>3 DEF Holds

LEMMA ForestNull ==
    ASSUME NEW h, NEW ks \in Seq(Places), IsForest(h, ks)
    PROVE  IsForest(h, Append(ks, Null))
  <1>1. PICK S \in SUBSET DOMAIN h, size \in Nat : \E pos, last, type :
           Forest(h, S, ks, pos, last, type, size)
    BY DEF IsForest
  <1>2. PICK pos, last, type : Forest(h, S, ks, pos, last, type, size)
    BY <1>1
  <1>3. Null \in Places /\ Holds(Append(ks, Null)) = Holds(ks)
    BY HoldsAppend DEF Places
  <1>4. \A k \in Holds(ks) : last[k] \in Nat
    BY <1>2 DEF Forest
  <1>5. Row(ks, pos, last, 1, size)
    BY <1>2 DEF Forest
  <1>6. Row(Append(ks, Null), pos, last, 1, size)
    BY <1>3, <1>4, <1>5, RowAppends
  <1>7. Forest(h, S, Append(ks, Null), pos, last, type, size)
    BY <1>2, <1>3, <1>6 DEF Forest
  <1> QED
    BY <1>7 DEF IsForest

(***************************************************************************)
(* The same row for two layouts that agree on it.                          *)
(***************************************************************************)
LEMMA RowSame ==
    ASSUME NEW ks \in Seq(Places), NEW pos, NEW last, NEW lo \in Nat, NEW hi \in Nat,
           Row(ks, pos, last, lo, hi), NEW pos2, NEW last2,
           \A k \in Holds(ks) : pos2[k] = pos[k] /\ last2[k] = last[k]
    PROVE  Row(ks, pos2, last2, lo, hi)
  <1>1. \A i \in 1 .. Len(ks) : ks[i] # Null => pos2[ks[i]] = pos[ks[i]] /\ last2[ks[i]] = last[ks[i]]
    BY HoldsOf
  <1>2. PICK start \in [1 .. (Len(ks) + 1) -> Nat] :
           /\ start[Len(ks) + 1] = hi + 1
           /\ \A i \in 1 .. (Len(ks) + 1) :
                 /\ lo <= start[i]
                 /\ start[i] = lo \/ \E j \in 1 .. (i - 1) :
                                        ks[j] # Null /\ start[i] = last[ks[j]] + 1
                 /\ \A j \in 1 .. (i - 1) : ks[j] # Null => last[ks[j]] < start[i]
           /\ \A i \in 1 .. Len(ks) : ks[i] # Null => pos[ks[i]] = start[i]
    BY DEF Row
  <1>3. \A i \in 1 .. (Len(ks) + 1) : \A j \in 1 .. (i - 1) : j \in 1 .. Len(ks)
    BY HoldsOf
  <1>4. ASSUME NEW i \in 1 .. (Len(ks) + 1)
        PROVE  /\ lo <= start[i]
               /\ start[i] = lo \/ \E j \in 1 .. (i - 1) :
                                      ks[j] # Null /\ start[i] = last2[ks[j]] + 1
               /\ \A j \in 1 .. (i - 1) : ks[j] # Null => last2[ks[j]] < start[i]
    <2>1. \A j \in 1 .. (i - 1) : ks[j] # Null => last2[ks[j]] = last[ks[j]]
      BY <1>1, <1>3
    <2>2. lo <= start[i]
      BY <1>2
    <2>3. start[i] = lo \/ \E j \in 1 .. (i - 1) : ks[j] # Null /\ start[i] = last[ks[j]] + 1
      BY <1>2
    <2>4. \A j \in 1 .. (i - 1) : ks[j] # Null => last[ks[j]] < start[i]
      BY <1>2
    <2>5. start[i] = lo \/ \E j \in 1 .. (i - 1) : ks[j] # Null /\ start[i] = last2[ks[j]] + 1
      BY <2>1, <2>3
    <2> QED
      BY <2>1, <2>2, <2>4, <2>5
  <1>5. \A i \in 1 .. Len(ks) : ks[i] # Null => pos2[ks[i]] = start[i]
    BY <1>1, <1>2
  <1> QED
    BY <1>2, <1>4, <1>5 DEF Row

(***************************************************************************)
(* Nothing points to n; and no node has two owners, but for those that     *)
(* Modules own, and none is a Module.                                      *)
(***************************************************************************)
Parentless(h, n) == \A m \in DOMAIN h : n \notin Holds(h[m].kids)

OneParent(h) ==
    \A m, n \in DOMAIN h : \A k \in Holds(h[m].kids) :
       /\ h[k].kind # "Module"
       /\ k \in Holds(h[n].kids) /\ h[n].kind # "Module" => m = n

(***************************************************************************)
(* S is the least set that contains R and what its members own.            *)
(***************************************************************************)
Least(h, S, R) ==
    /\ S \subseteq DOMAIN h /\ R \subseteq S /\ Whole(h, S)
    /\ \A T \in SUBSET S : R \subseteq T /\ Whole(h, T) => S \subseteq T

(***************************************************************************)
(* Two trees without a common root have no node in common.                 *)
(***************************************************************************)
LEMMA ForestsApart ==
    ASSUME NEW h, OneParent(h),
           NEW R1, NEW R2, R1 \cap R2 = {}, \A n \in R1 \cup R2 : Parentless(h, n),
           NEW S1, Least(h, S1, R1), NEW S2, Least(h, S2, R2),
           \A n \in R2 : h[n].kind # "Module"
    PROVE  S1 \cap S2 = {}
  <1> USE DEF Least
  <1>1. \A n \in R2 : n \notin S1
    <2> SUFFICES ASSUME NEW n \in R2, n \in S1
                 PROVE  FALSE
      OBVIOUS
    <2>1. R1 \subseteq S1 \ {n}
      OBVIOUS
    <2>2. Whole(h, S1 \ {n})
      BY DEF Whole, Parentless
    <2> QED
      BY <2>1, <2>2
  <1>2. \A k \in S1 : k \in R1 \/ \E m \in S1 : k \in Holds(h[m].kids)
    <2> SUFFICES ASSUME NEW k \in S1, k \notin R1, \A m \in S1 : k \notin Holds(h[m].kids)
                 PROVE  FALSE
      OBVIOUS
    <2>1. Whole(h, S1 \ {k})
      BY DEF Whole
    <2> QED
      BY <2>1
  <1>3. \A n \in S2 : h[n].kind # "Module"
    <2> DEFINE T == {n \in S2 : h[n].kind # "Module"}
    <2>1. R2 \subseteq T /\ Whole(h, T)
      BY DEF Whole, OneParent
    <2>2. T \in SUBSET S2
      OBVIOUS
    <2>3. S2 \subseteq T
      BY <2>1, <2>2
    <2> QED
      BY <2>3
  <1>4. Whole(h, S2 \ S1)
    <2> SUFFICES ASSUME NEW n \in S2 \ S1, NEW k \in Holds(h[n].kids)
                 PROVE  k \in S2 \ S1
      BY DEF Whole
    <2>1. k \in S2
      BY DEF Whole
    <2>2. k \notin R1
      BY DEF Parentless
    <2>3. k \notin S1
      BY <1>2, <1>3, <2>2 DEF OneParent
    <2> QED
      BY <2>1, <2>3
  <1> QED
    BY <1>1, <1>4

LEMMA ForestAppend ==
    ASSUME NEW h, IsHeap(h), OneParent(h), NEW ks \in Seq(Places), NEW n \in Address,
           n # Null, n \notin Holds(ks),
           \A k \in Holds(ks) \cup {n} : Parentless(h, k), h[n].kind # "Module",
           IsForest(h, ks), IsForest(h, <<n>>)
    PROVE  IsForest(h, Append(ks, n))
  <1>1. PICK S1 \in SUBSET DOMAIN h, size1 \in Nat : \E pos, last, type :
           Forest(h, S1, ks, pos, last, type, size1)
    BY DEF IsForest
  <1>2. PICK pos1, last1, type1 : Forest(h, S1, ks, pos1, last1, type1, size1)
    BY <1>1
  <1>3. PICK S2 \in SUBSET DOMAIN h, size2 \in Nat : \E pos, last, type :
           Forest(h, S2, <<n>>, pos, last, type, size2)
    BY DEF IsForest
  <1>4. PICK pos2, last2, type2 : Forest(h, S2, <<n>>, pos2, last2, type2, size2)
    BY <1>3
  <1>5. Holds(<<n>>) = {n} /\ n \in Places
    BY DEF Holds, Elements, Places
  <1>6. S1 \cap S2 = {}
    <2>1. Least(h, S1, Holds(ks)) /\ Least(h, S2, {n})
      BY <1>2, <1>4, <1>5, ZenonT(30) DEF Forest, Least
    <2>2. Holds(ks) \cap {n} = {}
      OBVIOUS
    <2> QED
      BY <2>1, <2>2, ForestsApart
  <1> DEFINE S    == S1 \cup S2
             size == size1 + size2
             pos  == [m \in S |-> IF m \in S1 THEN pos1[m] ELSE pos2[m] + size1]
             last == [m \in S |-> IF m \in S1 THEN last1[m] ELSE last2[m] + size1]
             type == [m \in S |-> IF m \in S1 THEN type1[m] ELSE type2[m]]
             all  == Append(ks, n)
  <1>7. /\ \A m \in S1 : pos[m] = pos1[m] /\ last[m] = last1[m] /\ type[m] = type1[m]
        /\ \A m \in S2 : /\ pos[m] = pos2[m] + size1 /\ last[m] = last2[m] + size1
                         /\ type[m] = type2[m]
    BY <1>6
  <1>8. /\ \A m \in S1 : pos1[m] \in 1 .. size1 /\ last1[m] \in 1 .. size1 /\ type1[m] \in NodeType
        /\ \A m \in S2 : pos2[m] \in 1 .. size2 /\ last2[m] \in 1 .. size2 /\ type2[m] \in NodeType
    BY <1>2, <1>4 DEF Forest
  <1>9. size \in Nat /\ size1 \in Nat /\ size2 \in Nat
    OBVIOUS
  <1>10. pos \in [S -> 1 .. size] /\ last \in [S -> 1 .. size] /\ type \in [S -> NodeType]
    <2>1. \A m \in S1 : pos[m] \in 1 .. size /\ last[m] \in 1 .. size /\ type[m] \in NodeType
      BY <1>7, <1>8, <1>9
    <2>2. \A m \in S2 : pos[m] \in 1 .. size /\ last[m] \in 1 .. size /\ type[m] \in NodeType
      <3> SUFFICES ASSUME NEW m \in S2
                   PROVE  pos[m] \in 1 .. size /\ last[m] \in 1 .. size /\ type[m] \in NodeType
        OBVIOUS
      <3>1. pos2[m] + size1 \in 1 .. size /\ last2[m] + size1 \in 1 .. size
        BY <1>8, <1>9
      <3> QED
        BY <1>7, <1>8, <3>1
    <2> QED
      BY <2>1, <2>2
  <1> HIDE DEF pos, last, type
  <1>11. \A m, k \in S : pos[m] = pos[k] => m = k
    <2> SUFFICES ASSUME NEW m \in S, NEW k \in S, pos[m] = pos[k]
                 PROVE  m = k
      OBVIOUS
    <2>1. /\ \A x, y \in S1 : pos1[x] = pos1[y] => x = y
          /\ \A x, y \in S2 : pos2[x] = pos2[y] => x = y
      BY <1>2, <1>4 DEF Forest
    <2>2. CASE m \in S1 /\ k \in S1
      BY <1>7, <2>1, <2>2
    <2>3. CASE m \in S2 /\ k \in S2
      <3>1. pos2[m] + size1 = pos2[k] + size1 /\ pos2[m] \in Nat /\ pos2[k] \in Nat
        BY <1>7, <1>8, <2>3
      <3>2. pos2[m] = pos2[k]
        BY <3>1
      <3> QED
        BY <2>1, <2>3, <3>2
    <2>4. ASSUME NEW x \in S1, NEW y \in S2
          PROVE  pos[x] # pos[y]
      <3>1. pos[x] \in 1 .. size1
        BY <1>7, <1>8
      <3>2. pos[y] = pos2[y] + size1 /\ pos2[y] \in 1 .. size2
        BY <1>7, <1>8
      <3> QED
        BY <3>1, <3>2
    <2> QED
      BY <2>2, <2>3, <2>4
  <1>12. \A p \in 1 .. size : \E m \in S : pos[m] = p
    <2> SUFFICES ASSUME NEW p \in 1 .. size
                 PROVE  \E m \in S : pos[m] = p
      OBVIOUS
    <2>1. CASE p \in 1 .. size1
      <3>1. PICK m \in S1 : pos1[m] = p
        BY <1>2, <2>1 DEF Forest
      <3> QED
        BY <1>7, <3>1
    <2>2. CASE p \notin 1 .. size1
      <3>1. p - size1 \in 1 .. size2
        BY <2>2
      <3>2. PICK m \in S2 : pos2[m] = p - size1
        BY <1>4, <3>1 DEF Forest
      <3>3. pos[m] = p - size1 + size1
        BY <1>7, <3>2
      <3> QED
        BY <3>3
    <2> QED
      BY <2>1, <2>2
  <1>13. /\ \A m \in S1 : Holds(h[m].kids) \subseteq S1
         /\ \A m \in S2 : Holds(h[m].kids) \subseteq S2
         /\ Holds(ks) \subseteq S1 /\ n \in S2
    BY <1>2, <1>4, <1>5 DEF Forest, Whole
  <1>14. Holds(all) \subseteq S /\ Whole(h, S) /\ S \subseteq DOMAIN h
    BY <1>5, <1>13, HoldsAppend DEF Whole
  <1>15. \A m \in DOMAIN h : Shaped(h[m]) /\ h[m].kids \in Seq(Places)
    BY DEF IsHeap, Shaped
  <1>16. ASSUME NEW m \in S1
         PROVE  Row(h[m].kids, pos, last, pos[m] + 1, last[m]) /\ Typed(h, type, m)
    <2>1. Row(h[m].kids, pos1, last1, pos1[m] + 1, last1[m]) /\ Typed(h, type1, m)
      BY <1>2 DEF Forest
    <2>5. pos1[m] + 1 \in Nat /\ last1[m] \in Nat
      BY <1>8
    <2>2. \A k \in Holds(h[m].kids) : pos[k] = pos1[k] /\ last[k] = last1[k] /\ type[k] = type1[k]
      BY <1>7, <1>13
    <2>3. Row(h[m].kids, pos, last, pos1[m] + 1, last1[m])
      BY <1>15, <2>1, <2>2, <2>5, RowSame
    <2>4. Typed(h, type, m)
      BY <1>7, <1>15, <2>1, <2>2, TypedSame
    <2> QED
      BY <1>7, <2>3, <2>4
  <1>17. ASSUME NEW m \in S2
         PROVE  Row(h[m].kids, pos, last, pos[m] + 1, last[m]) /\ Typed(h, type, m)
    <2> DEFINE mine == h[m].kids
               lo   == pos2[m] + 1
               hi   == last2[m]
    <2>1. Row(mine, pos2, last2, lo, hi) /\ Typed(h, type2, m)
      BY <1>4 DEF Forest
    <2>2. lo \in Nat /\ hi \in Nat /\ mine \in Seq(Places)
      BY <1>8, <1>15
    <2>3. Shifted(mine, pos2, last2, pos, last, size1)
      BY <1>7, <1>8, <1>13 DEF Shifted
    <2>4. \A k \in Holds(h[m].kids) : type[k] = type2[k]
      BY <1>7, <1>13
    <2>5. Typed(h, type, m)
      BY <1>7, <1>15, <2>1, <2>4, TypedSame
    <2>6. pos2[m] \in Nat /\ pos[m] = pos2[m] + size1 /\ last[m] = last2[m] + size1
      BY <1>7, <1>8
    <2>7. pos[m] + 1 = lo + size1 /\ last[m] = hi + size1
      BY <1>9, <2>6
    <2> HIDE DEF mine, lo, hi
    <2>8. pos[m] + 1 \in Nat /\ last[m] \in Nat
      BY <1>9, <2>2, <2>7
    <2>9. Row(mine, pos, last, pos[m] + 1, last[m])
      BY <1>9, <2>1, <2>2, <2>3, <2>7, <2>8, RowShifts
    <2> QED
      BY <2>5, <2>9 DEF mine
  <1>18. Row(all, pos, last, 1, size)
    <2>1. Row(ks, pos1, last1, 1, size1) /\ Row(<<n>>, pos2, last2, 1, size2)
      BY <1>2, <1>4 DEF Forest
    <2>2. Row(ks, pos, last, 1, size1)
      BY <1>7, <1>9, <1>13, <2>1, RowSame
    <2>3. last2[n] \in Nat /\ 1 <= last2[n]
      BY <1>8, <1>13
    <2>4. pos2[n] = 1 /\ last2[n] = size2
      BY <1>9, <2>1, <2>3, RowOne
    <2>5. pos[n] = 1 + size1 /\ last[n] = size2 + size1
      BY <1>7, <1>13, <2>4
    <2>6. pos[n] = size1 + 1 /\ last[n] = size /\ size1 < size
      BY <1>9, <2>3, <2>4, <2>5
    <2>7. \A k \in Holds(ks) : last[k] \in Nat
      BY <1>7, <1>8, <1>13
    <2> HIDE DEF size
    <2> QED
      BY <1>5, <1>9, <2>2, <2>6, <2>7, RowAppends
  <1>19. ASSUME NEW T \in SUBSET S, Holds(all) \subseteq T, Whole(h, T)
         PROVE  S \subseteq T
    <2>1. Whole(h, T \cap S1) /\ Whole(h, T \cap S2)
      BY <1>13, <1>19 DEF Whole
    <2>2. Holds(ks) \subseteq T \cap S1 /\ Holds(<<n>>) \subseteq T \cap S2
      BY <1>5, <1>13, <1>19, HoldsAppend
    <2>3. S1 \subseteq T \cap S1
      BY <1>2, <2>1, <2>2 DEF Forest
    <2>4. S2 \subseteq T \cap S2
      BY <1>4, <2>1, <2>2 DEF Forest
    <2> QED
      BY <2>3, <2>4
  <1> HIDE DEF S, size, all
  <1>20. Forest(h, S, all, pos, last, type, size)
    <2>1. \A m \in S : Row(h[m].kids, pos, last, pos[m] + 1, last[m]) /\ Typed(h, type, m)
      BY <1>16, <1>17 DEF S
    <2> QED
      BY <1>10, <1>11, <1>12, <1>14, <1>18, <1>19, <2>1 DEF Forest
  <1>21. IsForest(h, all)
    BY <1>9, <1>14, <1>20 DEF IsForest
  <1> QED
    BY <1>21 DEF all

(***************************************************************************)
(* What happens to other nodes does not matter.                            *)
(***************************************************************************)
LEMMA ForestFrame ==
    ASSUME NEW h, IsHeap(h), NEW h2, NEW ks, IsForest(h, ks),
           \A n \in DOMAIN h \cap DOMAIN h2 : h2[n] = h[n] /\ Holds(h2[n].kids) \subseteq DOMAIN h2,
           Holds(ks) \subseteq DOMAIN h2
    PROVE  IsForest(h2, ks)
  <1>1. PICK S \in SUBSET DOMAIN h, size \in Nat : \E pos, last, type :
           Forest(h, S, ks, pos, last, type, size)
    BY DEF IsForest
  <1>2. PICK pos, last, type : Forest(h, S, ks, pos, last, type, size)
    BY <1>1
  <1>3. S \subseteq DOMAIN h2
    <2> DEFINE T == S \cap DOMAIN h2
    <2>1. T \in SUBSET S /\ Holds(ks) \subseteq T
      BY <1>2 DEF Forest
    <2>2. Whole(h, T)
      <3>1. \A n \in T : h2[n] = h[n] /\ Holds(h2[n].kids) \subseteq DOMAIN h2
        OBVIOUS
      <3>2. \A n \in T : Holds(h[n].kids) \subseteq S
        BY <1>2 DEF Forest, Whole
      <3> QED
        BY <3>1, <3>2 DEF Whole
    <2>3. S \subseteq T
      BY <1>2, <2>1, <2>2 DEF Forest
    <2> QED
      BY <2>3
  <1>4. \A n \in S : h2[n] = h[n]
    BY <1>3
  <1>5. \A T \in SUBSET S : Whole(h2, T) <=> Whole(h, T)
    BY <1>4 DEF Whole
  <1>6. \A n \in S : Row(h2[n].kids, pos, last, pos[n] + 1, last[n]) /\ Typed(h2, type, n)
    <2> SUFFICES ASSUME NEW n \in S
                 PROVE  Row(h2[n].kids, pos, last, pos[n] + 1, last[n]) /\ Typed(h2, type, n)
      OBVIOUS
    <2>1. Row(h[n].kids, pos, last, pos[n] + 1, last[n]) /\ Typed(h, type, n)
      BY <1>2 DEF Forest
    <2>2. Shaped(h[n]) /\ h2[n] = h[n]
      BY <1>4 DEF IsHeap
    <2>3. Typed(h2, type, n)
      BY <2>1, <2>2, TypedSame
    <2> QED
      BY <2>1, <2>2, <2>3
  <1>7. Forest(h2, S, ks, pos, last, type, size)
    BY <1>2, <1>3, <1>5, <1>6 DEF Forest
  <1> QED
    BY <1>3, <1>7 DEF IsForest

(***************************************************************************)
(* A new node that takes over a row of trees.                              *)
(***************************************************************************)
LEMMA ForestWrap ==
    ASSUME NEW h, IsHeap(h), NEW a \in Address, a # Null, a \notin DOMAIN h,
           NEW h2, DOMAIN h2 = DOMAIN h \cup {a}, \A n \in DOMAIN h : h2[n] = h[n],
           Shaped(h2[a]), IsForest(h, h2[a].kids)
    PROVE  IsForest(h2, <<a>>)
  <1> DEFINE ks == h2[a].kids
  <1>1. PICK S1 \in SUBSET DOMAIN h, size1 \in Nat : \E pos, last, type :
           Forest(h, S1, ks, pos, last, type, size1)
    BY DEF IsForest
  <1>2. PICK pos1, last1, type1 : Forest(h, S1, ks, pos1, last1, type1, size1)
    BY <1>1
  <1>3. ks \in Seq(Places) /\ a \notin S1 /\ Holds(ks) \subseteq S1
    BY <1>2 DEF Shaped, Forest
  <1>4. \A m \in S1 : /\ pos1[m] \in 1 .. size1 /\ last1[m] \in 1 .. size1
                      /\ type1[m] \in NodeType
    BY <1>2 DEF Forest
  <1> DEFINE mine == IF h2[a].kind \in {"LiteralInt32", "Function"} THEN "Int32"
                     ELSE IF h2[a].kind = "Module" THEN "Void"
                     ELSE IF h2[a].kind = "Binary" THEN TypeOfKid(type1, ks[2])
                     ELSE IF h2[a].kind = "Return" THEN TypeOfKid(type1, ks[1])
                     ELSE IF h2[a].kind = "Block"
                          THEN IF ks = <<>> THEN Undefined ELSE TypeOfKid(type1, ks[Len(ks)])
                     ELSE IF ks[2] # Null THEN TypeOfKid(type1, ks[2])
                     ELSE IF ks[3] = Null THEN "Void" ELSE TypeOfKid(type1, ks[3])
  <1>5. mine \in NodeType
    <2>1. \A i \in 1 .. Len(ks) : TypeOfKid(type1, ks[i]) \in NodeType
      BY <1>3, <1>4, HoldsOf DEF TypeOfKid, NodeType
    <2>2. h2[a].kind = "Binary" => TypeOfKid(type1, ks[2]) \in NodeType
      BY <2>1 DEF Shaped
    <2>3. h2[a].kind = "Return" => TypeOfKid(type1, ks[1]) \in NodeType
      BY <2>1 DEF Shaped
    <2>4. h2[a].kind = "Conditional" => /\ TypeOfKid(type1, ks[2]) \in NodeType
                                        /\ TypeOfKid(type1, ks[3]) \in NodeType
      BY <2>1 DEF Shaped
    <2>5. ks # <<>> => TypeOfKid(type1, ks[Len(ks)]) \in NodeType
      <3>1. ks # <<>> => Len(ks) \in 1 .. Len(ks)
        BY <1>3
      <3> QED
        BY <2>1, <3>1
    <2>6. h2[a].kind \in MadeKind
      BY DEF Shaped
    <2> QED
      BY <2>2, <2>3, <2>4, <2>5, <2>6 DEF MadeKind, NodeType
  <1> DEFINE S    == S1 \cup {a}
             size == size1 + 1
             pos  == [m \in S |-> IF m = a THEN 1 ELSE pos1[m] + 1]
             last == [m \in S |-> IF m = a THEN size ELSE last1[m] + 1]
             type == [m \in S |-> IF m = a THEN mine ELSE type1[m]]
  <1>6. /\ pos[a] = 1 /\ last[a] = size /\ type[a] = mine
        /\ \A m \in S1 : pos[m] = pos1[m] + 1 /\ last[m] = last1[m] + 1 /\ type[m] = type1[m]
    BY <1>3
  <1>7. size \in Nat /\ size1 \in Nat /\ 1 \in 1 .. size /\ size \in 1 .. size
    OBVIOUS
  <1>8. pos \in [S -> 1 .. size] /\ last \in [S -> 1 .. size] /\ type \in [S -> NodeType]
    <2>1. ASSUME NEW m \in S1
          PROVE  pos1[m] + 1 \in 1 .. size /\ last1[m] + 1 \in 1 .. size
      BY <1>4
    <2> QED
      BY <1>4, <1>5, <1>7, <2>1
  <1>9. Holds(<<a>>) = {a}
    BY DEF Holds, Elements
  <1>10. /\ \A m \in S1 : Holds(h2[m].kids) \subseteq S1 /\ h2[m] = h[m]
         /\ S \subseteq DOMAIN h2
    <2>1. \A m \in S1 : Holds(h[m].kids) \subseteq S1
      BY <1>2 DEF Forest, Whole
    <2> QED
      BY <2>1
  <1>11. Whole(h2, S)
    BY <1>3, <1>10 DEF Whole
  <1> HIDE DEF pos, last, type, ks
  <1>12. \A m, k \in S : pos[m] = pos[k] => m = k
    <2>1. \A x, y \in S1 : pos1[x] = pos1[y] => x = y
      BY <1>2 DEF Forest
    <2>2. ASSUME NEW x \in S1, NEW y \in S1, pos[x] = pos[y]
          PROVE  x = y
      <3>1. pos1[x] \in Nat /\ pos1[y] \in Nat /\ pos1[x] + 1 = pos1[y] + 1
        BY <1>4, <1>6, <2>2
      <3>2. pos1[x] = pos1[y]
        BY <3>1
      <3> QED
        BY <2>1, <3>2
    <2>3. ASSUME NEW x \in S1
          PROVE  pos[x] # pos[a]
      <3>1. pos1[x] \in 1 .. size1 /\ pos[x] = pos1[x] + 1
        BY <1>4, <1>6
      <3> QED
        BY <1>6, <3>1
    <2> QED
      BY <2>2, <2>3
  <1>13. \A p \in 1 .. size : \E m \in S : pos[m] = p
    <2> SUFFICES ASSUME NEW p \in 1 .. size
                 PROVE  \E m \in S : pos[m] = p
      OBVIOUS
    <2>1. CASE p = 1
      BY <1>6, <2>1
    <2>2. CASE p # 1
      <3>1. p - 1 \in 1 .. size1
        BY <2>2
      <3>2. PICK m \in S1 : pos1[m] = p - 1
        BY <1>2, <3>1 DEF Forest
      <3>3. pos[m] = p - 1 + 1
        BY <1>6, <3>2
      <3> QED
        BY <3>3
    <2> QED
      BY <2>1, <2>2
  <1>14. ASSUME NEW m \in S1
         PROVE  Row(h2[m].kids, pos, last, pos[m] + 1, last[m]) /\ Typed(h2, type, m)
    <2> DEFINE its == h[m].kids
               lo  == pos1[m] + 1
               hi  == last1[m]
    <2>1. Row(its, pos1, last1, lo, hi) /\ Typed(h, type1, m)
      BY <1>2 DEF Forest
    <2>2. lo \in Nat /\ hi \in Nat /\ its \in Seq(Places) /\ Shaped(h[m])
      BY <1>4 DEF IsHeap, Shaped
    <2>3. Shifted(its, pos1, last1, pos, last, 1)
      BY <1>4, <1>6, <1>10 DEF Shifted
    <2>4. \A k \in Holds(h[m].kids) : type[k] = type1[k]
      BY <1>6, <1>10
    <2>5. Typed(h2, type, m)
      BY <1>6, <1>10, <2>1, <2>2, <2>4, TypedSame
    <2>6. pos1[m] \in Nat /\ pos[m] = pos1[m] + 1 /\ last[m] = last1[m] + 1
      BY <1>4, <1>6
    <2>7. pos[m] + 1 = lo + 1 /\ last[m] = hi + 1
      BY <2>6
    <2>8. its = h2[m].kids
      BY <1>10
    <2> HIDE DEF its, lo, hi
    <2>9. pos[m] + 1 \in Nat /\ last[m] \in Nat /\ 1 \in Nat
      BY <2>2, <2>7
    <2>10. Row(its, pos, last, pos[m] + 1, last[m])
      BY <2>1, <2>2, <2>3, <2>7, <2>9, RowShifts
    <2> QED
      BY <2>5, <2>8, <2>10
  <1>15. Row(ks, pos, last, pos[a] + 1, last[a])
    <2>1. Row(ks, pos1, last1, 1, size1)
      BY <1>2 DEF Forest
    <2>2. Shifted(ks, pos1, last1, pos, last, 1)
      BY <1>3, <1>4, <1>6 DEF Shifted
    <2>3. pos[a] + 1 = 1 + 1 /\ last[a] = size1 + 1
      BY <1>6
    <2>4. pos[a] + 1 \in Nat /\ last[a] \in Nat /\ 1 \in Nat /\ size1 \in Nat
      BY <2>3
    <2> QED
      BY <1>3, <2>1, <2>2, <2>3, <2>4, RowShifts
  <1>16. Typed(h2, type, a)
    <2>1. \A i \in 1 .. Len(ks) : TypeOfKid(type, ks[i]) = TypeOfKid(type1, ks[i])
      BY <1>3, <1>6, HoldsOf DEF TypeOfKid
    <2>2. h2[a].kind = "Binary" => TypeOfKid(type, ks[2]) = TypeOfKid(type1, ks[2])
      BY <2>1 DEF Shaped, ks
    <2>3. h2[a].kind = "Return" => TypeOfKid(type, ks[1]) = TypeOfKid(type1, ks[1])
      BY <2>1 DEF Shaped, ks
    <2>4. h2[a].kind = "Conditional" => /\ TypeOfKid(type, ks[2]) = TypeOfKid(type1, ks[2])
                                        /\ TypeOfKid(type, ks[3]) = TypeOfKid(type1, ks[3])
      BY <2>1 DEF Shaped, ks
    <2>5. ks # <<>> => TypeOfKid(type, ks[Len(ks)]) = TypeOfKid(type1, ks[Len(ks)])
      <3>1. ks # <<>> => Len(ks) \in 1 .. Len(ks)
        BY <1>3
      <3> QED
        BY <2>1, <3>1
    <2>6. type[a] = mine /\ h2[a].kids = ks
      BY <1>6 DEF ks
    <2> QED
      BY <2>2, <2>3, <2>4, <2>5, <2>6 DEF Typed
  <1>17. Row(<<a>>, pos, last, 1, size)
    <2>1. Row(<<>>, pos, last, 1, 0) /\ <<>> \in Seq(Places) /\ Holds(<<>>) = {}
      BY RowEmpty DEF Holds, Elements
    <2>2. pos[a] = 0 + 1 /\ last[a] = size /\ 0 < size /\ a \in Places
      BY <1>6, <1>7 DEF Places
    <2>3. Append(<<>>, a) = <<a>>
      OBVIOUS
    <2> HIDE DEF size
    <2>4. Row(Append(<<>>, a), pos, last, 1, size)
      BY <1>7, <2>1, <2>2, RowAppends
    <2> QED
      BY <2>3, <2>4
  <1>18. ASSUME NEW T \in SUBSET S, Holds(<<a>>) \subseteq T, Whole(h2, T)
         PROVE  S \subseteq T
    <2>1. a \in T
      BY <1>9, <1>18
    <2>2. Holds(ks) \subseteq T \cap S1
      BY <1>3, <1>18, <2>1 DEF Whole, ks
    <2>3. Whole(h, T \cap S1)
      BY <1>10, <1>18 DEF Whole
    <2>4. S1 \subseteq T \cap S1
      BY <1>2, <2>2, <2>3 DEF Forest
    <2> QED
      BY <2>1, <2>4
  <1>19. \A m \in S : Row(h2[m].kids, pos, last, pos[m] + 1, last[m]) /\ Typed(h2, type, m)
    BY <1>14, <1>15, <1>16 DEF ks
  <1>20. Holds(<<a>>) \subseteq S
    BY <1>9
  <1> HIDE DEF S, size
  <1>21. Forest(h2, S, <<a>>, pos, last, type, size)
    BY <1>8, <1>10, <1>11, <1>12, <1>13, <1>17, <1>18, <1>19, <1>20 DEF Forest
  <1> QED
    BY <1>7, <1>10, <1>21 DEF IsForest

-----------------------------------------------------------------------------
(* Trees of module Ast                                                     *)

(***************************************************************************)
(* What the constructors and the builders take: every node has the members *)
(* of its class, a Module owns Functions, and everything else expressions. *)
(***************************************************************************)
KidsOK ==
    \A n \in Live : \A k \in Holds(heap[n].kids) :
       /\ heap[k].kind # "Module"
       /\ heap[k].kind = "Function" <=> heap[n].kind = "Module"

KindsOK ==
    /\ \A n \in Live : Shaped(heap[n])
    /\ KidsOK
    /\ \A b \in BlockBuilder : \A k \in Holds(pending[b]) : IsExpr(k)
    /\ \A k \in Holds(pending["module"]) \cup shared : heap[k].kind = "Function"

(***************************************************************************)
(* at numbers the nodes of S, and pos is its inverse.                      *)
(***************************************************************************)
Reading(at, S, size, pos) ==
    /\ S \subseteq Live /\ Whole(heap, S)
    /\ size \in Nat /\ pos \in [S -> 1 .. size] /\ at \in [1 .. size -> S]
    /\ \A n \in S : Position(at, n) = pos[n] /\ at[pos[n]] = n
    /\ \A i \in 1 .. size : pos[at[i]] = i

(***************************************************************************)
(* The positions of the nodes of S, inverted: a numbering.                 *)
(***************************************************************************)
LEMMA InverseNumbers ==
    ASSUME NEW S, NEW size \in Nat, NEW pos \in [S -> 1 .. size],
           \A m, n \in S : pos[m] = pos[n] => m = n,
           \A p \in 1 .. size : \E n \in S : pos[n] = p,
           TypeOK, S \subseteq Live, Whole(heap, S)
    PROVE  \E at \in Numberings(S) : Reading(at, S, size, pos)
  <1> DEFINE at == [i \in 1 .. size |-> CHOOSE n \in S : pos[n] = i]
  <1>1. \A i \in 1 .. size : at[i] \in S /\ pos[at[i]] = i
    OBVIOUS
  <1>2. at \in [1 .. size -> S] /\ DOMAIN at = 1 .. size
    BY <1>1
  <1> HIDE DEF at
  <1>3. \A n \in S : at[pos[n]] = n
    BY <1>1
  <1>4. \A n \in S : Position(at, n) = pos[n]
    <2> SUFFICES ASSUME NEW n \in S
                 PROVE  Position(at, n) = pos[n]
      OBVIOUS
    <2>1. n # Null
      BY LiveNodes
    <2>2. pos[n] \in DOMAIN at /\ at[pos[n]] = n /\ \A i \in DOMAIN at : at[i] = n => i = pos[n]
      BY <1>1, <1>2, <1>3
    <2>3. (CHOOSE i \in DOMAIN at : at[i] = n) = pos[n]
      BY <2>2
    <2> QED
      BY <2>1, <2>3 DEF Position
  <1>5. Cardinality(S) = size
    <2>1. \A i, j \in 1 .. size : at[i] = at[j] => i = j
      BY <1>1
    <2>2. \A n \in S : \E i \in 1 .. size : at[i] = n
      BY <1>3
    <2>3. at \in Bijection(1 .. size, S)
      BY <1>2, <2>1, <2>2, Fun_IsBij
    <2>4. ExistsBijection(1 .. size, S)
      BY <2>3, Fun_ExistsBij
    <2> QED
      BY <2>4, FS_CountingElements
  <1>6. at \in Numberings(S)
    BY <1>1, <1>2, <1>5 DEF Numberings
  <1> QED
    BY <1>1, <1>2, <1>3, <1>4, <1>6 DEF Reading

(***************************************************************************)
(* The i-th node of T is cell.                                             *)
(***************************************************************************)
Reads(T, i, cell, S, size, pos, last, type) ==
    /\ DOMAIN T = 1 .. size /\ Len(T) = size
    /\ T[i].kind = cell.kind /\ T[i].scope = cell.scope
    /\ T[i].lacks = FALSE /\ T[i].repeats = {}
    /\ T[i].last = last[i] /\ T[i].dataType = type[i]
    /\ T[i].name \in Name /\ T[i].operation \in OperationKind
    /\ DOMAIN T[i].kids = 1 .. Len(cell.kids) /\ Len(T[i].kids) = Len(cell.kids)
    /\ Len(cell.kids) \in Nat
    /\ \A j \in 1 .. Len(cell.kids) :
          IF cell.kids[j] = Null THEN T[i].kids[j] = Null
          ELSE /\ cell.kids[j] \in S /\ cell.kids[j] \in Holds(cell.kids)
               /\ T[i].kids[j] = pos[cell.kids[j]] /\ T[i].kids[j] \in 1 .. size
    /\ T[i].kids \in Seq(Nat)
    /\ T[i] = [kind |-> T[i].kind, kids |-> T[i].kids, last |-> T[i].last,
               name |-> T[i].name, dataType |-> T[i].dataType,
               scope |-> T[i].scope, lacks |-> FALSE, repeats |-> {},
               operation |-> T[i].operation]

LEMMA LaidNode ==
    ASSUME TypeOK, NEW at, NEW S, NEW size \in Nat, NEW pos, Reading(at, S, size, pos),
           NEW last, NEW type, NEW i \in 1 .. size
    PROVE  Reads(Laid(at, last, type), i, heap[at[i]], S, size, pos, last, type)
  <1> DEFINE T    == Laid(at, last, type)
             cell == heap[at[i]]
             kids == [j \in DOMAIN cell.kids |-> Position(at, cell.kids[j])]
  <1>1. /\ DOMAIN at = 1 .. size /\ at[i] \in S
        /\ cell \in Cell /\ cell.kids \in Seq(Places)
    BY DEF TypeOK, Cell, Places, Reading
  <1>2. /\ DOMAIN T = 1 .. size
        /\ T[i] = [kind |-> cell.kind, kids |-> kids, last |-> last[i],
                   name |-> CHOOSE x \in Name : TRUE, dataType |-> type[i],
                   scope |-> cell.scope, lacks |-> FALSE, repeats |-> {},
                   operation |-> "Add"]
    BY <1>1 DEF Laid
  <1>3. T \in Seq({T[j] : j \in 1 .. size}) /\ Len(T) = size
    <2>1. T = [j \in 1 .. size |-> T[j]]
      BY <1>1 DEF Laid
    <2> HIDE DEF T
    <2> QED
      BY <2>1
  <1>4. DOMAIN cell.kids = 1 .. Len(cell.kids) /\ Len(cell.kids) \in Nat
    BY <1>1
  <1>5. \A j \in 1 .. Len(cell.kids) :
           IF cell.kids[j] = Null THEN kids[j] = Null
           ELSE /\ cell.kids[j] \in S /\ cell.kids[j] \in Holds(cell.kids)
                /\ kids[j] = pos[cell.kids[j]] /\ kids[j] \in 1 .. size
    <2> SUFFICES ASSUME NEW j \in 1 .. Len(cell.kids)
                 PROVE  IF cell.kids[j] = Null THEN kids[j] = Null
                        ELSE /\ cell.kids[j] \in S /\ cell.kids[j] \in Holds(cell.kids)
                             /\ kids[j] = pos[cell.kids[j]] /\ kids[j] \in 1 .. size
      OBVIOUS
    <2>1. kids[j] = Position(at, cell.kids[j])
      BY <1>4
    <2>2. CASE cell.kids[j] = Null
      BY <2>1, <2>2 DEF Position
    <2>3. CASE cell.kids[j] # Null
      <3>1. cell.kids[j] \in Holds(cell.kids)
        BY <1>1, <2>3, HoldsOf
      <3>2. cell.kids[j] \in S
        BY <1>1, <3>1 DEF Whole, Reading
      <3> QED
        BY <2>1, <2>3, <3>1, <3>2 DEF Reading
    <2> QED
      BY <2>2, <2>3
  <1>6. kids \in Seq(Nat) /\ DOMAIN kids = 1 .. Len(cell.kids) /\ Len(kids) = Len(cell.kids)
    <2>1. kids = [j \in 1 .. Len(cell.kids) |-> kids[j]]
      BY <1>4
    <2> HIDE DEF kids, cell
    <2>2. ASSUME NEW j \in 1 .. Len(cell.kids)
          PROVE  kids[j] \in Nat
      <3>1. kids[j] = 0 \/ kids[j] \in 1 .. size
        BY <1>5 DEF Null
      <3> QED
        BY <3>1
    <2>3. kids \in [1 .. Len(cell.kids) -> Nat]
      BY <2>1, <2>2
    <2>4. PICK n \in Nat : n = Len(cell.kids)
      BY <1>4
    <2>5. kids \in [1 .. n -> Nat]
      BY <2>3, <2>4
    <2>6. kids \in Seq(Nat) /\ DOMAIN kids = 1 .. n /\ Len(kids) = n
      BY <2>5
    <2> QED
      BY <2>4, <2>6
  <1>7. (CHOOSE x \in Name : TRUE) \in Name
    BY BuildersAssumption
  <1> HIDE DEF T, cell, kids
  <1>8. /\ T[i].kind = cell.kind /\ T[i].last = last[i] /\ T[i].dataType = type[i]
        /\ T[i].scope = cell.scope /\ T[i].kids = kids
        /\ T[i].lacks = FALSE /\ T[i].repeats = {}
        /\ T[i].name \in Name /\ T[i].operation \in OperationKind
    BY <1>2, <1>7 DEF OperationKind
  <1>9. T[i] = [kind |-> T[i].kind, kids |-> T[i].kids, last |-> T[i].last,
                name |-> T[i].name, dataType |-> T[i].dataType,
                scope |-> T[i].scope, lacks |-> FALSE, repeats |-> {},
                operation |-> T[i].operation]
    BY <1>2
  <1>10. \A j \in 1 .. Len(cell.kids) :
            IF cell.kids[j] = Null THEN T[i].kids[j] = Null
            ELSE /\ cell.kids[j] \in S /\ cell.kids[j] \in Holds(cell.kids)
                 /\ T[i].kids[j] = pos[cell.kids[j]] /\ T[i].kids[j] \in 1 .. size
    BY <1>5, <1>8
  <1> QED
    BY <1>2, <1>3, <1>4, <1>6, <1>8, <1>9, <1>10 DEF T, cell, Reads

(***************************************************************************)
(* A row is numbered the way module Ast says.                              *)
(***************************************************************************)
LEMMA LaidNumbered ==
    ASSUME TypeOK, NEW at, NEW S, NEW size \in Nat, NEW pos, Reading(at, S, size, pos),
           NEW last \in [S -> 1 .. size], NEW ends, \A j \in 1 .. size : ends[j] = last[at[j]],
           NEW type, NEW i \in 1 .. size,
           Row(heap[at[i]].kids, pos, last, i + 1, last[at[i]])
    PROVE  Numbered(Laid(at, ends, type), i)
  <1> DEFINE T  == Laid(at, ends, type)
             ks == heap[at[i]].kids
             L  == Len(ks)
             hi == last[at[i]]
  <1>1. /\ DOMAIN T = 1 .. size /\ Len(T) = size
        /\ T[i].last = ends[i] /\ DOMAIN T[i].kids = 1 .. L /\ Len(T[i].kids) = L /\ L \in Nat
        /\ \A j \in 1 .. L : IF ks[j] = Null THEN T[i].kids[j] = Null
                             ELSE /\ ks[j] \in S /\ T[i].kids[j] = pos[ks[j]]
                                  /\ T[i].kids[j] \in 1 .. size
    <2>1. Reads(T, i, heap[at[i]], S, size, pos, ends, type)
      BY LaidNode
    <2> HIDE DEF T
    <2> QED
      BY <2>1 DEF Reads
  <1>2. /\ at[i] \in S /\ hi \in 1 .. size /\ T[i].last = hi
        /\ \A n \in S : pos[n] \in 1 .. size /\ last[n] \in 1 .. size
    BY <1>1 DEF Reading
  <1>3. \A n \in S : T[pos[n]].last = last[n]
    <2> SUFFICES ASSUME NEW n \in S
                 PROVE  T[pos[n]].last = last[n]
      OBVIOUS
    <2>1. pos[n] \in 1 .. size /\ at[pos[n]] = n
      BY DEF Reading
    <2>2. T[pos[n]].last = ends[pos[n]]
      <3>1. Reads(T, pos[n], heap[at[pos[n]]], S, size, pos, ends, type)
        BY <2>1, LaidNode
      <3> QED
        BY <3>1 DEF Reads
    <2>3. ends[pos[n]] = last[at[pos[n]]]
      BY <2>1
    <2> QED
      BY <2>1, <2>2, <2>3
  <1>4. PICK start \in [1 .. (L + 1) -> Nat] :
           /\ start[L + 1] = hi + 1
           /\ \A j \in 1 .. (L + 1) :
                 /\ i + 1 <= start[j]
                 /\ start[j] = i + 1 \/ \E k \in 1 .. (j - 1) :
                                           ks[k] # Null /\ start[j] = last[ks[k]] + 1
                 /\ \A k \in 1 .. (j - 1) : ks[k] # Null => last[ks[k]] < start[j]
           /\ \A j \in 1 .. L : ks[j] # Null => pos[ks[j]] = start[j]
    BY DEF Row
  <1> HIDE DEF T, ks, L, hi
  <1>5. \A j \in 1 .. L : ks[j] # Null =>
           /\ ks[j] \in S /\ T[i].kids[j] # Null /\ T[i].kids[j] = pos[ks[j]]
           /\ T[T[i].kids[j]].last = last[ks[j]] /\ last[ks[j]] \in 1 .. size
    <2> SUFFICES ASSUME NEW j \in 1 .. L, ks[j] # Null
                 PROVE  /\ ks[j] \in S /\ T[i].kids[j] # Null /\ T[i].kids[j] = pos[ks[j]]
                        /\ T[T[i].kids[j]].last = last[ks[j]] /\ last[ks[j]] \in 1 .. size
      OBVIOUS
    <2>1. ks[j] \in S /\ T[i].kids[j] = pos[ks[j]] /\ T[i].kids[j] \in 1 .. size
      BY <1>1
    <2>2. T[i].kids[j] # Null
      BY <2>1 DEF Null
    <2> QED
      BY <1>2, <1>3, <2>1, <2>2
  <1>6. \A j \in 1 .. L : T[i].kids[j] # Null => ks[j] # Null
    BY <1>1
  <1>7. ASSUME NEW j \in 1 .. (L + 1), NEW c \in Covered(T, i, j)
        PROVE  c \in Int /\ c < start[j] /\ (IsLastCovered(T, i, j, c) => start[j] = c + 1)
    <2>1. start[j] \in Nat /\ i + 1 <= start[j]
      BY <1>4
    <2>2. c = i \/ \E k \in 1 .. L : k < j /\ ks[k] # Null /\ c = last[ks[k]]
      <3>1. c = i \/ \E k \in 1 .. L : k < j /\ T[i].kids[k] # Null /\ c = T[T[i].kids[k]].last
        BY <1>1, <1>7 DEF Covered
      <3>2. ASSUME NEW k \in 1 .. L, k < j, T[i].kids[k] # Null, c = T[T[i].kids[k]].last
            PROVE  ks[k] # Null /\ c = last[ks[k]]
        BY <1>5, <1>6, <3>2
      <3> QED
        BY <3>1, <3>2
    <2>3. \A k \in 1 .. L : k < j => k \in 1 .. (j - 1)
      BY <1>1
    <2>4. c \in Int /\ c < start[j]
      <3>1. CASE c = i
        BY <2>1, <3>1
      <3>2. CASE \E k \in 1 .. L : k < j /\ ks[k] # Null /\ c = last[ks[k]]
        <4>1. PICK k \in 1 .. L : k < j /\ ks[k] # Null /\ c = last[ks[k]]
          BY <3>2
        <4>2. c \in 1 .. size
          BY <1>5, <4>1
        <4>3. last[ks[k]] < start[j]
          BY <1>4, <2>3, <4>1
        <4> QED
          BY <4>1, <4>2, <4>3
      <3> QED
        BY <2>2, <3>1, <3>2
    <2>5. ASSUME IsLastCovered(T, i, j, c)
          PROVE  start[j] = c + 1
      <3>1. \A d \in Covered(T, i, j) : d <= c
        BY <2>5 DEF IsLastCovered
      <3>2. CASE start[j] = i + 1
        <4>1. i <= c
          BY <3>1 DEF Covered
        <4> QED
          BY <2>4, <3>2, <4>1
      <3>3. ASSUME NEW k \in 1 .. (j - 1), ks[k] # Null, start[j] = last[ks[k]] + 1
            PROVE  start[j] = c + 1
        <4>1. k \in 1 .. L /\ k < j
          BY <1>1, <3>3
        <4>2. T[i].kids[k] # Null /\ T[T[i].kids[k]].last = last[ks[k]]
          BY <1>5, <3>3, <4>1
        <4>3. last[ks[k]] \in Covered(T, i, j)
          BY <1>1, <4>1, <4>2, ZenonT(30) DEF Covered
        <4>4. last[ks[k]] <= c /\ last[ks[k]] \in 1 .. size
          BY <1>5, <3>1, <3>3, <4>1, <4>3
        <4>5. PICK e \in Nat : e = last[ks[k]]
          BY <4>4
        <4>6. start[j] = e + 1 /\ e <= c
          BY <3>3, <4>4, <4>5
        <4> QED
          BY <2>1, <2>4, <4>6
      <3> QED
        BY <1>4, <3>2, <3>3
    <2> QED
      BY <2>4, <2>5
  <1>8. L + 1 \in 1 .. (L + 1)
    BY <1>1
  <1>9. i <= T[i].last /\ T[i].last <= Len(T)
    <2>1. PICK e \in 1 .. size : e = hi
      BY <1>2
    <2>2. i + 1 <= e + 1
      BY <1>4, <1>8, <2>1
    <2>3. i <= e /\ e <= size
      BY <2>2
    <2> QED
      BY <1>1, <1>2, <2>1, <2>3
  <1>10. ASSUME NEW j \in 1 .. L, T[i].kids[j] # Null
         PROVE  /\ i < T[i].kids[j] /\ T[i].kids[j] <= Len(T)
                /\ T[T[i].kids[j]].last <= T[i].last
                /\ \A c \in Covered(T, i, j) :
                      c < T[i].kids[j] /\ (IsLastCovered(T, i, j, c) => T[i].kids[j] = c + 1)
    <2>1. j \in 1 .. (L + 1) /\ j \in 1 .. ((L + 1) - 1)
      BY <1>1
    <2>2. /\ ks[j] # Null /\ T[i].kids[j] = pos[ks[j]] /\ T[T[i].kids[j]].last = last[ks[j]]
          /\ last[ks[j]] \in 1 .. size /\ T[i].kids[j] \in 1 .. size
      BY <1>1, <1>5, <1>6, <1>10
    <2>3. T[i].kids[j] = start[j] /\ start[j] \in Nat /\ i + 1 <= start[j]
      BY <1>4, <2>1, <2>2
    <2>4. last[ks[j]] < hi + 1
      BY <1>4, <1>8, <2>1, <2>2
    <2>5. T[T[i].kids[j]].last <= T[i].last
      <3>1. PICK e \in Nat : e = last[ks[j]]
        BY <2>2
      <3>2. e < hi + 1 /\ hi \in Nat
        BY <1>2, <2>4, <3>1
      <3>3. e <= hi
        BY <3>2
      <3> QED
        BY <1>2, <2>2, <3>1, <3>3
    <2>6. start[j] \in 1 .. size /\ i < start[j] /\ start[j] <= Len(T)
      BY <1>1, <2>2, <2>3
    <2>7. \A c \in Covered(T, i, j) :
             c < start[j] /\ (IsLastCovered(T, i, j, c) => start[j] = c + 1)
      BY <1>7, <2>1
    <2> QED
      BY <2>3, <2>5, <2>6, <2>7
  <1>11. ASSUME NEW c \in Covered(T, i, L + 1), IsLastCovered(T, i, L + 1, c)
         PROVE  T[i].last = c
    <2>1. c \in Int /\ start[L + 1] = c + 1 /\ start[L + 1] = hi + 1 /\ hi \in Int
      BY <1>2, <1>4, <1>7, <1>8, <1>11
    <2>2. c = hi
      BY <2>1
    <2> QED
      BY <1>2, <2>2
  <1>12. Numbered(T, i)
    BY <1>1, <1>9, <1>10, <1>11 DEF Numbered
  <1> QED
    BY <1>12 DEF T

LEMMA LaidMembers ==
    ASSUME TypeOK, NEW at, NEW S, NEW size \in Nat, NEW pos, Reading(at, S, size, pos),
           NEW ends, NEW type, NEW i \in 1 .. size, KindsOK,
           heap[at[i]].kind = "Module" <=> i = Root
    PROVE  Members(Laid(at, ends, type), i)
  <1> DEFINE T    == Laid(at, ends, type)
             cell == heap[at[i]]
  <1>1. at[i] \in S /\ S \subseteq Live
    BY DEF Reading
  <1>2. Shaped(cell) /\ \A k \in Holds(cell.kids) :
                           heap[k].kind = "Function" <=> cell.kind = "Module"
    BY <1>1 DEF KindsOK, KidsOK
  <1>3. Reads(T, i, cell, S, size, pos, ends, type)
    BY LaidNode
  <1>4. \A n \in S : T[pos[n]].kind = heap[n].kind
    <2> SUFFICES ASSUME NEW n \in S
                 PROVE  T[pos[n]].kind = heap[n].kind
      OBVIOUS
    <2>1. pos[n] \in 1 .. size /\ at[pos[n]] = n
      BY DEF Reading
    <2>2. Reads(T, pos[n], heap[at[pos[n]]], S, size, pos, ends, type)
      BY <2>1, LaidNode
    <2> QED
      BY <2>1, <2>2 DEF Reads
  <1> HIDE DEF T
  <1>5. /\ T[i].kind = cell.kind /\ DOMAIN T[i].kids = 1 .. Len(cell.kids)
        /\ Len(T[i].kids) = Len(cell.kids) /\ T[i].kids \in Seq(Nat)
        /\ \A j \in 1 .. Len(cell.kids) :
              IF cell.kids[j] = Null THEN T[i].kids[j] = Null
              ELSE /\ cell.kids[j] \in S /\ cell.kids[j] \in Holds(cell.kids)
                   /\ T[i].kids[j] = pos[cell.kids[j]] /\ T[i].kids[j] \in 1 .. size
    BY <1>3 DEF Reads
  <1>6. T[i].kind \notin LeafKind \cup ClientKind \/ T[i].kids = <<>>
    <2>1. CASE cell.kind = "LiteralInt32"
      <3>1. Len(T[i].kids) = 0
        BY <1>2, <1>5, <2>1 DEF Shaped
      <3> QED
        BY <1>5, <3>1
    <2>2. CASE cell.kind # "LiteralInt32"
      BY <1>2, <1>5, <2>2 DEF Shaped, MadeKind, LeafKind, ClientKind
    <2> QED
      BY <2>1, <2>2
  <1>7. /\ T[i].kind = "Binary" => Len(T[i].kids) = 2
        /\ T[i].kind \in {"AssignVariable", "Return", "Function"} => Len(T[i].kids) = 1
    BY <1>2, <1>5 DEF Shaped, MadeKind
  <1>8. T[i].kind = "Conditional" => Len(T[i].kids) = 3 /\ T[i].kids[1] # Null
    <2> SUFFICES ASSUME T[i].kind = "Conditional"
                 PROVE  Len(T[i].kids) = 3 /\ T[i].kids[1] # Null
      OBVIOUS
    <2>1. Len(cell.kids) = 3 /\ cell.kids[1] # Null
      BY <1>2, <1>5 DEF Shaped
    <2>2. T[i].kids[1] \in 1 .. size
      BY <1>5, <2>1
    <2> QED
      BY <1>5, <2>1, <2>2 DEF Null
  <1>9. ASSUME NEW j \in 1 .. Len(cell.kids), T[i].kids[j] # Null
        PROVE  T[T[i].kids[j]].kind = "Function" <=> T[i].kind = "Module"
    <2>1. /\ cell.kids[j] \in S /\ cell.kids[j] \in Holds(cell.kids)
          /\ T[i].kids[j] = pos[cell.kids[j]]
      BY <1>5, <1>9
    <2>2. T[T[i].kids[j]].kind = heap[cell.kids[j]].kind
      BY <1>4, <2>1
    <2> QED
      BY <1>2, <1>5, <2>1, <2>2
  <1>10. T[i].lacks = FALSE /\ T[i].repeats = {}
    BY <1>3 DEF Reads
  <1>11. Members(T, i)
    BY <1>5, <1>6, <1>7, <1>8, <1>9, <1>10 DEF Members
  <1> QED
    BY <1>11 DEF T

LEMMA LaidTypes ==
    ASSUME TypeOK, NEW at, NEW S, NEW size \in Nat, NEW pos, Reading(at, S, size, pos),
           NEW ends, NEW type, NEW types, \A j \in 1 .. size : types[j] = type[at[j]],
           NEW i \in 1 .. size, KindsOK, Typed(heap, type, at[i])
    PROVE  DataTypeRule(Laid(at, ends, types), i)
  <1> DEFINE T    == Laid(at, ends, types)
             cell == heap[at[i]]
  <1>1. at[i] \in S /\ S \subseteq Live
    BY DEF Reading
  <1>2. Shaped(cell)
    BY <1>1 DEF KindsOK
  <1>3. Reads(T, i, cell, S, size, pos, ends, types)
    BY LaidNode
  <1>4. \A n \in S : T[pos[n]].dataType = type[n]
    <2> SUFFICES ASSUME NEW n \in S
                 PROVE  T[pos[n]].dataType = type[n]
      OBVIOUS
    <2>1. pos[n] \in 1 .. size /\ at[pos[n]] = n
      BY DEF Reading
    <2>2. Reads(T, pos[n], heap[at[pos[n]]], S, size, pos, ends, types)
      BY <2>1, LaidNode
    <2> QED
      BY <2>1, <2>2 DEF Reads
  <1> HIDE DEF T
  <1>5. /\ T[i].kind = cell.kind /\ T[i].dataType = type[at[i]]
        /\ Len(T[i].kids) = Len(cell.kids) /\ T[i].kids \in Seq(Nat)
        /\ \A j \in 1 .. Len(cell.kids) :
              IF cell.kids[j] = Null THEN T[i].kids[j] = Null
              ELSE /\ cell.kids[j] \in S
                   /\ T[i].kids[j] = pos[cell.kids[j]] /\ T[i].kids[j] \in 1 .. size
    BY <1>3 DEF Reads
  <1>6. \A j \in 1 .. Len(cell.kids) : /\ T[i].kids[j] = Null <=> cell.kids[j] = Null
                                       /\ TypeAt(T, T[i].kids[j]) = TypeOfKid(type, cell.kids[j])
    <2> SUFFICES ASSUME NEW j \in 1 .. Len(cell.kids)
                 PROVE  /\ T[i].kids[j] = Null <=> cell.kids[j] = Null
                        /\ TypeAt(T, T[i].kids[j]) = TypeOfKid(type, cell.kids[j])
      OBVIOUS
    <2>1. CASE cell.kids[j] = Null
      BY <1>5, <2>1 DEF TypeAt, TypeOfKid
    <2>2. CASE cell.kids[j] # Null
      <3>1. /\ cell.kids[j] \in S /\ T[i].kids[j] = pos[cell.kids[j]]
            /\ T[i].kids[j] \in 1 .. size
        BY <1>5, <2>2
      <3>2. T[i].kids[j] # Null
        BY <3>1 DEF Null
      <3> QED
        BY <1>4, <2>2, <3>1, <3>2 DEF TypeAt, TypeOfKid
    <2> QED
      BY <2>1, <2>2
  <1>7. T[i].kind = "Binary" => T[i].dataType = TypeAt(T, T[i].kids[2])
    <2> SUFFICES ASSUME T[i].kind = "Binary"
                 PROVE  T[i].dataType = TypeAt(T, T[i].kids[2])
      OBVIOUS
    <2>1. 2 \in 1 .. Len(cell.kids)
      <3>1. Len(cell.kids) = 2
        BY <1>2, <1>5 DEF Shaped
      <3> QED
        BY <3>1
    <2> QED
      BY <1>5, <1>6, <2>1 DEF Typed
  <1>8. T[i].kind = "Return" => T[i].dataType = TypeAt(T, T[i].kids[1])
    <2> SUFFICES ASSUME T[i].kind = "Return"
                 PROVE  T[i].dataType = TypeAt(T, T[i].kids[1])
      OBVIOUS
    <2>1. 1 \in 1 .. Len(cell.kids)
      <3>1. Len(cell.kids) = 1
        BY <1>2, <1>5 DEF Shaped
      <3> QED
        BY <3>1
    <2> QED
      BY <1>5, <1>6, <2>1 DEF Typed
  <1>9. T[i].kind = "Block" =>
           T[i].dataType = IF T[i].kids = <<>> THEN Undefined
                           ELSE TypeAt(T, T[i].kids[Len(T[i].kids)])
    <2> SUFFICES ASSUME T[i].kind = "Block"
                 PROVE  T[i].dataType = IF T[i].kids = <<>> THEN Undefined
                                        ELSE TypeAt(T, T[i].kids[Len(T[i].kids)])
      OBVIOUS
    <2>1. cell.kids \in Seq(Places)
      BY <1>2 DEF Shaped
    <2>2. (T[i].kids = <<>> <=> Len(cell.kids) = 0) /\ (cell.kids = <<>> <=> Len(cell.kids) = 0)
      BY <1>5, <2>1
    <2>3. Len(cell.kids) # 0 => Len(cell.kids) \in 1 .. Len(cell.kids)
      BY <2>1
    <2> QED
      BY <1>5, <1>6, <2>2, <2>3 DEF Typed
  <1>10. T[i].kind = "Conditional" =>
            T[i].dataType = IF T[i].kids[2] # Null THEN TypeAt(T, T[i].kids[2])
                            ELSE IF T[i].kids[3] = Null THEN "Void"
                            ELSE TypeAt(T, T[i].kids[3])
    <2> SUFFICES ASSUME T[i].kind = "Conditional"
                 PROVE  T[i].dataType = IF T[i].kids[2] # Null THEN TypeAt(T, T[i].kids[2])
                                        ELSE IF T[i].kids[3] = Null THEN "Void"
                                        ELSE TypeAt(T, T[i].kids[3])
      OBVIOUS
    <2>1. 2 \in 1 .. Len(cell.kids) /\ 3 \in 1 .. Len(cell.kids)
      <3>1. Len(cell.kids) = 3
        BY <1>2, <1>5 DEF Shaped
      <3> QED
        BY <3>1
    <2> QED
      BY <1>5, <1>6, <2>1 DEF Typed
  <1>11. /\ T[i].kind \in MadeKind
         /\ T[i].kind \in {"LiteralInt32", "Function"} => T[i].dataType = "Int32"
         /\ T[i].kind = "Module" => T[i].dataType = "Void"
    BY <1>2, <1>5 DEF Typed, Shaped
  <1>12. DataTypeRule(T, i)
    BY <1>7, <1>8, <1>9, <1>10, <1>11 DEF DataTypeRule, MadeKind, ClientKind, DataType
  <1> QED
    BY <1>12 DEF T

(***************************************************************************)
(* A Module that is laid out is one of module Ast's trees.                 *)
(***************************************************************************)
LEMMA ForestIsTree ==
    ASSUME HeapInv, KindsOK, NEW m \in client, heap[m].kind = "Module",
           IsForest(heap, <<m>>)
    PROVE  IsLaidOut(m)
  <1>1. TypeOK /\ OwnsOK /\ m \in Live /\ m # Null /\ m \in Address
    BY LiveNodes DEF HeapInv, OwnsOK
  <1>2. PICK S \in SUBSET Live, size \in Nat : \E pos, last, type :
           Forest(heap, S, <<m>>, pos, last, type, size)
    BY DEF IsForest, Live
  <1>3. PICK pos, last, type : Forest(heap, S, <<m>>, pos, last, type, size)
    BY <1>2
  <1>4. /\ Holds(<<m>>) = {m} /\ m \in S /\ Whole(heap, S)
        /\ pos \in [S -> 1 .. size] /\ last \in [S -> 1 .. size] /\ type \in [S -> NodeType]
        /\ \A n \in S : Row(heap[n].kids, pos, last, pos[n] + 1, last[n]) /\ Typed(heap, type, n)
    <2>1. Holds(<<m>>) = {m}
      BY <1>1 DEF Holds, Elements
    <2> QED
      BY <1>3, <2>1 DEF Forest
  <1>5. \A T \in SUBSET S : m \in T /\ Whole(heap, T) => S \subseteq T
    BY <1>3, <1>4 DEF Forest
  <1>6. S = Subtrees({m})
    <2>1. \A n \in Live : \A i \in DOMAIN heap[n].kids :
             heap[n].kids[i] # Null => heap[n].kids[i] \in Holds(heap[n].kids)
      BY DEF Holds, Elements
    <2>2. Closed(S)
      BY <1>4, <2>1 DEF Closed, Whole
    <2>3. Subtrees({m}) \subseteq S
      BY <1>4, <2>2, SubtreesLeast
    <2>4. Closed(Subtrees({m})) /\ m \in Subtrees({m})
      BY <1>1, SubtreesClosed
    <2>5. Whole(heap, Subtrees({m}))
      BY <2>4 DEF Whole, Closed, Holds, Elements
    <2> QED
      BY <1>5, <2>3, <2>4, <2>5
  <1>7. pos[m] = 1 /\ last[m] = size /\ size >= 1
    <2>1. Row(<<m>>, pos, last, 1, size)
      BY <1>3 DEF Forest
    <2>2. last[m] \in 1 .. size
      BY <1>4
    <2>3. last[m] \in Nat /\ 1 <= last[m] /\ 1 \in Nat
      BY <2>2
    <2> QED
      BY <1>1, <2>1, <2>2, <2>3, RowOne
  <1>8. \A n \in S : heap[n].kind = "Module" => n = m
    <2> SUFFICES ASSUME NEW n \in S, n # m, heap[n].kind = "Module"
                 PROVE  FALSE
      OBVIOUS
    <2>1. PICK p \in S : n \in Holds(heap[p].kids)
      <3>1. CASE \A p \in S : n \notin Holds(heap[p].kids)
        <4>1. Whole(heap, S \ {n})
          BY <1>4, <3>1 DEF Whole
        <4> QED
          BY <1>4, <1>5, <4>1
      <3> QED
        BY <3>1
    <2> QED
      BY <2>1 DEF KindsOK, KidsOK
  <1>9. PICK at \in Numberings(S) : Reading(at, S, size, pos)
    <2>1. /\ \A x, y \in S : pos[x] = pos[y] => x = y
          /\ \A p \in 1 .. size : \E n \in S : pos[n] = p
      BY <1>3 DEF Forest
    <2> QED
      BY <1>1, <1>4, <2>1, InverseNumbers
  <1> DEFINE ends  == [i \in 1 .. size |-> last[at[i]]]
             types == [i \in 1 .. size |-> type[at[i]]]
             T     == Laid(at, ends, types)
  <1>10. /\ \A i \in 1 .. size : at[i] \in S /\ pos[at[i]] = i
         /\ DOMAIN at = 1 .. size /\ Len(at) = size /\ at[1] = m /\ 1 \in 1 .. size
    <2>1. at \in [1 .. size -> S] /\ \A n \in S : at[pos[n]] = n
      BY <1>9 DEF Reading
    <2>2. at \in Seq(S) /\ Len(at) = size
      BY <2>1
    <2> QED
      BY <1>4, <1>7, <1>9, <2>1, <2>2 DEF Reading
  <1>11. /\ \A i \in 1 .. size : ends[i] = last[at[i]] /\ types[i] = type[at[i]]
         /\ ends \in [1 .. size -> 1 .. size] /\ types \in [1 .. size -> NodeType]
    BY <1>4, <1>10
  <1> HIDE DEF ends, types
  <1>12. ASSUME NEW i \in 1 .. size
         PROVE  Members(T, i) /\ DataTypeRule(T, i) /\ Numbered(T, i)
    <2>1. heap[at[i]].kind = "Module" <=> i = Root
      BY <1>8, <1>10 DEF Root
    <2>2. Members(T, i)
      BY <1>1, <1>9, <2>1, LaidMembers
    <2>3. Typed(heap, type, at[i])
      BY <1>4, <1>10
    <2>4. DataTypeRule(T, i)
      BY <1>1, <1>9, <1>11, <2>3, LaidTypes
    <2>5. Row(heap[at[i]].kids, pos, last, i + 1, last[at[i]])
      BY <1>4, <1>10
    <2>6. Numbered(T, i)
      BY <1>1, <1>4, <1>9, <1>11, <2>5, LaidNumbered
    <2> QED
      BY <2>2, <2>4, <2>6
  <1>13. ASSUME NEW i \in 1 .. size
         PROVE  /\ T[i] \in Node /\ T[i].last = ends[i]
                /\ DOMAIN T = 1 .. size /\ Len(T) = size
    <2>1. Reads(T, i, heap[at[i]], S, size, pos, ends, types)
      BY <1>1, <1>9, LaidNode
    <2>2. heap[at[i]] \in Cell
      BY <1>1, <1>10 DEF TypeOK
    <2>3. ends[i] \in Nat /\ types[i] \in DataType \cup {Undefined}
      <3>1. ends[i] \in 1 .. size /\ types[i] \in NodeType
        BY <1>11
      <3> QED
        BY <3>1 DEF NodeType, DataType
    <2> HIDE DEF T
    <2>4. T[i] \in Node
      BY <2>1, <2>2, <2>3 DEF Reads, Node, Cell
    <2> QED
      BY <2>1, <2>4 DEF Reads
  <1>14. IsTree(T)
    <2>1. DOMAIN T = 1 .. size /\ Len(T) = size /\ T[Root].last = Len(T)
      BY <1>7, <1>10, <1>11, <1>13 DEF Root
    <2>2. T \in Seq(Node)
      <3>1. T = [i \in 1 .. size |-> T[i]]
        BY <1>10 DEF Laid
      <3> HIDE DEF T
      <3>2. T \in [1 .. size -> Node]
        BY <1>13, <3>1
      <3> QED
        BY <3>2
    <2> HIDE DEF T
    <2>3. T # <<>>
      BY <1>7, <2>1
    <2> QED
      BY <1>12, <2>1, <2>2, <2>3 DEF IsTree
  <1>15. ends \in Ends(at)
    <2>1. ends[Root] = Len(at)
      BY <1>7, <1>10, <1>11 DEF Root
    <2>2. \A i \in 1 .. size : i <= ends[i]
      BY <1>12, <1>13 DEF Numbered
    <2> QED
      BY <1>10, <1>11, <2>1, <2>2 DEF Ends
  <1>16. types \in [DOMAIN at -> NodeType] /\ at[Root] = m
    BY <1>10, <1>11 DEF Root
  <1> QED
    BY <1>6, <1>9, <1>14, <1>15, <1>16 DEF IsLaidOut

-----------------------------------------------------------------------------
(* Steps, and the trees                                                    *)

TreesInv ==
    /\ KindsOK
    /\ \A n \in client : Alone(heap[n].kids) => IsForest(heap, <<n>>)
    /\ \A b \in Builder : Alone(pending[b]) => IsForest(heap, pending[b])

(***************************************************************************)
(* Only Modules own what is shared, and the builder of one.                *)
(***************************************************************************)
LEMMA MostAreAlone ==
    ASSUME KindsOK, Null \notin shared
    PROVE  /\ \A n \in Live : heap[n].kind # "Module" => Alone(heap[n].kids)
           /\ \A b \in BlockBuilder : Alone(pending[b])
           /\ \A e : IsExpr(e) => e \notin shared
  BY DEF KindsOK, KidsOK, IsExpr, Alone, Holds

LEMMA HeapShape ==
    ASSUME HeapInv, KindsOK
    PROVE  /\ IsHeap(heap) /\ OneParent(heap)
           /\ \A n \in client \ shared : Parentless(heap, n)
           /\ \A b \in Builder : \A n \in Holds(pending[b]) \ shared :
                 Parentless(heap, n) /\ n \notin client
           /\ \A n \in Live : Holds(heap[n].kids) \subseteq Live
           /\ \A b \in Builder : Holds(pending[b]) \subseteq Live
  <1>1. TypeOK /\ OwnsOK
    BY DEF HeapInv
  <1>2. IsHeap(heap)
    BY <1>1 DEF KindsOK, IsHeap, TypeOK, Live
  <1>3. \A n \in Live : \A k \in Holds(heap[n].kids) : \E i : Owns(n, i, k)
    BY <1>1, LiveNodes DEF Holds, Elements, Owns
  <1>4. \A b \in Builder : \A k \in Holds(pending[b]) : \E i : Owns(b, i, k)
    BY <1>1, LiveNodes DEF Holds, Elements, Owns
  <1>5. OneParent(heap)
    <2> SUFFICES ASSUME NEW m \in Live, NEW n \in Live, NEW k \in Holds(heap[m].kids)
                 PROVE  /\ heap[k].kind # "Module"
                        /\ k \in Holds(heap[n].kids) /\ heap[n].kind # "Module" => m = n
      BY DEF OneParent, Live
    <2>1. heap[k].kind # "Module"
      BY DEF KindsOK, KidsOK
    <2>2. ASSUME k \in Holds(heap[n].kids), heap[n].kind # "Module"
          PROVE  m = n
      <3>1. k \notin shared
        BY <2>2 DEF KindsOK, KidsOK
      <3> QED
        BY <1>1, <1>3, <2>2, <3>1 DEF OwnsOK
    <2> QED
      BY <2>1, <2>2
  <1>6. \A n \in client \ shared : Parentless(heap, n)
    BY <1>1, <1>3 DEF Parentless, OwnsOK, Live
  <1>7. ASSUME NEW b \in Builder, NEW n \in Holds(pending[b]) \ shared
        PROVE  Parentless(heap, n) /\ n \notin client
    <2>1. n \notin client
      BY <1>1, <1>4 DEF OwnsOK
    <2>2. ASSUME NEW m \in Live, n \in Holds(heap[m].kids)
          PROVE  FALSE
      <3>1. m = b
        BY <1>1, <1>3, <1>4, <2>2 DEF OwnsOK
      <3> QED
        BY <1>1, <3>1, LiveNodes
    <2> QED
      BY <2>1, <2>2 DEF Parentless, Live
  <1>8. /\ \A n \in Live : Holds(heap[n].kids) \subseteq Live
        /\ \A b \in Builder : Holds(pending[b]) \subseteq Live
    BY <1>1, <1>3, <1>4 DEF OwnsOK
  <1> QED
    BY <1>2, <1>5, <1>6, <1>7, <1>8

(***************************************************************************)
(* What is owned in the next state lives in it.                            *)
(***************************************************************************)
LEMMA NextLive ==
    ASSUME HeapInv'
    PROVE  /\ \A n \in Live' : Holds(heap'[n].kids) \subseteq Live'
           /\ \A b \in Builder : Holds(pending'[b]) \subseteq Live'
           /\ client' \subseteq Live'
  <1>1. TypeOK' /\ OwnsOK'
    BY DEF HeapInv
  <1>2. \A n \in Live' : n \notin Builder /\ n \in Owner'
    BY <1>1, BuildersAssumption DEF TypeOK, Owner
  <1>3. /\ \A n \in Live' : Content(n)' = heap'[n].kids
        /\ \A b \in Builder : Content(b)' = pending'[b] /\ b \in Owner'
    BY <1>2 DEF Content, Owner
  <1>4. ASSUME NEW n \in Live', NEW k \in Holds(heap'[n].kids)
        PROVE  k \in Live'
    <2>1. PICK i \in DOMAIN heap'[n].kids : heap'[n].kids[i] = k /\ k # Null
      BY <1>4 DEF Holds, Elements
    <2>2. Owns(n, i, k)'
      BY <1>2, <1>3, <2>1 DEF Owns
    <2> QED
      BY <1>1, <2>2 DEF OwnsOK
  <1>5. ASSUME NEW b \in Builder, NEW k \in Holds(pending'[b])
        PROVE  k \in Live'
    <2>1. PICK i \in DOMAIN pending'[b] : pending'[b][i] = k /\ k # Null
      BY <1>5 DEF Holds, Elements
    <2>2. Owns(b, i, k)'
      BY <1>3, <2>1 DEF Owns
    <2> QED
      BY <1>1, <2>2 DEF OwnsOK
  <1> QED
    BY <1>1, <1>4, <1>5 DEF OwnsOK

(***************************************************************************)
(* One more pointer of the client.                                         *)
(***************************************************************************)
LEMMA ForestMoves ==
    ASSUME HeapInv, TreesInv, NEW ks \in Seq(Places), IsForest(heap, ks),
           \A k \in Holds(ks) : Parentless(heap, k),
           NEW n \in Movable, n \notin Holds(ks),
           n # Null => n \notin shared /\ heap[n].kind # "Module"
    PROVE  IsForest(heap, Append(ks, n))
  <1>1. CASE n = Null
    BY <1>1, ForestNull
  <1>2. CASE n # Null
    <2>1. n \in client /\ n \in Address
      BY <1>2, LiveNodes DEF Movable, HeapInv, OwnsOK
    <2>2. IsForest(heap, <<n>>) /\ KindsOK
      <3>1. KindsOK /\ Null \notin shared /\ n \in Live
        BY <2>1, LiveNodes DEF TreesInv, HeapInv, OwnsOK
      <3>2. Alone(heap[n].kids)
        BY <1>2, <3>1, MostAreAlone
      <3> QED
        BY <2>1, <3>1, <3>2 DEF TreesInv
    <2>3. IsHeap(heap) /\ OneParent(heap) /\ Parentless(heap, n)
      BY <1>2, <2>1, <2>2, HeapShape
    <2>4. \A k \in Holds(ks) \cup {n} : Parentless(heap, k)
      BY <2>3
    <2> QED
      BY <1>2, <2>1, <2>2, <2>3, <2>4, ForestAppend
  <1> QED
    BY <1>1, <1>2

LEMMA AppendsTo ==
    ASSUME NEW S, NEW x \in S, NEW y \in S, NEW z \in S
    PROVE  Append(<<x>>, y) = <<x, y>> /\ Append(<<x, y>>, z) = <<x, y, z>>
  <1>1. /\ <<x>> \in Seq(S) /\ <<x, y>> \in Seq(S) /\ <<x, y, z>> \in Seq(S)
        /\ Len(<<x>>) = 1 /\ Len(<<x, y>>) = 2 /\ Len(<<x, y, z>>) = 3
    OBVIOUS
  <1>2. Append(<<x>>, y) = <<x, y>>
    <2> DEFINE s == Append(<<x>>, y)
               t == <<x, y>>
    <2>1. /\ s \in Seq(S) /\ t \in Seq(S) /\ Len(s) = 2 /\ Len(t) = 2
          /\ s[1] = x /\ s[2] = y /\ t[1] = x /\ t[2] = y
      BY <1>1
    <2> HIDE DEF s, t
    <2>2. s \in [1 .. 2 -> S] /\ t \in [1 .. 2 -> S] /\ \A i \in 1 .. 2 : s[i] = t[i]
      BY <2>1
    <2>3. s = t
      BY <2>2
    <2> QED
      BY <2>3 DEF s, t
  <1>3. Append(<<x, y>>, z) = <<x, y, z>>
    <2> DEFINE s == Append(<<x, y>>, z)
               t == <<x, y, z>>
    <2>1. /\ s \in Seq(S) /\ t \in Seq(S) /\ Len(s) = 3 /\ Len(t) = 3
          /\ s[1] = x /\ s[2] = y /\ s[3] = z /\ t[1] = x /\ t[2] = y /\ t[3] = z
      BY <1>1
    <2> HIDE DEF s, t
    <2>2. s \in [1 .. 3 -> S] /\ t \in [1 .. 3 -> S] /\ \A i \in 1 .. 3 : s[i] = t[i]
      BY <2>1
    <2>3. s = t
      BY <2>2
    <2> QED
      BY <2>3 DEF s, t
  <1> QED
    BY <1>2, <1>3

(***************************************************************************)
(* The client's expressions, which nothing else ever owns.                 *)
(***************************************************************************)
Exprs == {e \in Movable : IsExpr(e)}

LEMMA ForestsMoved ==
    ASSUME HeapInv, TreesInv
    PROVE  /\ IsForest(heap, <<>>)
           /\ \A e \in Exprs : IsForest(heap, <<e>>)
           /\ \A l, r \in Exprs : Distinct(<<l, r>>) => IsForest(heap, <<l, r>>)
           /\ \A c, t, f \in Exprs : Distinct(<<c, t, f>>) => IsForest(heap, <<c, t, f>>)
  <1> Null \notin shared /\ KindsOK
    BY LiveNodes DEF HeapInv, OwnsOK, TreesInv
  <1>0. \A n \in Exprs : /\ n \in Movable
                         /\ n # Null => n \notin shared /\ heap[n].kind # "Module"
    BY MostAreAlone DEF Exprs, IsExpr
  <1>1. Exprs \subseteq Places /\ \A n \in Exprs : n # Null => Parentless(heap, n)
    BY <1>0, HeapShape, LiveNodes DEF Movable, Places, HeapInv, OwnsOK
  <1>2. IsForest(heap, <<>>) /\ Holds(<<>>) = {} /\ <<>> \in Seq(Places)
    BY ForestEmpty DEF Holds, Elements
  <1>3. ASSUME NEW e \in Exprs
        PROVE  IsForest(heap, <<e>>) /\ Holds(<<e>>) = {e} \ {Null} /\ <<e>> \in Seq(Places)
    <2>1. IsForest(heap, Append(<<>>, e))
      BY <1>2, <1>0, ForestMoves
    <2>2. Append(<<>>, e) = <<e>>
      OBVIOUS
    <2> QED
      BY <1>1, <2>1, <2>2 DEF Holds, Elements
  <1>4. ASSUME NEW l \in Exprs, NEW r \in Exprs, Distinct(<<l, r>>)
        PROVE  /\ IsForest(heap, <<l, r>>) /\ Holds(<<l, r>>) = {l, r} \ {Null}
               /\ <<l, r>> \in Seq(Places)
    <2>1. r \notin Holds(<<l>>)
      <3>1. <<l, r>>[1] = l /\ <<l, r>>[2] = r /\ DOMAIN <<l, r>> = {1, 2}
        OBVIOUS
      <3>2. l = r => l = Null
        BY <1>4, <3>1 DEF Distinct
      <3> QED
        BY <1>3, <3>2
    <2>2. \A k \in Holds(<<l>>) : Parentless(heap, k)
      BY <1>1, <1>3
    <2>3. IsForest(heap, Append(<<l>>, r))
      BY <1>3, <2>1, <2>2, <1>0, ForestMoves
    <2>4. Append(<<l>>, r) = <<l, r>>
      BY AppendsTo
    <2>5. Holds(Append(<<l>>, r)) = Holds(<<l>>) \cup ({r} \ {Null}) /\ Append(<<l>>, r) \in Seq(Places)
      BY <1>1, <1>3, HoldsAppend
    <2> QED
      BY <1>3, <2>3, <2>4, <2>5
  <1>5. ASSUME NEW c \in Exprs, NEW t \in Exprs, NEW f \in Exprs, Distinct(<<c, t, f>>)
        PROVE  IsForest(heap, <<c, t, f>>)
    <2>1. /\ <<c, t, f>>[1] = c /\ <<c, t, f>>[2] = t /\ <<c, t, f>>[3] = f
          /\ DOMAIN <<c, t, f>> = {1, 2, 3}
      OBVIOUS
    <2>2. (c = t => c = Null) /\ (c = f => c = Null) /\ (t = f => t = Null)
      BY <1>5, <2>1 DEF Distinct
    <2>3. Distinct(<<c, t>>)
      <3>1. <<c, t>>[1] = c /\ <<c, t>>[2] = t /\ DOMAIN <<c, t>> = {1, 2}
        OBVIOUS
      <3> QED
        BY <2>2, <3>1 DEF Distinct
    <2>4. f \notin Holds(<<c, t>>) /\ \A k \in Holds(<<c, t>>) : Parentless(heap, k)
      BY <1>1, <1>4, <2>2, <2>3
    <2>5. IsForest(heap, Append(<<c, t>>, f))
      BY <1>4, <2>3, <2>4, <1>0, ForestMoves
    <2>6. Append(<<c, t>>, f) = <<c, t, f>>
      BY AppendsTo
    <2> QED
      BY <2>5, <2>6
  <1> QED
    BY <1>2, <1>3, <1>4, <1>5

(***************************************************************************)
(* Nodes that stay keep their trees.                                       *)
(***************************************************************************)
LEMMA TreesStay ==
    ASSUME HeapInv, KindsOK, HeapInv', \A n \in Live \cap Live' : heap'[n] = heap[n],
           NEW ks, IsForest(heap, ks), Holds(ks) \subseteq Live'
    PROVE  IsForest(heap', ks)
  <1>1. IsHeap(heap)
    BY HeapShape
  <1>2. \A n \in DOMAIN heap \cap DOMAIN heap' :
           heap'[n] = heap[n] /\ Holds(heap'[n].kids) \subseteq DOMAIN heap'
    BY NextLive DEF Live
  <1>3. Holds(ks) \subseteq DOMAIN heap'
    BY DEF Live
  <1> QED
    BY <1>1, <1>2, <1>3, ForestFrame

LEMMA HoldsOne ==
    ASSUME NEW n, n # Null
    PROVE  Holds(<<n>>) = {n}
  BY DEF Holds, Elements

(***************************************************************************)
(* Destruction.                                                            *)
(***************************************************************************)
LEMMA TreesShrink ==
    ASSUME HeapInv, TreesInv, HeapInv', \A n \in Live' : n \in Live /\ heap'[n] = heap[n],
           client' \subseteq client, shared' = shared,
           \A b \in Builder : pending'[b] = pending[b] \/ pending'[b] = <<>>
    PROVE  TreesInv'
  <1>1. KindsOK /\ \A n \in Live \cap Live' : heap'[n] = heap[n]
    BY DEF TreesInv
  <1>2. Holds(<<>>) = {}
    BY DEF Holds, Elements
  <1>3. ASSUME NEW n \in client'
        PROVE  Alone(heap[n].kids)' => IsForest(heap', <<n>>)
    <2> SUFFICES ASSUME Alone(heap[n].kids)'
                 PROVE  IsForest(heap', <<n>>)
      OBVIOUS
    <2>1. n \in Live' /\ n # Null /\ Alone(heap[n].kids)
      BY NextLive, LiveNodes DEF HeapInv, Alone
    <2>2. IsForest(heap, <<n>>)
      BY <2>1 DEF TreesInv
    <2> QED
      BY <1>1, <2>1, <2>2, HoldsOne, TreesStay
  <1>4. ASSUME NEW b \in Builder
        PROVE  Alone(pending[b])' => IsForest(heap', pending'[b])
    <2> SUFFICES ASSUME Alone(pending[b])'
                 PROVE  IsForest(heap', pending'[b])
      OBVIOUS
    <2>1. IsForest(heap, pending'[b])
      <3>1. CASE pending'[b] = <<>>
        BY <3>1, ForestEmpty
      <3>2. CASE pending'[b] = pending[b]
        BY <3>2 DEF TreesInv, Alone
      <3> QED
        BY <3>1, <3>2
    <2>2. Holds(pending'[b]) \subseteq Live'
      BY NextLive
    <2> QED
      BY <1>1, <2>1, <2>2, TreesStay
  <1>5. KindsOK'
    <2>1. /\ \A n \in Live' : Shaped(heap'[n])
          /\ \A n \in Live' : \A k \in Holds(heap'[n].kids) :
                /\ heap'[k].kind # "Module"
                /\ heap'[k].kind = "Function" <=> heap'[n].kind = "Module"
      BY <1>1, NextLive DEF KindsOK, KidsOK
    <2>2. \A b \in Builder : Holds(pending'[b]) \subseteq Holds(pending[b])
      BY <1>2
    <2>3. "module" \in Builder /\ BlockBuilder \subseteq Builder
      BY DEF Builder
    <2>4. /\ \A b \in BlockBuilder : \A k \in Holds(pending'[b]) : IsExpr(k)'
          /\ \A k \in Holds(pending'["module"]) : heap'[k].kind = "Function"
      BY <1>1, <2>2, <2>3, NextLive DEF KindsOK, IsExpr
    <2>5. \A k \in shared' : heap'[k].kind = "Function"
      BY <1>1 DEF KindsOK, HeapInv, OwnsOK
    <2> QED
      BY <2>1, <2>4, <2>5 DEF KindsOK, KidsOK
  <1> QED
    BY <1>3, <1>4, <1>5 DEF TreesInv

(***************************************************************************)
(* Two nodes are as good as one: top is the tree that is new to the client.*)
(***************************************************************************)
LEMMA TreesGrow ==
    ASSUME HeapInv, TreesInv, HeapInv', NEW a, NEW A, Live' = Live \cup A,
           \A n \in Live : heap'[n] = heap[n],
           client' \subseteq client \cup {a}, shared' = shared,
           Alone(heap'[a].kids) => IsForest(heap', <<a>>),
           \A n \in A : Shaped(heap'[n]),
           \A n \in A : \A k \in Holds(heap'[n].kids) :
              /\ heap'[k].kind # "Module"
              /\ heap'[k].kind = "Function" <=> heap'[n].kind = "Module",
           \A b \in Builder : pending'[b] = pending[b] \/ pending'[b] = <<>>
    PROVE  TreesInv'
  <1>1. KindsOK /\ \A n \in Live \cap Live' : heap'[n] = heap[n]
    BY DEF TreesInv
  <1>2. Holds(<<>>) = {}
    BY DEF Holds, Elements
  <1>3. ASSUME NEW n \in client'
        PROVE  Alone(heap[n].kids)' => IsForest(heap', <<n>>)
    <2> SUFFICES ASSUME Alone(heap[n].kids)'
                 PROVE  IsForest(heap', <<n>>)
      OBVIOUS
    <2>1. CASE n = a
      BY <2>1 DEF Alone
    <2>2. CASE n # a
      <3>0. n \in client /\ n \in Live
        BY <2>2 DEF HeapInv, OwnsOK
      <3>1. n \in Live' /\ n # Null /\ IsForest(heap, <<n>>)
        BY <3>0, LiveNodes DEF TreesInv, HeapInv, Alone
      <3> QED
        BY <1>1, <3>1, HoldsOne, TreesStay
    <2> QED
      BY <2>1, <2>2
  <1>4. ASSUME NEW b \in Builder
        PROVE  Alone(pending[b])' => IsForest(heap', pending'[b])
    <2> SUFFICES ASSUME Alone(pending[b])'
                 PROVE  IsForest(heap', pending'[b])
      OBVIOUS
    <2>1. IsForest(heap, pending'[b])
      <3>1. CASE pending'[b] = <<>>
        BY <3>1, ForestEmpty
      <3>2. CASE pending'[b] = pending[b]
        BY <3>2 DEF TreesInv, Alone
      <3> QED
        BY <3>1, <3>2
    <2>2. Holds(pending'[b]) \subseteq Live'
      BY NextLive
    <2> QED
      BY <1>1, <2>1, <2>2, TreesStay
  <1>5. KindsOK'
    <2>1. \A n \in Live : Holds(heap[n].kids) \subseteq Live
      BY <1>1, HeapShape
    <2>2. /\ \A n \in Live' : Shaped(heap'[n])
          /\ \A n \in Live' : \A k \in Holds(heap'[n].kids) :
                /\ heap'[k].kind # "Module"
                /\ heap'[k].kind = "Function" <=> heap'[n].kind = "Module"
      BY <1>1, <2>1 DEF KindsOK, KidsOK
    <2>3. \A b \in Builder : Holds(pending'[b]) \subseteq Holds(pending[b]) /\ Holds(pending[b]) \subseteq Live
      BY <1>1, <1>2, HeapShape
    <2>4. "module" \in Builder /\ BlockBuilder \subseteq Builder
      BY DEF Builder
    <2>5. /\ \A b \in BlockBuilder : \A k \in Holds(pending'[b]) : IsExpr(k)'
          /\ \A k \in Holds(pending'["module"]) : heap'[k].kind = "Function"
      BY <1>1, <2>3, <2>4 DEF KindsOK, IsExpr
    <2>6. \A k \in shared' : heap'[k].kind = "Function"
      BY <1>1 DEF KindsOK, HeapInv, OwnsOK
    <2> QED
      BY <2>2, <2>5, <2>6 DEF KindsOK, KidsOK
  <1> QED
    BY <1>3, <1>4, <1>5 DEF TreesInv

(***************************************************************************)
(* A new node, whose kids are expressions, or Functions under a Module.    *)
(***************************************************************************)
LEMMA TreesNew ==
    ASSUME HeapInv, TreesInv, HeapInv', NEW a \in Free, NEW cell, NEW moved,
           New(a, cell, moved), shared' = shared,
           Shaped(cell), Alone(cell.kids) => IsForest(heap, cell.kids), Holds(cell.kids) \subseteq Live,
           \A k \in Holds(cell.kids) :
              /\ heap[k].kind # "Module"
              /\ heap[k].kind = "Function" <=> cell.kind = "Module",
           \A b \in Builder : pending'[b] = pending[b] \/ pending'[b] = <<>>
    PROVE  TreesInv'
  <1>1. TypeOK /\ KindsOK /\ heap' = Adding(a, cell) /\ client' \subseteq client \cup {a}
    BY DEF HeapInv, TreesInv, New
  <1>2. /\ Live' = Live \cup {a} /\ a \notin Live /\ a \in Address /\ a # Null
        /\ heap'[a] = cell /\ \A n \in Live : heap'[n] = heap[n]
    BY <1>1, AddingHeap
  <1>3. Alone(heap'[a].kids) => IsForest(heap', <<a>>)
    <2> SUFFICES ASSUME Alone(heap'[a].kids)
                 PROVE  IsForest(heap', <<a>>)
      OBVIOUS
    <2>1. IsHeap(heap) /\ DOMAIN heap' = DOMAIN heap \cup {a} /\ a \notin DOMAIN heap
      BY <1>1, <1>2, HeapShape DEF Live
    <2>2. \A n \in DOMAIN heap : heap'[n] = heap[n]
      BY <1>2 DEF Live
    <2>3. Shaped(heap'[a]) /\ IsForest(heap, heap'[a].kids)
      BY <1>2
    <2> QED
      BY <1>2, <2>1, <2>2, <2>3, ForestWrap
  <1>4. /\ \A n \in {a} : Shaped(heap'[n])
        /\ \A n \in {a} : \A k \in Holds(heap'[n].kids) :
              /\ heap'[k].kind # "Module"
              /\ heap'[k].kind = "Function" <=> heap'[n].kind = "Module"
    BY <1>2
  <1> DEFINE A == {a}
  <1>5. /\ Live' = Live \cup A
        /\ \A n \in A : Shaped(heap'[n])
        /\ \A n \in A : \A k \in Holds(heap'[n].kids) :
              /\ heap'[k].kind # "Module"
              /\ heap'[k].kind = "Function" <=> heap'[n].kind = "Module"
    BY <1>2, <1>4
  <1> HIDE DEF A
  <1> QED
    BY <1>1, <1>2, <1>3, <1>5, TreesGrow, ZenonT(30)

LEMMA ConstructTrees ==
    ASSUME HeapInv, TreesInv, HeapInv', NEW a \in Free, Construct(a),
           UNCHANGED <<shared, intact>>
    PROVE  TreesInv'
  <1>1. /\ TypeOK /\ KindsOK /\ Movable \subseteq Places
        /\ Movable \ {Null} \subseteq Live
    BY LiveNodes DEF HeapInv, TreesInv, Movable, OwnsOK, Places
  <1>2. ASSUME NEW kind \in MadeKind \ {"Module"}, NEW kids, NEW moved,
               New(a, Plain(kind, kids), moved),
               UNCHANGED pending, Shaped(Plain(kind, kids)), IsForest(heap, kids),
               Holds(kids) \subseteq Movable, \A k \in Holds(kids) : IsExpr(k)
        PROVE  TreesInv'
    <2>1. Plain(kind, kids).kids = kids /\ Plain(kind, kids).kind = kind
      BY DEF Plain
    <2>2. \A k \in Holds(kids) : k # Null
      BY DEF Holds
    <2> DEFINE cell == Plain(kind, kids)
    <2> HIDE DEF cell
    <2>3. /\ New(a, cell, moved) /\ Shaped(cell) /\ cell.kids = kids /\ cell.kind = kind
      BY <1>2, <2>1 DEF cell
    <2>4. /\ Holds(cell.kids) \subseteq Live /\ IsForest(heap, cell.kids)
          /\ \A k \in Holds(cell.kids) : /\ heap[k].kind # "Module"
                                         /\ heap[k].kind = "Function" <=> cell.kind = "Module"
      BY <1>1, <1>2, <2>2, <2>3 DEF IsExpr
    <2> QED
      BY <1>2, <2>3, <2>4, TreesNew
  <1>3. CASE MakeLeaf(a)
    <2>1. Shaped(Plain("LiteralInt32", <<>>)) /\ Holds(<<>>) = {}
      BY DEF Shaped, Plain, MadeKind, Holds, Elements
    <2> QED
      BY <1>2, <1>3, <2>1, ForestEmpty DEF MakeLeaf, MadeKind
  <1>4. ASSUME NEW e \in Movable, MakeReturn(a, e) \/ MakeFunction(a, e)
        PROVE  TreesInv'
    <2>1. <<e>> \in Seq(Places) /\ Len(<<e>>) = 1 /\ Holds(<<e>>) \subseteq {e}
      BY <1>1 DEF Holds, Elements
    <2>2. Shaped(Plain("Return", <<e>>)) /\ Shaped(Plain("Function", <<e>>))
      BY <2>1 DEF Shaped, Plain, MadeKind
    <2>3. IsForest(heap, <<e>>) /\ \A k \in Holds(<<e>>) : IsExpr(k)
      BY <1>4, <2>1, ForestsMoved DEF MakeReturn, MakeFunction, Exprs
    <2> QED
      BY <1>2, <1>4, <2>1, <2>2, <2>3 DEF MakeReturn, MakeFunction, MadeKind
  <1>5. ASSUME NEW l \in Movable, NEW r \in Movable, MakeBinary(a, l, r)
        PROVE  TreesInv'
    <2>1. <<l, r>> \in Seq(Places) /\ Len(<<l, r>>) = 2 /\ Holds(<<l, r>>) \subseteq {l, r}
      BY <1>1 DEF Holds, Elements
    <2>2. Shaped(Plain("Binary", <<l, r>>))
      BY <2>1 DEF Shaped, Plain, MadeKind
    <2>3. IsForest(heap, <<l, r>>) /\ \A k \in Holds(<<l, r>>) : IsExpr(k)
      BY <1>5, <2>1, ForestsMoved DEF MakeBinary, Exprs
    <2> QED
      BY <1>2, <1>5, <2>1, <2>2, <2>3 DEF MakeBinary, MadeKind
  <1>6. ASSUME NEW c \in Movable, NEW t \in Movable, NEW f \in Movable,
               MakeConditional(a, c, t, f)
        PROVE  TreesInv'
    <2>1. /\ <<c, t, f>> \in Seq(Places) /\ Len(<<c, t, f>>) = 3 /\ <<c, t, f>>[1] = c
          /\ Holds(<<c, t, f>>) \subseteq {c, t, f}
      BY <1>1 DEF Holds, Elements
    <2>2. Shaped(Plain("Conditional", <<c, t, f>>))
      BY <1>6, <2>1 DEF Shaped, Plain, MadeKind, MakeConditional
    <2>3. IsForest(heap, <<c, t, f>>) /\ \A k \in Holds(<<c, t, f>>) : IsExpr(k)
      BY <1>6, <2>1, ForestsMoved DEF MakeConditional, Exprs
    <2> QED
      BY <1>2, <1>6, <2>1, <2>2, <2>3 DEF MakeConditional, MadeKind
  <1>7. ASSUME NEW b \in BlockBuilder
        PROVE  /\ b \in Builder /\ Built(b).kids = pending[b] /\ Built(b).kind = "Block"
               /\ Shaped(Built(b)) /\ IsForest(heap, pending[b])
               /\ Holds(pending[b]) \subseteq Live
               /\ \A k \in Holds(pending[b]) : heap[k].kind \notin {"Function", "Module"}
    <2>1. b \in Builder /\ pending[b] \in Seq(Places)
      BY <1>1 DEF Builder, TypeOK, Places
    <2>2. Built(b).kids = pending[b] /\ Built(b).kind = "Block"
      BY DEF Built
    <2>3. Shaped(Built(b))
      BY <2>1, <2>2 DEF Shaped, MadeKind
    <2>4. Holds(pending[b]) \subseteq Live /\ IsForest(heap, pending[b])
      <3>1. Alone(pending[b])
        BY <1>1, LiveNodes, MostAreAlone DEF HeapInv, OwnsOK
      <3> QED
        BY <1>1, <2>1, <3>1, HeapShape DEF TreesInv
    <2>5. \A k \in Holds(pending[b]) : heap[k].kind \notin {"Function", "Module"}
      BY <1>1 DEF KindsOK, IsExpr, Holds
    <2> QED
      BY <2>1, <2>2, <2>3, <2>4, <2>5
  <1>8. ASSUME NEW b \in BlockBuilder, BuildBlock(a, b)
        PROVE  TreesInv'
    <2>1. \A c \in Builder : pending'[c] = pending[c] \/ pending'[c] = <<>>
      BY <1>8 DEF BuildBlock, MovedFrom, Emptied
    <2>2. New(a, Built(b), {})
      BY <1>8 DEF BuildBlock
    <2> QED
      BY <1>7, <2>1, <2>2, TreesNew
  <1>9. CASE BuildModule(a)
    <2> DEFINE cell == Plain("Module", pending["module"])
    <2>1. "module" \in Builder /\ pending["module"] \in Seq(Places)
      BY <1>1 DEF Builder, TypeOK, Places
    <2>2. cell.kids = pending["module"] /\ cell.kind = "Module"
      BY DEF Plain
    <2> HIDE DEF cell
    <2>3. Shaped(cell)
      BY <2>1, <2>2 DEF Shaped, MadeKind
    <2>4. Holds(cell.kids) \subseteq Live /\ (Alone(cell.kids) => IsForest(heap, cell.kids))
      BY <1>1, <2>1, <2>2, HeapShape DEF TreesInv
    <2>5. \A k \in Holds(cell.kids) : heap[k].kind = "Function"
      BY <1>1, <2>2 DEF KindsOK
    <2>6. New(a, cell, {}) /\ \A c \in Builder : pending'[c] = pending[c] \/ pending'[c] = <<>>
      BY <1>9 DEF BuildModule, MovedFrom, Emptied, cell
    <2> QED
      BY <2>2, <2>3, <2>4, <2>5, <2>6, TreesNew
  <1>10. ASSUME NEW body \in Free, BuildFunction(a, body)
         PROVE  TreesInv'
    <2> DEFINE h == Adding(body, Built("function"))
    <2>1. "function" \in BlockBuilder
      BY DEF BlockBuilder
    <2>2. /\ Live' = Live \cup {a, body} /\ {a, body} \cap Live = {} /\ a # body
          /\ a # Null /\ body # Null
          /\ \A n \in Live : heap'[n] = heap[n]
          /\ heap'[body] = Built("function") /\ heap'[a] = Declared(body)
      BY <1>1, <1>10, FunctionHeap
    <2>3. IsHeap(heap) /\ a \in Address /\ body \in Address
      BY <1>1, HeapShape DEF Free
    <2>4. /\ DOMAIN h = Live \cup {body} /\ h[body] = Built("function")
          /\ \A n \in Live : h[n] = heap[n]
      BY <2>2 DEF Adding
    <2> HIDE DEF h
    <2>5. IsForest(h, <<body>>)
      <3>1. /\ body \notin DOMAIN heap /\ DOMAIN h = DOMAIN heap \cup {body}
            /\ \A n \in DOMAIN heap : h[n] = heap[n]
        BY <2>2, <2>4 DEF Live
      <3>2. Shaped(h[body]) /\ IsForest(heap, h[body].kids)
        BY <1>7, <2>1, <2>4
      <3> QED
        BY <2>2, <2>3, <3>1, <3>2, ForestWrap
    <2>6. IsHeap(h)
      <3>1. Shaped(h[body])
        BY <1>7, <2>1, <2>4
      <3> QED
        BY <2>3, <2>4, <3>1 DEF IsHeap, Live
    <2>7. /\ Declared(body).kids = <<body>> /\ Declared(body).kind = "Function"
          /\ Holds(<<body>>) = {body}
      BY <2>2, HoldsOne DEF Declared
    <2>8. Shaped(Declared(body))
      <3>1. <<body>> \in Seq(Places) /\ Len(<<body>>) = 1
        BY <2>3 DEF Places
      <3> QED
        BY <2>7, <3>1 DEF Shaped, MadeKind
    <2>9. IsForest(heap', <<a>>)
      <3>1. /\ a \notin DOMAIN h /\ DOMAIN heap' = DOMAIN h \cup {a}
            /\ \A n \in DOMAIN h : heap'[n] = h[n]
        BY <2>2, <2>4 DEF Live
      <3>2. Shaped(heap'[a]) /\ IsForest(h, heap'[a].kids)
        BY <2>2, <2>5, <2>7, <2>8
      <3> QED
        BY <2>2, <2>3, <2>6, <3>1, <3>2, ForestWrap
    <2>10. \A n \in {a, body} : Shaped(heap'[n])
      BY <1>7, <2>1, <2>2, <2>8
    <2>11. \A n \in {a, body} : \A k \in Holds(heap'[n].kids) :
              /\ heap'[k].kind # "Module"
              /\ heap'[k].kind = "Function" <=> heap'[n].kind = "Module"
      <3>1. \A k \in Holds(heap'[body].kids) : heap'[k].kind \notin {"Function", "Module"}
        BY <1>7, <2>1, <2>2
      <3>2. heap'[body].kind = "Block"
        BY <1>7, <2>1, <2>2
      <3>3. Holds(heap'[a].kids) = {body} /\ heap'[a].kind = "Function"
        BY <2>2, <2>7
      <3> QED
        BY <3>1, <3>2, <3>3
    <2>12. /\ client' \subseteq client \cup {a}
           /\ \A c \in Builder : pending'[c] = pending[c] \/ pending'[c] = <<>>
      BY <1>10 DEF BuildFunction, MovedFrom, Emptied
    <2> DEFINE A == {a, body}
    <2>13. /\ Live' = Live \cup A /\ shared' = shared
           /\ \A n \in A : Shaped(heap'[n])
           /\ \A n \in A : \A k \in Holds(heap'[n].kids) :
                 /\ heap'[k].kind # "Module"
                 /\ heap'[k].kind = "Function" <=> heap'[n].kind = "Module"
      BY <2>2, <2>10, <2>11
    <2> HIDE DEF A
    <2> QED
      BY <2>2, <2>9, <2>12, <2>13, TreesGrow, ZenonT(30)
  <1> QED
    BY <1>3, <1>4, <1>5, <1>6, <1>8, <1>9, <1>10 DEF Construct

LEMMA CollectTrees ==
    ASSUME HeapInv, TreesInv, HeapInv', Collect, UNCHANGED <<shared, intact>>
    PROVE  TreesInv'
  <1>1. TypeOK /\ KindsOK
    BY DEF HeapInv, TreesInv
  <1>2. ASSUME NEW b \in ScopeBuilder, NEW x \in Name, NEW type \in VariableType,
               AddVariable(b, x, type)
        PROVE  TreesInv'
    <2>1. UNCHANGED <<heap, client, pending>>
      BY <1>2 DEF AddVariable
    <2> QED
      BY <2>1 DEF TreesInv, KindsOK, KidsOK, Live, IsExpr, Alone
  <1>3. ASSUME NEW b \in Builder, NEW n \in Movable, Add(b, n),
               n # Null => IF b = "module" THEN heap[n].kind = "Function" ELSE IsExpr(n)
        PROVE  TreesInv'
    <2>1. /\ heap' = heap /\ client' = client \ {n} /\ shared' = shared
          /\ pending'[b] = Append(pending[b], n)
          /\ \A c \in Builder \ {b} : pending'[c] = pending[c]
      BY <1>1, <1>3 DEF Add, TypeOK
    <2>2. pending[b] \in Seq(Places) /\ n \in Places
      BY <1>1, LiveNodes DEF TypeOK, Movable, Places
    <2>3. Holds(pending'[b]) = Holds(pending[b]) \cup ({n} \ {Null})
      BY <2>1, <2>2, HoldsAppend
    <2>4. ASSUME Alone(pending'[b])
          PROVE  IsForest(heap, pending'[b])
      <3>1. Null \notin shared
        BY LiveNodes DEF HeapInv, OwnsOK
      <3>2. Holds(pending'[b]) \cap shared = {}
        BY <2>4 DEF Alone, Holds
      <3>3. Alone(pending[b]) /\ (n # Null => n \notin shared)
        BY <2>3, <3>1, <3>2 DEF Alone, Holds
      <3>4. n \notin Holds(pending[b]) /\ \A k \in Holds(pending[b]) : Parentless(heap, k)
        BY <1>1, <3>3, HeapShape DEF Movable, Holds, Alone
      <3>5. n # Null => heap[n].kind # "Module"
        BY <1>3 DEF IsExpr
      <3> QED
        BY <2>1, <2>2, <3>3, <3>4, <3>5, ForestMoves DEF TreesInv
    <2>5. \A c \in Builder : Alone(pending[c])' => IsForest(heap', pending'[c])
      BY <2>1, <2>4 DEF TreesInv, Alone
    <2>6. \A m \in client' : Alone(heap[m].kids)' => IsForest(heap', <<m>>)
      BY <2>1 DEF TreesInv, Alone
    <2>8. "module" \in Builder /\ BlockBuilder \subseteq Builder /\ "module" \notin BlockBuilder
      BY DEF Builder, BlockBuilder
    <2>9. ASSUME NEW c \in BlockBuilder, NEW k \in Holds(pending'[c])
          PROVE  IsExpr(k)'
      <3>1. IsExpr(k)
        BY <1>1, <1>3, <2>1, <2>3, <2>8, <2>9, ZenonT(30) DEF KindsOK
      <3> QED
        BY <2>1, <3>1 DEF IsExpr
    <2>10. \A k \in Holds(pending'["module"]) \cup shared' : heap'[k].kind = "Function"
      BY <1>1, <1>3, <2>1, <2>3, <2>8 DEF KindsOK
    <2>11. KindsOK'
      BY <1>1, <2>1, <2>9, <2>10 DEF KindsOK, KidsOK, Live
    <2> QED
      BY <2>5, <2>6, <2>11 DEF TreesInv
  <1>4. ASSUME NEW b \in BlockBuilder, NEW e \in Movable, AddExpression(b, e)
        PROVE  TreesInv'
    BY <1>3, <1>4 DEF AddExpression, Builder, BlockBuilder
  <1>5. ASSUME NEW f \in Movable, AddFunction(f)
        PROVE  TreesInv'
    BY <1>3, <1>5 DEF AddFunction, Builder
  <1> QED
    BY <1>2, <1>4, <1>5 DEF Collect

LEMMA DiscardTrees ==
    ASSUME HeapInv, TreesInv, HeapInv', Discard, UNCHANGED <<shared, intact>>
    PROVE  TreesInv'
  <1>1. ASSUME NEW R, Delete(R)
        PROVE  \A n \in Live' : n \in Live /\ heap'[n] = heap[n]
    BY <1>1 DEF Delete, Live
  <1>2. ASSUME NEW n \in client, Destroy(n)
        PROVE  TreesInv'
    <2>1. \A m \in Live' : m \in Live /\ heap'[m] = heap[m]
      BY <1>1, <1>2 DEF Destroy
    <2>2. client' \subseteq client /\ pending' = pending
      BY <1>2 DEF Destroy
    <2> QED
      BY <2>1, <2>2, TreesShrink
  <1>3. ASSUME NEW b \in Builder, DestroyBuilder(b)
        PROVE  TreesInv'
    <2>1. \A m \in Live' : m \in Live /\ heap'[m] = heap[m]
      BY <1>1, <1>3 DEF DestroyBuilder
    <2>2. /\ client' = client
          /\ \A c \in Builder : pending'[c] = pending[c] \/ pending'[c] = <<>>
      BY <1>3 DEF DestroyBuilder, Emptied
    <2> QED
      BY <2>1, <2>2, TreesShrink
  <1>4. ASSUME NEW t \in Movable, NEW f \in Movable, MakeConditionalThrows(t, f)
        PROVE  TreesInv'
    <2>1. \A m \in Live' : m \in Live /\ heap'[m] = heap[m]
      BY <1>1, <1>4 DEF MakeConditionalThrows
    <2>2. client' \subseteq client /\ pending' = pending
      BY <1>4 DEF MakeConditionalThrows
    <2> QED
      BY <2>1, <2>2, TreesShrink
  <1> QED
    BY <1>2, <1>3, <1>4 DEF Discard

(***************************************************************************)
(* A Function that is shared from now on: fewer trees are alone.           *)
(***************************************************************************)
LEMMA PointerTrees ==
    ASSUME HeapInv, TreesInv, NEW f \in Live, AddFunctionPointer(f)
    PROVE  TreesInv'
  <1>1. /\ heap' = heap /\ client' = client /\ shared' = shared \cup {f}
        /\ heap[f].kind = "Function" /\ "module" \in Builder
        /\ pending' = [pending EXCEPT !["module"] = Append(@, f)]
    BY DEF AddFunctionPointer, Builder
  <1>2. /\ f # Null /\ f \in Places /\ pending["module"] \in Seq(Places)
        /\ pending'["module"] = Append(pending["module"], f)
        /\ \A c \in Builder \ {"module"} : pending'[c] = pending[c]
    BY <1>1, LiveNodes DEF HeapInv, TypeOK, Places
  <1>3. Holds(pending'["module"]) = Holds(pending["module"]) \cup {f}
    BY <1>2, HoldsAppend
  <1>4. \A n \in client' : Alone(heap[n].kids)' => IsForest(heap', <<n>>)
    BY <1>1 DEF TreesInv, Alone
  <1>5. ~ Alone(pending["module"])'
    BY <1>1, <1>3 DEF Alone, Holds
  <1>6. \A c \in Builder : Alone(pending[c])' => IsForest(heap', pending'[c])
    BY <1>1, <1>2, <1>5 DEF TreesInv, Alone
  <1>7. KindsOK'
    <2>1. "module" \notin BlockBuilder /\ BlockBuilder \subseteq Builder
      BY DEF Builder, BlockBuilder
    <2>2. \A b \in BlockBuilder : \A k \in Holds(pending'[b]) : IsExpr(k)'
      BY <1>1, <1>2, <2>1 DEF TreesInv, KindsOK, IsExpr
    <2>3. \A k \in Holds(pending'["module"]) \cup shared' : heap'[k].kind = "Function"
      BY <1>1, <1>3 DEF TreesInv, KindsOK
    <2> QED
      BY <1>1, <2>2, <2>3 DEF TreesInv, KindsOK, KidsOK, Live
  <1> QED
    BY <1>4, <1>6, <1>7 DEF TreesInv

LEMMA TreesInitially == Init => TreesInv
  <1> SUFFICES ASSUME Init
               PROVE  TreesInv
    OBVIOUS
  <1>1. Live = {} /\ client = {} /\ shared = {} /\ \A b \in Builder : pending[b] = <<>>
    BY DEF Init, Live
  <1>2. Holds(<<>>) = {}
    BY DEF Holds, Elements
  <1>3. KindsOK
    BY <1>1, <1>2 DEF KindsOK, KidsOK, Builder
  <1> QED
    BY <1>1, <1>3, ForestEmpty DEF TreesInv

LEMMA TreesStep == HeapInv /\ TreesInv /\ HeapInv' /\ [Next]_vars => TreesInv'
  <1> SUFFICES ASSUME HeapInv, TreesInv, HeapInv', [Next]_vars
               PROVE  TreesInv'
    OBVIOUS
  <1>1. CASE UNCHANGED vars
    BY <1>1 DEF vars, TreesInv, KindsOK, KidsOK, Live, IsExpr, Alone
  <1>2. CASE Operation /\ UNCHANGED <<shared, intact>>
    BY <1>2, ConstructTrees, CollectTrees, DiscardTrees DEF Operation
  <1>3. ASSUME NEW f \in Live, AddFunctionPointer(f)
        PROVE  TreesInv'
    BY <1>3, PointerTrees
  <1>4. CASE FreesShared
    BY <1>4 DEF FreesShared, TreesInv, KindsOK, KidsOK, Live, IsExpr, Alone
  <1> QED
    BY <1>1, <1>2, <1>3, <1>4 DEF Next

(***************************************************************************)
(* The nodes of everything the client and the builders hold are laid out.  *)
(***************************************************************************)
THEOREM TreesInvariant == Spec => []TreesInv
  BY HeapInvariant, TreesInitially, TreesStep, PTL DEF Spec

(***************************************************************************)
(* Every Module a client ever holds, and that owns no shared Function, is  *)
(* one of the trees that the walker, the visitors and the code generator   *)
(* are specified, and proved, for.                                         *)
(***************************************************************************)
THEOREM ModulesAreTreesCorrect == Spec => []ModulesAreTrees
  <1>1. HeapInv /\ TreesInv => ModulesAreTrees
    BY ForestIsTree DEF TreesInv, ModulesAreTrees
  <1> QED
    BY <1>1, HeapInvariant, TreesInvariant, PTL

=============================================================================
