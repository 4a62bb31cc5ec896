----------------------- MODULE ImportedBuffersProofs ------------------------
(***************************************************************************)
(* For any number of parameters, handles, buffers and tokens, and however  *)
(* numbers are used again: every descriptor has one owner, every hardware  *)
(* buffer is held as often as it is stored, and a buffer made from a token *)
(* shows the storage of that token.                                        *)
(***************************************************************************)
EXTENDS ImportedBuffers, FiniteSetTheorems, TLAPS

\* An object that is not in use stores nothing; only buffers and tokens store
\* hardware buffers; parameters have one plane.
Unused ==
  /\ \A t \in Tokens : tokens[t] = None => fds[t] = {} /\ ahb[t] = None
  /\ \A b \in Buffers : users[b] = {} => fds[b] = {} /\ ahb[b] = None
  /\ \A p \in Params : params[p] \in {"none", "open"} => fds[p] = {}
  /\ \A x \in Params \cup Handles : ahb[x] = None
  /\ \A p \in Params : \A m, n \in fds[p] : m = n

\* Two files that exist differ in their inodes.
InodesDiffer ==
  /\ \A m, n \in Imports!Open : file[m].ino = file[n].ino => file[m] = file[n]
  /\ \A n \in Imports!Open, f \in guest : file[n].ino = f.ino => file[n] = f
  /\ \A f, g \in guest : f.ino = g.ino => f = g

\* A listed token keeps its file open, and stores what the file stands for.
TokensListed ==
  \A t \in Tokens : tokens[t] # None =>
    /\ fds[t] # {} /\ ahb[t] # None
    /\ \A n \in fds[t] : file[n] = [ino |-> tokens[t], storage |-> ahb[t]]

IInv ==
  /\ Imports!TypeOK /\ Imports!ImportsOwned
  /\ Unused /\ InodesDiffer /\ TokensListed

Holders(a) == {x \in Imports!Objects : ahb[x] = a}

\* The imports count as FiniteSets does.
LEMMA SameCardinality == \A S : Imports!Cardinality(S) = Cardinality(S)
BY Zenon DEF Imports!Cardinality, Cardinality

\* The objects of the imports are of four kinds, and finitely many.
LEMMA ImportFacts ==
  /\ Params \cap (Handles \cup Buffers \cup Tokens) = {}
  /\ Handles \cap (Buffers \cup Tokens) = {} /\ Buffers \cap Tokens = {}
  /\ None \notin Imports!File \cup Ahbs \cup Inodes
  /\ IsFiniteSet(Imports!Objects)
BY ImportAssumption DEF File, Objects, Imports!File, Imports!Objects

\* A finite number of objects holds each hardware buffer.
LEMMA HoldersFinite == \A a : IsFiniteSet(Holders(a)) /\ Imports!Cardinality(Holders(a)) \in Nat
<1> SUFFICES ASSUME NEW a PROVE IsFiniteSet(Holders(a)) /\ Imports!Cardinality(Holders(a)) \in Nat
  OBVIOUS
<1>1. Holders(a) \in SUBSET Imports!Objects /\ IsFiniteSet(Imports!Objects)
  BY ImportFacts DEF Holders
<1>2. IsFiniteSet(Holders(a))  BY <1>1, FS_Subset
<1>. QED  BY <1>2, FS_CardinalityType, SameCardinality

\* AHardwareBuffer_acquire: one more object stores a, and one more reference counts it.
LEMMA TakeReference ==
  ASSUME Imports!TypeOK, Imports!ReferencesExact, NEW x \in Imports!Objects, NEW a \in Ahbs, ahb[x] = None,
         ahb' = [ahb EXCEPT ![x] = a], refs' = [refs EXCEPT ![a] = refs[a] + 1]
  PROVE  Imports!ReferencesExact' /\ refs' \in [Ahbs -> Nat] /\ ahb' \in [Imports!Objects -> Ahbs \cup {None}]
<1>1. ASSUME NEW c \in Ahbs PROVE refs'[c] = Imports!Cardinality(Holders(c)')
  <2>1. CASE c = a
    <3>1. Holders(a)' = Holders(a) \cup {x} /\ x \notin Holders(a)
      BY ImportFacts DEF Holders, Imports!TypeOK
    <3>2. IsFiniteSet(Holders(a)) /\ Imports!Cardinality(Holders(a)) \in Nat  BY HoldersFinite
    <3>3. Imports!Cardinality(Holders(a) \cup {x}) = Imports!Cardinality(Holders(a)) + 1
      BY <3>1, <3>2, FS_AddElement, SameCardinality, Zenon
    <3>. QED  BY <2>1, <3>1, <3>3, Zenon DEF Imports!ReferencesExact, Holders, Imports!TypeOK
  <2>2. CASE c # a
    <3>1. Holders(c)' = Holders(c)  BY <2>2, ImportFacts DEF Holders, Imports!TypeOK
    <3>. QED  BY <2>2, <3>1 DEF Imports!ReferencesExact, Holders, Imports!TypeOK
  <2>. QED  BY <2>1, <2>2
<1>2. Imports!ReferencesExact'  BY <1>1 DEF Imports!ReferencesExact, Holders
<1>. QED  BY <1>2 DEF Imports!TypeOK

\* close and AHardwareBuffer_release of all the objects xs store leave the others theirs.
LEMMA DropFacts ==
  ASSUME Imports!TypeOK, Imports!ImportsOwned, NEW xs \in SUBSET Imports!Objects, Imports!Drop(xs)
  PROVE  /\ Imports!ImportsOwned'
         /\ file' \in [Fds -> Imports!File \cup {None}] /\ fds' \in [Imports!Objects -> SUBSET Fds]
         /\ ahb' \in [Imports!Objects -> Ahbs \cup {None}] /\ refs' \in [Ahbs -> Nat]
         /\ \A n \in Fds : file'[n] \in {file[n], None}
         /\ \A x \in Imports!Objects \ xs : fds'[x] = fds[x] /\ ahb'[x] = ahb[x]
                                   /\ \A n \in fds[x] : file'[n] = file[n]
         /\ \A x \in xs : fds'[x] = {} /\ ahb'[x] = None
<1>1. /\ file' \in [Fds -> Imports!File \cup {None}] /\ fds' \in [Imports!Objects -> SUBSET Fds]
      /\ ahb' \in [Imports!Objects -> Ahbs \cup {None}]
      /\ \A n \in Fds : file'[n] \in {file[n], None}
      /\ \A x \in xs : fds'[x] = {} /\ ahb'[x] = None
      /\ \A x \in Imports!Objects \ xs : fds'[x] = fds[x] /\ ahb'[x] = ahb[x]
  BY DEF Imports!Drop, Imports!TypeOK
<1>2. \A x \in Imports!Objects \ xs : \A n \in fds[x] : file'[n] = file[n]
  BY DEF Imports!Drop, Imports!TypeOK, Imports!ImportsOwned, Imports!DescriptorsOwned
<1>3. Imports!DescriptorsOwned'
  <2>1. \A x, y \in Imports!Objects : x # y => fds'[x] \cap fds'[y] = {}
    BY <1>1 DEF Imports!ImportsOwned, Imports!DescriptorsOwned
  <2>2. ASSUME NEW n \in Fds PROVE file'[n] # None <=> \E x \in Imports!Objects : n \in fds'[x]
    BY <1>1 DEF Imports!Drop, Imports!TypeOK, Imports!ImportsOwned, Imports!DescriptorsOwned,
                Imports!Open
  <2>. QED  BY <1>1, <2>1, <2>2 DEF Imports!DescriptorsOwned, Imports!Open
<1>4. ASSUME NEW a \in Ahbs PROVE refs'[a] = Imports!Cardinality(Holders(a)') /\ refs'[a] \in Nat
  <2>1. Holders(a)' = Holders(a) \ {x \in xs : ahb[x] = a}
    BY <1>1, ImportFacts DEF Holders
  <2>2. Holders(a) \cap {x \in xs : ahb[x] = a} = {x \in xs : ahb[x] = a}  BY DEF Holders
  <2>3. IsFiniteSet(Holders(a))  BY HoldersFinite
  <2>4. /\ IsFiniteSet(Holders(a)')
        /\ Imports!Cardinality(Holders(a)') = Imports!Cardinality(Holders(a)) - Imports!Cardinality({x \in xs : ahb[x] = a})
    <3>1. \A S, T : IsFiniteSet(S) =>
            IsFiniteSet(S \ T) /\ Imports!Cardinality(S \ T) = Imports!Cardinality(S) - Imports!Cardinality(S \cap T)
      BY FS_Difference, SameCardinality
    <3>2. LET T == {x \in xs : ahb[x] = a} IN
            /\ IsFiniteSet(Holders(a) \ T)
            /\ Imports!Cardinality(Holders(a) \ T) = Imports!Cardinality(Holders(a)) - Imports!Cardinality(Holders(a) \cap T)
      BY <2>3, <3>1, Zenon
    <3>. QED  BY <2>1, <2>2, <3>2, Zenon
  <2>5. Imports!Cardinality(Holders(a)') \in Nat  BY <2>4, FS_CardinalityType, SameCardinality
  <2>6. refs'[a] = refs[a] - Imports!Cardinality({x \in xs : ahb[x] = a})  BY DEF Imports!Drop
  <2>7. refs[a] = Imports!Cardinality(Holders(a))
    BY DEF Imports!ImportsOwned, Imports!ReferencesExact, Holders
  <2>. QED  BY <2>4, <2>5, <2>6, <2>7
<1>5. Imports!ReferencesExact' /\ refs' \in [Ahbs -> Nat]
  <2>1. refs' = [a \in Ahbs |-> refs'[a]]  BY DEF Imports!Drop
  <2>. QED  BY <1>4, <2>1, Zenon DEF Imports!ReferencesExact, Holders
<1>6. Imports!ShowsItsToken'
  <2>1. Buffers \subseteq Imports!Objects  BY DEF Imports!Objects
  <2>. QED  BY <1>1, <1>2, <2>1 DEF Imports!ImportsOwned, Imports!ShowsItsToken
<1>. QED  BY <1>1, <1>2, <1>3, <1>5, <1>6 DEF Imports!ImportsOwned

\* Dropping what objects store keeps the invariant, when a token goes off the list
\* with its storage.
LEMMA DropInv ==
  ASSUME IInv, NEW xs \in SUBSET Imports!Objects, Imports!Drop(xs), guest' = guest,
         tokens' = [t \in Tokens |-> IF t \in xs THEN None ELSE tokens[t]],
         users' \in [Buffers -> SUBSET {"resource", "surface"}],
         \A b \in Buffers : users'[b] = users[b] \/ (users'[b] = {} => b \in xs),
         params' \in [Params -> {"none", "open", "added", "used"}],
         \A p \in Params : params'[p] = params[p] \/ (params'[p] \in {"none", "open"} => p \in xs),
         expected' \in [Handles -> Expected \cup {None}],
         i_running' \in BOOLEAN, failed' \in BOOLEAN
  PROVE  IInv'
<1>0. Imports!TypeOK /\ Imports!ImportsOwned  BY DEF IInv
<1>1. /\ Imports!ImportsOwned'
      /\ file' \in [Fds -> Imports!File \cup {None}] /\ fds' \in [Imports!Objects -> SUBSET Fds]
      /\ ahb' \in [Imports!Objects -> Ahbs \cup {None}] /\ refs' \in [Ahbs -> Nat]
      /\ \A n \in Fds : file'[n] \in {file[n], None}
      /\ \A x \in Imports!Objects \ xs : fds'[x] = fds[x] /\ ahb'[x] = ahb[x]
                                /\ \A n \in fds[x] : file'[n] = file[n]
      /\ \A x \in xs : fds'[x] = {} /\ ahb'[x] = None
  BY <1>0, DropFacts
<1>2. Imports!TypeOK'  BY <1>0, <1>1 DEF Imports!TypeOK
<1>3. Unused'  BY <1>1 DEF IInv, Unused, Imports!Objects
<1>4. InodesDiffer'  BY <1>1, <1>0 DEF IInv, InodesDiffer, Imports!Open
<1>5. TokensListed'
  <2> SUFFICES ASSUME NEW t \in Tokens, tokens'[t] # None
               PROVE  /\ fds'[t] # {} /\ ahb'[t] # None
                      /\ \A n \in fds'[t] : file'[n] = [ino |-> tokens'[t], storage |-> ahb'[t]]
    BY DEF TokensListed
  <2>1. t \in Imports!Objects \ xs /\ tokens'[t] = tokens[t]  BY DEF Imports!Objects
  <2>2. /\ fds[t] # {} /\ ahb[t] # None
        /\ \A n \in fds[t] : file[n] = [ino |-> tokens[t], storage |-> ahb[t]]
    BY <2>1 DEF IInv, TokensListed
  <2>. QED  BY <1>1, <2>1, <2>2
<1>. QED  BY <1>1, <1>2, <1>3, <1>4, <1>5 DEF IInv

\* A descriptor that arrives is given a free number and one owner.
LEMMA ReceiveFacts ==
  ASSUME IInv, NEW f, NEW n \in Fds, NEW x \in Params \cup Handles, Imports!Receive(f, n, x),
         UNCHANGED <<guest, ahb, refs, tokens>>
  PROVE  /\ Imports!ImportsOwned' /\ InodesDiffer' /\ TokensListed'
         /\ file' \in [Fds -> Imports!File \cup {None}] /\ fds' \in [Imports!Objects -> SUBSET Fds]
<1>0. Imports!TypeOK /\ Imports!ImportsOwned /\ InodesDiffer /\ TokensListed  BY DEF IInv
<1>1. /\ x \in Imports!Objects /\ f \in Imports!File /\ f \in guest /\ f # None /\ file[n] = None
      /\ file' = [file EXCEPT ![n] = f] /\ fds' = [fds EXCEPT ![x] = fds[x] \cup {n}]
  BY <1>0, ImportFacts DEF Imports!Receive, Imports!Objects, Imports!TypeOK, Imports!Open
<1>2. file' \in [Fds -> Imports!File \cup {None}] /\ fds' \in [Imports!Objects -> SUBSET Fds]
  BY <1>0, <1>1 DEF Imports!TypeOK
<1>3. \A y \in Imports!Objects : n \notin fds[y]
  BY <1>0, <1>1 DEF Imports!ImportsOwned, Imports!DescriptorsOwned, Imports!Open
<1>4. Imports!DescriptorsOwned'
  <2>1. \A y, z \in Imports!Objects : y # z => fds'[y] \cap fds'[z] = {}
    BY <1>0, <1>1, <1>3 DEF Imports!ImportsOwned, Imports!DescriptorsOwned, Imports!TypeOK
  <2>2. ASSUME NEW m \in Fds PROVE file'[m] # None <=> \E y \in Imports!Objects : m \in fds'[y]
    BY <1>0, <1>1 DEF Imports!TypeOK, Imports!ImportsOwned, Imports!DescriptorsOwned, Imports!Open
  <2>. QED  BY <1>2, <2>1, <2>2 DEF Imports!DescriptorsOwned, Imports!Open
<1>5. Imports!ReferencesExact'  BY <1>0 DEF Imports!ImportsOwned, Imports!ReferencesExact
<1>6. x \notin Buffers \cup Tokens  BY ImportFacts
<1>7. Imports!ShowsItsToken'
  BY <1>0, <1>1, <1>3, <1>6 DEF Imports!ImportsOwned, Imports!ShowsItsToken, Imports!TypeOK,
                                Imports!Objects
<1>8. InodesDiffer'  BY <1>0, <1>1 DEF InodesDiffer, Imports!Open, Imports!TypeOK
<1>9. TokensListed'  BY <1>0, <1>1, <1>3, <1>6 DEF TokensListed, Imports!TypeOK, Imports!Objects
<1>. QED  BY <1>2, <1>4, <1>5, <1>7, <1>8, <1>9 DEF Imports!ImportsOwned

\* Before the service starts there is nothing.
LEMMA InitInv == Imports!Init => IInv
<1> SUFFICES ASSUME Imports!Init PROVE IInv  OBVIOUS
<1>1. Imports!TypeOK  BY Zenon DEF Imports!Init, Imports!TypeOK
<1>2. Imports!DescriptorsOwned /\ Imports!ShowsItsToken
  BY DEF Imports!Init, Imports!DescriptorsOwned, Imports!ShowsItsToken, Imports!Open, Imports!Objects
<1>3. ASSUME NEW a \in Ahbs PROVE refs[a] = Imports!Cardinality({x \in Imports!Objects : ahb[x] = a})
  <2>1. {x \in Imports!Objects : ahb[x] = a} = {}  BY ImportFacts DEF Imports!Init
  <2>. QED  BY <2>1, FS_EmptySet, SameCardinality DEF Imports!Init
<1>4. Unused /\ InodesDiffer /\ TokensListed
  BY DEF Imports!Init, Unused, InodesDiffer, TokensListed, Imports!Open, Imports!Objects
<1>. QED  BY <1>1, <1>2, <1>3, <1>4 DEF IInv, Imports!ImportsOwned, Imports!ReferencesExact

\* Every request, and every step of the token service, keeps the invariant.
LEMMA StepInv == IInv /\ [Imports!Next]_Imports!vars => IInv'
<1> SUFFICES ASSUME IInv, [Imports!Next]_Imports!vars PROVE IInv'  OBVIOUS
<1> USE ImportFacts
<1>0. /\ Imports!TypeOK /\ Imports!DescriptorsOwned /\ Imports!ReferencesExact /\ Imports!ShowsItsToken
      /\ Unused /\ InodesDiffer /\ TokensListed
  BY DEF IInv, Imports!ImportsOwned
<1>k. ASSUME UNCHANGED <<file, fds, ahb, refs, tokens>>, Imports!TypeOK', Unused', InodesDiffer' PROVE IInv'
  BY <1>0, <1>k DEF IInv, Imports!ImportsOwned, Imports!DescriptorsOwned, Imports!ReferencesExact,
                    Imports!ShowsItsToken,
                    TokensListed, Imports!Open
<1>u. ASSUME UNCHANGED <<file, guest, fds, ahb, refs, params, users, tokens>>, Imports!TypeOK' PROVE IInv'
  <2>1. Unused'  BY <1>0, <1>u DEF Unused
  <2>2. InodesDiffer'  BY <1>0, <1>u DEF InodesDiffer, Imports!Open
  <2>. QED  BY <1>k, <1>u, <2>1, <2>2
<1>1. ASSUME Imports!Guest PROVE IInv'
  <2>1. Imports!TypeOK' /\ Unused' /\ UNCHANGED <<file, fds, ahb, refs, tokens>>
    BY <1>0, <1>1 DEF Imports!Guest, Imports!GuestCreatesFile, Imports!GuestCloses, Imports!TypeOK,
                      Unused, Imports!objectVars, Imports!File
  <2>2. InodesDiffer'
    BY <1>0, <1>1 DEF Imports!Guest, Imports!GuestCreatesFile, Imports!GuestCloses, InodesDiffer,
                      Imports!InodesInUse, Imports!Open
  <2>. QED  BY <1>k, <2>1, <2>2
<1>2. ASSUME NEW t \in Tokens, NEW n \in Fds, NEW i \in Inodes, NEW a \in Ahbs, NEW arrives \in BOOLEAN,
             Imports!handle_client(t, n, i, a, arrives)
      PROVE  IInv'
  <2> DEFINE g == [ino |-> i, storage |-> a]
  <2>a. /\ t \in Imports!Objects /\ t \notin Buffers \cup Params \cup Handles
        /\ tokens[t] = None /\ fds[t] = {} /\ ahb[t] = None /\ file[n] = None /\ i \notin Imports!InodesInUse
        /\ g \in Imports!File /\ g # None
    BY <1>0, <1>2 DEF Imports!handle_client, Unused, Imports!Objects, Imports!Open, Imports!File
  <2>b. /\ file' = [file EXCEPT ![n] = g] /\ fds' = [fds EXCEPT ![t] = {n}]
        /\ ahb' = [ahb EXCEPT ![t] = a] /\ refs' = [refs EXCEPT ![a] = refs[a] + 1]
        /\ tokens' = [tokens EXCEPT ![t] = i] /\ guest' \in {guest, guest \cup {g}}
        /\ UNCHANGED <<params, expected, users, i_running, failed>>
    BY <1>2 DEF Imports!handle_client, Imports!Put
  <2>c. \A y \in Imports!Objects : n \notin fds[y]
    BY <1>0, <2>a DEF Imports!DescriptorsOwned, Imports!Open
  <2>1. Imports!ReferencesExact' /\ refs' \in [Ahbs -> Nat] /\ ahb' \in [Imports!Objects -> Ahbs \cup {None}]
    BY <1>0, <2>a, <2>b, TakeReference, Zenon
  <2>2. Imports!TypeOK'  BY <1>0, <2>a, <2>b, <2>1 DEF Imports!TypeOK
  <2>3. Imports!DescriptorsOwned'
    <3>1. \A y, z \in Imports!Objects : y # z => fds'[y] \cap fds'[z] = {}
      BY <1>0, <2>a, <2>b, <2>c DEF Imports!DescriptorsOwned, Imports!TypeOK
    <3>2. ASSUME NEW m \in Fds PROVE file'[m] # None <=> \E y \in Imports!Objects : m \in fds'[y]
      BY <1>0, <2>a, <2>b DEF Imports!TypeOK, Imports!DescriptorsOwned, Imports!Open
    <3>. QED  BY <2>2, <3>1, <3>2 DEF Imports!DescriptorsOwned, Imports!Open, Imports!TypeOK
  <2>4. Imports!ShowsItsToken'
    BY <1>0, <2>a, <2>b, <2>c, SMTT(30) DEF Imports!ShowsItsToken, Imports!TypeOK, Imports!Objects
  <2>5. Unused'  BY <1>0, <2>a, <2>b DEF Unused, Imports!TypeOK, Imports!Objects
  <2>6. InodesDiffer'
    <3>1. /\ \A m \in Fds : file'[m] = IF m = n THEN g ELSE file[m]
          /\ \A m \in Imports!Open : file[m].ino # i
          /\ \A f \in guest : f.ino # i
      BY <1>0, <2>a, <2>b DEF Imports!InodesInUse, Imports!TypeOK
    <3>. QED  BY <1>0, <2>b, <3>1 DEF InodesDiffer, Imports!Open
  <2>7. TokensListed'
    <3> SUFFICES ASSUME NEW s \in Tokens, tokens'[s] # None
                 PROVE  /\ fds'[s] # {} /\ ahb'[s] # None
                        /\ \A m \in fds'[s] : file'[m] = [ino |-> tokens'[s], storage |-> ahb'[s]]
      BY Zenon DEF TokensListed
    <3>1. CASE s = t  BY <1>0, <2>a, <2>b, <3>1 DEF Imports!TypeOK
    <3>2. CASE s # t
      <4>1. /\ fds'[s] = fds[s] /\ ahb'[s] = ahb[s] /\ tokens'[s] = tokens[s] /\ s \in Imports!Objects
        BY <1>0, <2>b, <3>2 DEF Imports!TypeOK, Imports!Objects
      <4>. QED  BY <1>0, <2>b, <2>c, <4>1 DEF TokensListed, Imports!TypeOK
    <3>. QED  BY <3>1, <3>2
  <2>. QED  BY <2>1, <2>2, <2>3, <2>4, <2>5, <2>6, <2>7 DEF IInv, Imports!ImportsOwned
<1>3. ASSUME Imports!tvg_scanout_start PROVE IInv'
  <2>1. UNCHANGED <<file, guest, fds, ahb, refs, params, users, tokens>>
    BY <1>3 DEF Imports!tvg_scanout_start
  <2>2. Imports!TypeOK'  BY <1>0, <1>3 DEF Imports!tvg_scanout_start, Imports!TypeOK
  <2>. QED  BY <1>u, <2>1, <2>2
<1>4. ASSUME Imports!tvg_scanout_stop PROVE IInv'
  <2>1. Tokens \in SUBSET Imports!Objects  BY DEF Imports!Objects
  <2>. QED  BY <1>0, <1>4, <2>1, DropInv, Zenon DEF Imports!tvg_scanout_stop, Imports!TypeOK
<1>5. ASSUME NEW p \in Params, Imports!dmabuf_create_params(p) PROVE IInv'
  <2>1. /\ params[p] = "none" /\ params' = [params EXCEPT ![p] = "open"]
        /\ UNCHANGED <<file, guest, fds, ahb, refs, expected, users, tokens, i_running, failed>>
    BY <1>5 DEF Imports!dmabuf_create_params
  <2>2. Imports!TypeOK'  BY <1>0, <2>1 DEF Imports!TypeOK
  <2>3. Unused'
    <3>1. \A q \in Params : params'[q] \in {"none", "open"} => params[q] \in {"none", "open"}
      BY <1>0, <2>1 DEF Imports!TypeOK
    <3>. QED  BY <1>0, <2>1, <3>1 DEF Unused
  <2>4. InodesDiffer'  BY <1>0, <2>1 DEF InodesDiffer, Imports!Open
  <2>. QED  BY <1>k, <2>1, <2>2, <2>3, <2>4
<1>6. ASSUME NEW p \in Params, Imports!params_resource_destroy(p) PROVE IInv'
  <2>1. {p} \in SUBSET Imports!Objects  BY DEF Imports!Objects
  <2>2. tokens' = [t \in Tokens |-> IF t \in {p} THEN None ELSE tokens[t]]
    BY <1>0, <1>6 DEF Imports!params_resource_destroy, Imports!TypeOK
  <2>3. /\ params' \in [Params -> {"none", "open", "added", "used"}]
        /\ \A q \in Params : params'[q] = params[q] \/ (params'[q] \in {"none", "open"} => q \in {p})
    BY <1>0, <1>6 DEF Imports!params_resource_destroy, Imports!TypeOK
  <2>. QED
    BY <1>0, <1>6, <2>1, <2>2, <2>3, DropInv DEF Imports!params_resource_destroy, Imports!TypeOK
<1>7. ASSUME NEW p \in Params, NEW f \in guest, NEW n \in Fds, NEW plane \in 0..1,
             Imports!params_add(p, f, n, plane)
      PROVE  IInv'
  <2>1. CASE params[p] = "open" /\ plane = 0
    <3>1. /\ Imports!Receive(f, n, p) /\ params' = [params EXCEPT ![p] = "added"]
          /\ UNCHANGED <<guest, ahb, refs, expected, users, tokens, i_running, failed>>
      BY <1>7, <2>1 DEF Imports!params_add
    <3>2. /\ Imports!ImportsOwned' /\ InodesDiffer' /\ TokensListed'
          /\ file' \in [Fds -> Imports!File \cup {None}] /\ fds' \in [Imports!Objects -> SUBSET Fds]
      BY <3>1, ReceiveFacts
    <3>3. Imports!TypeOK'  BY <1>0, <3>1, <3>2 DEF Imports!TypeOK
    <3>4. Unused'
      BY <1>0, <2>1, <3>1 DEF Unused, Imports!Receive, Imports!TypeOK, Imports!Objects
    <3>. QED  BY <3>2, <3>3, <3>4 DEF IInv
  <2>2. CASE ~(params[p] = "open" /\ plane = 0)
    <3>1. failed' = TRUE /\ UNCHANGED <<file, guest, fds, ahb, refs, params, expected, users, tokens, i_running>>
      BY <1>7, <2>2 DEF Imports!params_add
    <3>2. Imports!TypeOK'  BY <1>0, <3>1 DEF Imports!TypeOK
    <3>. QED  BY <1>u, <3>1, <3>2
  <2>. QED  BY <2>1, <2>2
<1>8. ASSUME NEW p \in Params, NEW b \in Buffers, NEW result \in {"refused", "no_memory", "created"},
             NEW immediate \in BOOLEAN, Imports!params_create(p, b, result, immediate)
      PROVE  IInv'
  <2>0. /\ p \in Imports!Objects /\ b \in Imports!Objects /\ p # b /\ p \notin Tokens /\ b \notin Tokens \cup Params \cup Handles
    BY DEF Imports!Objects
  <2>a. /\ params' = [params EXCEPT ![p] = "used"] /\ failed' \in BOOLEAN
        /\ Imports!make_dmabuf_buffer(p, b, result) /\ UNCHANGED <<guest, expected, tokens, i_running>>
    BY <1>8 DEF Imports!params_create
  <2>b. /\ params' \in [Params -> {"none", "open", "added", "used"}]
        /\ \A q \in Params : params'[q] = params[q] \/ params'[q] = "used"
    BY <1>0, <2>a DEF Imports!TypeOK
  <2>1. CASE result = "refused"
    <3>1. UNCHANGED <<file, fds, ahb, refs, users>>  BY <2>a, <2>1 DEF Imports!make_dmabuf_buffer
    <3>2. Imports!TypeOK'  BY <1>0, <2>a, <2>b, <3>1 DEF Imports!TypeOK
    <3>3. Unused'  BY <1>0, <2>a, <2>b, <3>1 DEF Unused
    <3>4. InodesDiffer'  BY <1>0, <2>a, <3>1 DEF InodesDiffer, Imports!Open
    <3>. QED  BY <1>k, <2>a, <3>1, <3>2, <3>3, <3>4
  <2>2. CASE result = "no_memory"
    <3>1. Imports!Drop({p}) /\ UNCHANGED users  BY <2>a, <2>2 DEF Imports!make_dmabuf_buffer
    <3>2. {p} \in SUBSET Imports!Objects  BY <2>0
    <3>3. tokens' = [t \in Tokens |-> IF t \in {p} THEN None ELSE tokens[t]]
      BY <1>0, <2>0, <2>a DEF Imports!TypeOK
    <3>. QED  BY <1>0, <2>a, <2>b, <3>1, <3>2, <3>3, DropInv DEF Imports!TypeOK
  <2>3. CASE result = "created"
    <3>a. /\ users[b] = {} /\ fds[p] # {} /\ fds[b] = {} /\ ahb[b] = None
          /\ users' = [users EXCEPT ![b] = {"resource"}]
          /\ fds' = [fds EXCEPT ![p] = {}, ![b] = fds[p]] /\ UNCHANGED file
      BY <1>0, <2>a, <2>3 DEF Imports!make_dmabuf_buffer, Unused
    <3>b. PICK n \in Fds : fds[p] = {n} /\ n \in Imports!Open
      <4>1. PICK n \in fds[p] : TRUE  BY <3>a
      <4>2. n \in Imports!Open /\ n \in Fds
        BY <1>0, <2>0, SMTT(30) DEF Imports!DescriptorsOwned, Imports!Open
      <4>3. \A m \in fds[p] : m = n  BY <1>0 DEF Unused
      <4>. QED  BY <4>1, <4>2, <4>3
    <3>c. /\ fds'[p] = {} /\ fds'[b] = {n}
          /\ \A y \in Imports!Objects : y # p /\ y # b => fds'[y] = fds[y]
          /\ fds' \in [Imports!Objects -> SUBSET Fds]
      BY <1>0, <2>0, <3>a, <3>b DEF Imports!TypeOK
    <3>d. \/ UNCHANGED <<ahb, refs>>
          \/ \E t \in Tokens : /\ tokens[t] = file[n].ino
                              /\ ahb' = [ahb EXCEPT ![b] = ahb[t]]
                              /\ refs' = [refs EXCEPT ![ahb[t]] = refs[ahb[t]] + 1]
      <4>1. UNION {Imports!tvg_scanout_lookup_fd(m) : m \in fds[p]} = Imports!tvg_scanout_lookup_fd(n)
        BY <3>b
      <4>2. CASE Imports!tvg_scanout_lookup_fd(n) = {}
        BY <2>a, <2>3, <4>1, <4>2 DEF Imports!make_dmabuf_buffer
      <4>3. CASE Imports!tvg_scanout_lookup_fd(n) # {}
        <5> DEFINE t == CHOOSE t \in Imports!tvg_scanout_lookup_fd(n) : TRUE
        <5>1. t \in Tokens /\ tokens[t] = file[n].ino  BY <4>3 DEF Imports!tvg_scanout_lookup_fd
        <5>2. /\ ahb' = [ahb EXCEPT ![b] = ahb[t]]
              /\ refs' = [refs EXCEPT ![ahb[t]] = refs[ahb[t]] + 1]
          BY <2>a, <2>3, <4>1, <4>3, Zenon DEF Imports!make_dmabuf_buffer
        <5>. QED  BY <5>1, <5>2, Zenon
      <4>. QED  BY <4>2, <4>3
    <3>e. \/ UNCHANGED <<ahb, refs>>
          \/ \E a \in Ahbs : /\ file[n].storage = a /\ ahb' = [ahb EXCEPT ![b] = a]
                             /\ refs' = [refs EXCEPT ![a] = refs[a] + 1]
      <4>1. SUFFICES ASSUME NEW t \in Tokens, tokens[t] = file[n].ino
                     PROVE  ahb[t] \in Ahbs /\ file[n].storage = ahb[t]
        BY <3>d
      <4>a. file[n] \in Imports!File  BY <1>0, <3>b DEF Imports!TypeOK, Imports!Open
      <4>2. tokens[t] # None  BY <4>1, <4>a DEF Imports!File
      <4>3. PICK m \in fds[t] : file[m] = [ino |-> tokens[t], storage |-> ahb[t]]
        BY <1>0, <4>2 DEF TokensListed
      <4>4. m \in Imports!Open  BY <1>0 DEF Imports!DescriptorsOwned, Imports!Objects
      <4>b. file[m].ino = tokens[t] /\ file[m].storage = ahb[t]
        <5> DEFINE g == [ino |-> tokens[t], storage |-> ahb[t]]
        <5>1. g.ino = tokens[t] /\ g.storage = ahb[t]  OBVIOUS
        <5>2. file[m] = g  BY <4>3
        <5> HIDE DEF g
        <5>. QED  BY <5>1, <5>2
      <4>5. file[m] = file[n]  BY <1>0, <3>b, <4>1, <4>b, <4>4 DEF InodesDiffer
      <4>6. ahb[t] # None /\ t \in Imports!Objects
        BY <1>0, <4>2, Zenon DEF TokensListed, Imports!Objects
      <4>. QED  BY <1>0, <4>b, <4>5, <4>6 DEF Imports!TypeOK
    <3>1. /\ Imports!ReferencesExact' /\ refs' \in [Ahbs -> Nat] /\ ahb' \in [Imports!Objects -> Ahbs \cup {None}]
          /\ \A y \in Imports!Objects : y # b => ahb'[y] = ahb[y]
          /\ ahb'[b] # None => file[n].storage = ahb'[b]
      <4>1. CASE UNCHANGED <<ahb, refs>>
        <5>1. Imports!ReferencesExact'  BY <1>0, <4>1 DEF Imports!ReferencesExact
        <5>. QED  BY <1>0, <3>a, <4>1, <5>1 DEF Imports!TypeOK
      <4>2. CASE \E a \in Ahbs : /\ file[n].storage = a /\ ahb' = [ahb EXCEPT ![b] = a]
                               /\ refs' = [refs EXCEPT ![a] = refs[a] + 1]
        <5>1. PICK a \in Ahbs : /\ file[n].storage = a /\ ahb' = [ahb EXCEPT ![b] = a]
                                /\ refs' = [refs EXCEPT ![a] = refs[a] + 1]
          BY <4>2, Zenon
        <5>2. Imports!ReferencesExact' /\ refs' \in [Ahbs -> Nat] /\ ahb' \in [Imports!Objects -> Ahbs \cup {None}]
          BY <1>0, <2>0, <3>a, <5>1, TakeReference, Zenon
        <5>. QED  BY <1>0, <2>0, <5>1, <5>2 DEF Imports!TypeOK
      <4>. QED  BY <3>e, <4>1, <4>2
    <3>2. Imports!TypeOK'  BY <1>0, <2>a, <2>b, <3>a, <3>c, <3>1, SMTT(30) DEF Imports!TypeOK
    <3>3. Imports!DescriptorsOwned'
      <4>1. \A y, z \in Imports!Objects : y # z => fds'[y] \cap fds'[z] = {}
        BY <1>0, <2>0, <3>a, <3>b, <3>c DEF Imports!DescriptorsOwned
      <4>2. ASSUME NEW m \in Fds PROVE file'[m] # None <=> \E y \in Imports!Objects : m \in fds'[y]
        <5>1. (\E y \in Imports!Objects : m \in fds'[y]) <=> \E y \in Imports!Objects : m \in fds[y]
          BY <2>0, <3>a, <3>b, <3>c
        <5>2. file[m] # None <=> \E y \in Imports!Objects : m \in fds[y]
          <6>1. Imports!Open = UNION {fds[y] : y \in Imports!Objects}
            BY <1>0 DEF Imports!DescriptorsOwned
          <6>2. m \in Imports!Open <=> file[m] # None  BY DEF Imports!Open
          <6>. QED  BY <6>1, <6>2
        <5>. QED  BY <3>a, <5>1, <5>2, Zenon
      <4>3. \A y \in Imports!Objects : fds'[y] \subseteq Fds  BY <3>c
      <4>4. Imports!Open' = UNION {fds'[y] : y \in Imports!Objects}
        BY <4>2, <4>3, SMTT(30) DEF Imports!Open
      <4>. QED  BY <4>1, <4>4 DEF Imports!DescriptorsOwned
    <3>4. Imports!ShowsItsToken'
      <4>1. \A c \in Buffers : c # b => c \in Imports!Objects /\ c # p /\ fds'[c] = fds[c] /\ ahb'[c] = ahb[c]
        BY <3>c, <3>1 DEF Imports!Objects
      <4>. QED  BY <1>0, <3>a, <3>c, <3>1, <4>1 DEF Imports!ShowsItsToken
    <3>5. Unused'
      <4>1. \A y \in Imports!Objects : y # b => ahb'[y] = ahb[y] /\ (fds'[y] = {} \/ fds'[y] = fds[y])
        BY <3>c, <3>1
      <4>2. \A c \in Buffers : users'[c] = {} => c # b /\ users[c] = {}
        BY <1>0, <3>a, SMTT(30) DEF Imports!TypeOK
      <4>3. \A q \in Params : params'[q] \in {"none", "open"} => params[q] \in {"none", "open"}
        BY <2>b
      <4>4. \A t \in Tokens : tokens'[t] = None => fds'[t] = {} /\ ahb'[t] = None
        BY <1>0, <2>0, <2>a, <4>1, SMTT(30) DEF Unused, Imports!Objects
      <4>5. \A c \in Buffers : users'[c] = {} => fds'[c] = {} /\ ahb'[c] = None
        BY <1>0, <4>1, <4>2 DEF Unused, Imports!Objects
      <4>c. \A q \in Params : fds'[q] = {} \/ fds'[q] = fds[q]  BY <2>0, <4>1 DEF Imports!Objects
      <4>6. /\ \A q \in Params : params'[q] \in {"none", "open"} => fds'[q] = {}
            /\ \A q \in Params : \A k, m \in fds'[q] : k = m
        <5>1. /\ \A q \in Params : params[q] \in {"none", "open"} => fds[q] = {}
              /\ \A q \in Params : \A k, m \in fds[q] : k = m
          BY <1>0 DEF Unused
        <5>2. \A q \in Params : params'[q] \in {"none", "open"} => fds'[q] = {}  BY <4>3, <4>c, <5>1
        <5>3. ASSUME NEW q \in Params, NEW k \in fds'[q], NEW m \in fds'[q] PROVE k = m
          BY <4>c, <5>1
        <5>. QED  BY <5>2, <5>3, SMTT(30)
      <4>7. \A x \in Params \cup Handles : ahb'[x] = None
        BY <1>0, <2>0, <4>1 DEF Unused, Imports!Objects
      <4>. QED  BY <4>4, <4>5, <4>6, <4>7, SMTT(30) DEF Unused
    <3>6. InodesDiffer'  BY <1>0, <2>a, <3>a, SMTT(30) DEF InodesDiffer, Imports!Open
    <3>7. TokensListed'
      <4>1. \A t \in Tokens : fds'[t] = fds[t] /\ ahb'[t] = ahb[t]
        BY <2>0, <3>c, <3>1, SMTT(30) DEF Imports!Objects
      <4>2. \A t \in Tokens : tokens'[t] = tokens[t]  BY <2>a
      <4>3. \A m \in Fds : file'[m] = file[m]  BY <3>a
      <4> SUFFICES ASSUME NEW t \in Tokens, tokens'[t] # None
                   PROVE  /\ fds'[t] # {} /\ ahb'[t] # None
                          /\ \A m \in fds'[t] : file'[m] = [ino |-> tokens'[t], storage |-> ahb'[t]]
        BY Zenon DEF TokensListed
      <4>4. /\ fds[t] # {} /\ ahb[t] # None /\ fds[t] \subseteq Fds
            /\ \A m \in fds[t] : file[m] = [ino |-> tokens[t], storage |-> ahb[t]]
        BY <1>0, <4>2 DEF TokensListed, Imports!TypeOK, Imports!Objects
      <4>. QED  BY <4>1, <4>2, <4>3, <4>4, SMTT(30)
    <3>. QED  BY <3>1, <3>2, <3>3, <3>4, <3>5, <3>6, <3>7 DEF IInv, Imports!ImportsOwned
  <2>. QED  BY <2>1, <2>2, <2>3
<1>9. ASSUME NEW h \in Handles, NEW count \in Expected, Imports!wlegl_create_handle(h, count) PROVE IInv'
  <2>1. UNCHANGED <<file, guest, fds, ahb, refs, params, users, tokens>>
    BY <1>9 DEF Imports!wlegl_create_handle
  <2>2. Imports!TypeOK'  BY <1>0, <1>9 DEF Imports!wlegl_create_handle, Imports!TypeOK
  <2>. QED  BY <1>u, <2>1, <2>2
<1>10. ASSUME NEW h \in Handles, NEW f \in guest, NEW n \in Fds, Imports!wlegl_handle_add_fd(h, f, n) PROVE IInv'
  <2>1. Imports!Receive(f, n, h) /\ UNCHANGED <<guest, ahb, refs, Imports!objectVars>>
    BY <1>10 DEF Imports!wlegl_handle_add_fd
  <2>2. /\ Imports!ImportsOwned' /\ InodesDiffer' /\ TokensListed'
        /\ file' \in [Fds -> Imports!File \cup {None}] /\ fds' \in [Imports!Objects -> SUBSET Fds]
    BY <2>1, ReceiveFacts DEF Imports!objectVars
  <2>3. Imports!TypeOK'  BY <1>0, <2>1, <2>2 DEF Imports!TypeOK, Imports!objectVars
  <2>4. Unused'
    BY <1>0, <2>1 DEF Unused, Imports!Receive, Imports!TypeOK, Imports!Objects, Imports!objectVars
  <2>. QED  BY <2>2, <2>3, <2>4, SMTT(30) DEF IInv
<1>11. ASSUME NEW h \in Handles, NEW b \in Buffers, NEW a \in Ahbs, NEW memory \in BOOLEAN,
              Imports!wlegl_create_buffer(h, b, a, memory)
       PROVE  IInv'
  <2>1. CASE memory
    <3>0. b \in Imports!Objects /\ b \notin Tokens \cup Params \cup Handles
      BY SMTT(30) DEF Imports!Objects
    <3>a. /\ users[b] = {} /\ fds[b] = {} /\ ahb[b] = None
          /\ ahb' = [ahb EXCEPT ![b] = a] /\ refs' = [refs EXCEPT ![a] = refs[a] + 1]
          /\ fds' = fds /\ users' = [users EXCEPT ![b] = {"resource"}] /\ failed' = FALSE
          /\ UNCHANGED <<file, guest, params, expected, tokens, i_running>>
      <4>1. /\ users[b] = {} /\ refs[a] = 0 /\ refs' = [refs EXCEPT ![a] = 1]
            /\ fds' = [fds EXCEPT ![b] = {}] /\ ahb' = [ahb EXCEPT ![b] = a]
            /\ users' = [users EXCEPT ![b] = {"resource"}] /\ failed' = FALSE
            /\ UNCHANGED <<file, guest, params, expected, tokens, i_running>>
        BY <1>11, <2>1, Zenon DEF Imports!wlegl_create_buffer, Imports!Put
      <4>2. fds[b] = {} /\ ahb[b] = None  BY <1>0, <4>1 DEF Unused
      <4>3. fds' = fds  BY <1>0, <3>0, <4>1, <4>2 DEF Imports!TypeOK
      <4>. QED  BY <4>1, <4>2, <4>3
    <3>1. Imports!ReferencesExact' /\ refs' \in [Ahbs -> Nat] /\ ahb' \in [Imports!Objects -> Ahbs \cup {None}]
      BY <1>0, <3>0, <3>a, TakeReference, Zenon
    <3>2. Imports!TypeOK'  BY <1>0, <3>a, <3>1, Zenon DEF Imports!TypeOK
    <3>3. Imports!DescriptorsOwned' /\ InodesDiffer'
      BY <1>0, <3>a DEF Imports!DescriptorsOwned, InodesDiffer, Imports!Open
    <3>4. Imports!ShowsItsToken'
      BY <1>0, <3>0, <3>a DEF Imports!ShowsItsToken, Imports!TypeOK, Imports!Objects
    <3>5. Unused'  BY <1>0, <3>0, <3>a, Zenon DEF Unused, Imports!TypeOK, Imports!Objects
    <3>6. TokensListed'  BY <1>0, <3>0, <3>a DEF TokensListed, Imports!TypeOK, Imports!Objects
    <3>. QED  BY <3>1, <3>2, <3>3, <3>4, <3>5, <3>6 DEF IInv, Imports!ImportsOwned
  <2>2. CASE ~memory
    <3>1. UNCHANGED <<file, guest, fds, ahb, refs, params, users, tokens>>
      BY <1>11, <2>2 DEF Imports!wlegl_create_buffer
    <3>2. Imports!TypeOK'  BY <1>0, <1>11, <2>2 DEF Imports!wlegl_create_buffer, Imports!TypeOK
    <3>. QED  BY <1>u, <3>1, <3>2
  <2>. QED  BY <2>1, <2>2
<1>12. ASSUME NEW h \in Handles, Imports!wlegl_handle_destroy(h) PROVE IInv'
  <2>1. {h} \in SUBSET Imports!Objects  BY DEF Imports!Objects
  <2>2. tokens' = [t \in Tokens |-> IF t \in {h} THEN None ELSE tokens[t]]
    BY <1>0, <1>12 DEF Imports!wlegl_handle_destroy, Imports!TypeOK
  <2>3. expected' \in [Handles -> Expected \cup {None}]
    BY <1>0, <1>12 DEF Imports!wlegl_handle_destroy, Imports!TypeOK
  <2>. QED
    BY <1>0, <1>12, <2>1, <2>2, <2>3, DropInv DEF Imports!wlegl_handle_destroy, Imports!TypeOK
<1>13. ASSUME NEW b \in Buffers, Imports!trierarch_buffer_ref(b) PROVE IInv'
  <2>1. /\ users' \in [Buffers -> SUBSET {"resource", "surface"}]
        /\ \A c \in Buffers : users'[c] = {} => users[c] = {}
    BY <1>0, <1>13 DEF Imports!trierarch_buffer_ref, Imports!TypeOK
  <2>2. UNCHANGED <<file, guest, fds, ahb, refs, params, expected, tokens, i_running, failed>>
    BY <1>13 DEF Imports!trierarch_buffer_ref
  <2>3. Imports!TypeOK'  BY <1>0, <2>1, <2>2 DEF Imports!TypeOK
  <2>4. Unused'  BY <1>0, <2>1, <2>2 DEF Unused
  <2>5. InodesDiffer'  BY <1>0, <2>2 DEF InodesDiffer, Imports!Open
  <2>. QED  BY <1>k, <2>2, <2>3, <2>4, <2>5
<1>14. ASSUME NEW b \in Buffers, NEW user \in {"resource", "surface"}, Imports!trierarch_buffer_unref(b, user)
       PROVE  IInv'
  <2>1. CASE users[b] = {user}
    <3>1. {b} \in SUBSET Imports!Objects  BY DEF Imports!Objects
    <3>2. tokens' = [t \in Tokens |-> IF t \in {b} THEN None ELSE tokens[t]]
      BY <1>0, <1>14 DEF Imports!trierarch_buffer_unref, Imports!TypeOK
    <3>3. /\ users' \in [Buffers -> SUBSET {"resource", "surface"}]
          /\ \A c \in Buffers : users'[c] = users[c] \/ (users'[c] = {} => c \in {b})
      BY <1>0, <1>14 DEF Imports!trierarch_buffer_unref, Imports!TypeOK
    <3>. QED
      BY <1>0, <1>14, <2>1, <3>1, <3>2, <3>3, DropInv DEF Imports!trierarch_buffer_unref,
                                                          Imports!TypeOK
  <2>2. CASE users[b] # {user}
    <3>1. /\ users' \in [Buffers -> SUBSET {"resource", "surface"}]
          /\ \A c \in Buffers : users'[c] = {} => users[c] = {}
      BY <1>0, <1>14, <2>2 DEF Imports!trierarch_buffer_unref, Imports!TypeOK
    <3>2. UNCHANGED <<file, guest, fds, ahb, refs, params, expected, tokens, i_running, failed>>
      BY <1>14, <2>2 DEF Imports!trierarch_buffer_unref
    <3>3. Imports!TypeOK'  BY <1>0, <3>1, <3>2 DEF Imports!TypeOK
    <3>4. Unused'  BY <1>0, <3>1, <3>2 DEF Unused
    <3>5. InodesDiffer'  BY <1>0, <3>2, SMTT(30) DEF InodesDiffer, Imports!Open
    <3>. QED  BY <1>k, <3>2, <3>3, <3>4, <3>5
  <2>. QED  BY <2>1, <2>2
<1>15. ASSUME Imports!ClientGone PROVE IInv'
  <2>1. UNCHANGED <<file, guest, fds, ahb, refs, params, users, tokens>>
    BY <1>15, Zenon DEF Imports!ClientGone
  <2>2. Imports!TypeOK'  BY <1>0, <1>15, Zenon DEF Imports!ClientGone, Imports!TypeOK
  <2>. QED  BY <1>u, <2>1, <2>2
<1>16. CASE UNCHANGED Imports!vars
  <2>1. UNCHANGED <<file, guest, fds, ahb, refs, params, users, tokens>>
    BY <1>16 DEF Imports!vars, Imports!objectVars
  <2>2. Imports!TypeOK'  BY <1>0, <1>16 DEF Imports!vars, Imports!objectVars, Imports!TypeOK
  <2>. QED  BY <1>u, <2>1, <2>2
<1>17. ASSUME Imports!TokenService PROVE IInv'  BY <1>2, <1>3, <1>4, <1>17 DEF Imports!TokenService
<1>18. ASSUME Imports!Dmabuf PROVE IInv'  BY <1>5, <1>6, <1>7, <1>8, <1>18 DEF Imports!Dmabuf
<1>19. ASSUME Imports!Wlegl PROVE IInv'  BY <1>9, <1>10, <1>11, <1>12, <1>19 DEF Imports!Wlegl
<1>20. ASSUME Imports!BufferLife PROVE IInv'  BY <1>13, <1>14, <1>20 DEF Imports!BufferLife
<1>. QED  BY <1>1, <1>15, <1>16, <1>17, <1>18, <1>19, <1>20 DEF Imports!Next

\* linux_dmabuf.c, protocol_stubs.c, tvg_scanout.c: for any number of objects and
\* however numbers are used again, each open descriptor has one owner that closes
\* it, hardware buffers are counted exactly, and a buffer made from a token shows
\* the token's storage.
THEOREM ImportsAlwaysOwned == Imports!Spec => []ImportsOwned
<1>1. IInv => ImportsOwned  BY DEF IInv, ImportsOwned
<1>. QED  BY <1>1, InitInv, StepInv, PTL DEF Imports!Spec
=============================================================================
