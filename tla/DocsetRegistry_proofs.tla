------------------------ MODULE DocsetRegistry_proofs ------------------------
(* For any docsets, prefixes and directories, and however the dialog, the     *)
(* reloads and the requests interleave: what a request can reach is not        *)
(* deleted, a row of a deleted docset is about to go, the directory asked for  *)
(* last is the one loaded, and rows and mounts are those of the registered     *)
(* docsets.                                                                   *)
EXTENDS DocsetRegistry, WellFoundedInduction, FiniteSetTheorems, SequenceTheorems, TLAPS

(* The part of the type that the arguments need.                              *)

Shape ==
  /\ registered \subseteq Docset
  /\ rows \in [Docset -> {"none", "live", "stale"}]
  /\ providers \in [Prefix -> Docset \cup {None}]
  /\ asked \in Storage \cup {None} /\ storage \in Storage \cup {None}
  /\ posted \in Seq(Event)
  /\ job = None \/ job \in Reload

LEMMA SequencesOfEvents ==
  /\ \A s \in Seq(Event), e \in Event : s \o <<e>> \in Seq(Event)
  /\ \A s, t \in Seq(Event) : s \o t \in Seq(Event)
  /\ \A s \in Seq(Event) : s # <<>> => Tail(s) \in Seq(Event) /\ Head(s) \in Event
  /\ <<>> \in Seq(Event)
  OBVIOUS

LEMMA EmittedType ==
  ASSUME NEW d \in Docset, NEW o \in Outcome
  PROVE  Emitted(d, o) \in Seq(Event)
<1> DEFINE u == [kind |-> "unloading", name |-> d]
           l == [kind |-> "loaded", name |-> d]
<1>1. u \in Event /\ l \in Event
  BY DEF Event
<1> HIDE DEF u, l
<1>2. <<>> \in Seq(Event) /\ <<u>> \in Seq(Event) /\ <<l>> \in Seq(Event)
  BY <1>1
<1>3. \A s, t \in Seq(Event) : s \o t \in Seq(Event)
  OBVIOUS
<1>4. Emitted(d, o) = IF o = "invalid" THEN <<>>
                      ELSE (IF d \in registered THEN <<u>> ELSE <<>>)
                           \o (IF Registers(d, o) THEN <<l>> ELSE <<>>)
  BY DEF Emitted, u, l
<1> QED
  BY <1>2, <1>3, <1>4

LEMMA MountsType ==
  ASSUME Shape, NEW d \in Docset
  PROVE  /\ Unmounted(d).providers = [providers EXCEPT ![PrefixOf[d]] = None]
         /\ Left(d).providers = IF d \in registered THEN [providers EXCEPT ![PrefixOf[d]] = None]
                                ELSE providers
         /\ \A m : m = Left(d) =>
              Mounted(d, m).providers = IF d \in Archived THEN [m.providers EXCEPT ![PrefixOf[d]] = d]
                                        ELSE m.providers
<1>1. Unmounted(d).providers = [providers EXCEPT ![PrefixOf[d]] = None]
  <2>1. PrefixOf[d] \in Prefix
    BY RegistryAssumption
  <2>2. CASE providers[PrefixOf[d]] # None
    BY <2>1, <2>2 DEF Unmounted, NoMounts, Shape
  <2>3. CASE providers[PrefixOf[d]] = None
    <3>1. [providers EXCEPT ![PrefixOf[d]] = None] = providers
      BY <2>1, <2>3 DEF Shape
    <3> QED
      BY <2>3, <3>1 DEF Unmounted, NoMounts
  <2> QED
    BY <2>2, <2>3
<1>2. Left(d).providers = IF d \in registered THEN [providers EXCEPT ![PrefixOf[d]] = None] ELSE providers
  BY <1>1 DEF Left, NoMounts
<1>3. ASSUME NEW m, m = Left(d)
      PROVE  Mounted(d, m).providers = IF d \in Archived THEN [m.providers EXCEPT ![PrefixOf[d]] = d]
                                        ELSE m.providers
  <2>1. \E p, b, q : m = [providers |-> p, baseDirs |-> b, mountPoints |-> q]
    BY <1>3 DEF Left, Unmounted, NoMounts
  <2> QED
    BY <2>1 DEF Mounted
<1> QED
  BY <1>1, <1>2, <1>3

-----------------------------------------------------------------------------
(* Providers: an entry is under the prefix of a registered docset, so that      *)
(* what unregisters a docset, under the write lock, also clears its entry.      *)

Reaches == \A p \in Prefix :
  providers[p] # None => PrefixOf[providers[p]] = p /\ providers[p] \in registered
Serves == serving # None => serving \in registered
Tables == Shape /\ Reaches /\ Serves
\* What the tables are, without the queue.
TablesShape ==
  registered \subseteq Docset /\ providers \in [Prefix -> Docset \cup {None}]

LEMMA UnloadKeepsTables ==
  ASSUME Tables, NEW d \in Docset, UnloadDocset(d), serving' = serving
  PROVE  TablesShape' /\ Reaches' /\ Serves'
<1>1. PrefixOf[d] \in Prefix
  BY RegistryAssumption
<1>2. providers' = [providers EXCEPT ![PrefixOf[d]] = None] /\ registered' = registered \ {d}
  BY MountsType DEF UnloadDocset, MountsAre, Tables
<1>3. serving' = None
  BY DEF UnloadDocset, WriteLock
<1> QED
  BY <1>1, <1>2, <1>3, RegistryAssumption DEF Tables, Shape, TablesShape, Reaches, Serves

LEMMA RegisterKeepsTables ==
  ASSUME Tables, NEW d \in Docset, NEW o \in Outcome, RegisterDocset(d, o), serving' = serving
  PROVE  TablesShape' /\ Reaches' /\ Serves'
<1>1. PrefixOf[d] \in Prefix
  BY RegistryAssumption
<1>2. CASE o = "invalid"
  <2>1. UNCHANGED <<registered, mounts>>
    BY <1>2 DEF RegisterDocset
  <2> QED
    BY <2>1 DEF mounts, Tables, Shape, TablesShape, Reaches, Serves
<1>3. CASE o # "invalid"
  <2>1. serving' = None
    BY <1>3 DEF RegisterDocset, WriteLock
  <2> DEFINE left == IF d \in registered THEN [providers EXCEPT ![PrefixOf[d]] = None] ELSE providers
  <2>2. left \in [Prefix -> Docset \cup {None}]
    BY <1>1 DEF Tables, Shape
  <2>3. \A p \in Prefix : left[p] # None =>
          PrefixOf[left[p]] = p /\ left[p] \in registered \ {d}
    BY <1>1, RegistryAssumption DEF Tables, Shape, Reaches
  <2>4. Left(d).providers = left
    BY MountsType DEF Tables
  <2> HIDE DEF left
  <2>5. CASE Registers(d, o)
    <3>1. registered' = registered \cup {d}
      BY <1>3, <2>5 DEF RegisterDocset
    <3>2. providers' = IF d \in Archived THEN [left EXCEPT ![PrefixOf[d]] = d] ELSE left
      <4>1. providers' = Mounted(d, Left(d)).providers
        BY <1>3, <2>5 DEF RegisterDocset, MountsAre
      <4> QED
        BY <4>1, <2>4, MountsType DEF Tables
    <3> QED
      BY <1>1, <2>1, <2>2, <2>3, <3>1, <3>2 DEF Tables, Shape, TablesShape, Reaches, Serves
  <2>6. CASE ~Registers(d, o)
    <3>1. registered' = registered \ {d} /\ providers' = left
      BY <1>3, <2>4, <2>6 DEF RegisterDocset, MountsAre
    <3> QED
      BY <2>1, <2>2, <2>3, <3>1 DEF Tables, Shape, TablesShape, Reaches, Serves
  <2> QED
    BY <2>5, <2>6
<1> QED
  BY <1>2, <1>3

-----------------------------------------------------------------------------
(* Each step keeps the shape, the rows' promise and the path's.                *)

\* The directory the registry is going to have loaded is the one asked for.
LastReload(i) == i \in Waiting("reload") /\ \A j \in Waiting("reload") : j <= i
Going ==
  ~ignored =>
    /\ \A i \in DOMAIN posted : LastReload(i) => posted[i].path = asked
    /\ Waiting("reload") = {} => asked = IF job = None THEN storage ELSE job.path

Inv == Tables /\ StaleRowsGo /\ Going

LEMMA InvInit == Init => Inv
<1> SUFFICES ASSUME Init PROVE Inv
  OBVIOUS
<1>1. posted = <<>> /\ Waiting("reload") = {}
  BY DEF Init, Waiting
<1>2. Shape
  BY <1>1, SequencesOfEvents DEF Init, Shape
<1> QED
  BY <1>1, <1>2 DEF Init, Inv, Tables, Reaches, Serves, StaleRowsGo, Going, LastReload

\* Posting: what was in the queue stays where it is.
LEMMA Posting ==
  ASSUME Shape, NEW events \in Seq(Event), Post(events)
  PROVE  /\ posted' \in Seq(Event)
         /\ DOMAIN posted' = 1 .. (Len(posted) + Len(events))
         /\ \A i \in DOMAIN posted : i \in DOMAIN posted' /\ posted'[i] = posted[i]
         /\ \A i \in DOMAIN events : /\ i + Len(posted) \in DOMAIN posted'
                                     /\ posted'[i + Len(posted)] = events[i]
         /\ \A i \in DOMAIN posted' : i \in DOMAIN posted \/ i - Len(posted) \in DOMAIN events
<1>1. posted' = posted \o events /\ posted \in Seq(Event)
  BY DEF Post, Shape
<1> QED
  BY <1>1

LEMMA PostingOne ==
  ASSUME Shape, NEW events \in Seq(Event), Len(events) = 1, Post(events)
  PROVE  /\ posted' \in Seq(Event) /\ Len(posted) \in Nat
         /\ DOMAIN posted' = 1 .. (Len(posted) + 1)
         /\ \A i \in DOMAIN posted : i \in DOMAIN posted' /\ posted'[i] = posted[i]
         /\ Len(posted) + 1 \in DOMAIN posted' /\ posted'[Len(posted) + 1] = events[1]
<1>1. Len(posted) \in Nat /\ 1 \in DOMAIN events
  BY DEF Shape
<1>2. /\ posted' \in Seq(Event) /\ DOMAIN posted' = 1 .. (Len(posted) + 1)
      /\ \A i \in DOMAIN posted : i \in DOMAIN posted' /\ posted'[i] = posted[i]
  BY Posting
<1>3. 1 + Len(posted) \in DOMAIN posted' /\ posted'[1 + Len(posted)] = events[1]
  BY <1>1, Posting
<1>4. 1 + Len(posted) = Len(posted) + 1
  BY <1>1
<1> QED
  BY <1>1, <1>2, <1>3, <1>4

\* Delivering: what was in the queue moves up by one.
LEMMA Popping ==
  ASSUME Shape, posted # <<>>, posted' = Tail(posted)
  PROVE  /\ posted' \in Seq(Event) /\ Head(posted) \in Event
         /\ 1 \in DOMAIN posted /\ Head(posted) = posted[1]
         /\ \A i \in DOMAIN posted : i # 1 => i - 1 \in DOMAIN posted' /\ posted'[i - 1] = posted[i]
         /\ \A i \in DOMAIN posted' : i + 1 \in DOMAIN posted /\ posted[i + 1] = posted'[i]
  BY DEF Shape

LEMMA PostingKeepsGoing ==
  ASSUME Shape, Going, NEW events \in Seq(Event), Post(events),
         \A i \in DOMAIN events : events[i].kind # "reload",
         UNCHANGED <<paths, job>>
  PROVE  Going'
<1>1. DOMAIN posted \subseteq DOMAIN posted' /\ \A i \in DOMAIN posted : posted'[i] = posted[i]
  BY Posting
<1>2. Waiting("reload")' = Waiting("reload")
  BY Posting DEF Waiting
<1> QED
  BY <1>1, <1>2 DEF Going, LastReload, paths, Waiting

LEMMA PoppingKeepsGoing ==
  ASSUME Shape, Going, posted # <<>>, Head(posted).kind # "reload", posted' = Tail(posted),
         UNCHANGED <<paths, job>>
  PROVE  Going'
<1>1. DOMAIN posted \subseteq Nat /\ DOMAIN posted' \subseteq Nat
  BY DEF Shape
<1>2. \A i \in DOMAIN posted' : i \in Waiting("reload")' <=> i + 1 \in Waiting("reload")
  BY Popping DEF Waiting
<1>3. \A j \in Waiting("reload") : j - 1 \in Waiting("reload")' /\ posted'[j - 1] = posted[j]
  BY Popping DEF Waiting
<1>4. \A i \in DOMAIN posted' : LastReload(i)' => LastReload(i + 1) /\ posted'[i] = posted[i + 1]
  <2> SUFFICES ASSUME NEW i \in DOMAIN posted', LastReload(i)' PROVE LastReload(i + 1)
    BY Popping
  <2>1. i + 1 \in Waiting("reload")
    BY <1>2 DEF LastReload
  <2>2. ASSUME NEW j \in Waiting("reload") PROVE j <= i + 1
    <3>1. j - 1 <= i
      BY <1>3, <2>2 DEF LastReload
    <3>2. i \in Nat /\ j \in Nat
      BY <1>1, <2>2 DEF Waiting
    <3> QED
      BY <3>1, <3>2
  <2> QED
    BY <2>1, <2>2 DEF LastReload
<1>5. Waiting("reload")' = {} => Waiting("reload") = {}
  BY <1>3
<1> QED
  BY <1>4, <1>5, Popping DEF Going, paths

LEMMA SetStoragePathKeeps ==
  ASSUME Inv, NEW p \in Storage, SetStoragePath(p)
  PROVE  Inv'
<1> DEFINE e == <<[kind |-> "reload", path |-> p]>>
<1>0. e \in Seq(Event)
  <2>1. [kind |-> "reload", path |-> p] \in Event
    BY DEF Event
  <2> QED
    BY <2>1, SequencesOfEvents
<1>1. UNCHANGED <<registered, rows, providers, serving, storage, job>> /\ asked' = p
  BY DEF SetStoragePath, mounts
<1>2. CASE p = storage
  <2>1. posted' = posted /\ ignored' = Loading
    BY <1>2 DEF SetStoragePath
  <2>2. Tables' /\ StaleRowsGo'
    BY <1>1, <2>1 DEF Inv, Tables, Shape, Reaches, Serves, StaleRowsGo, Waiting
  <2>3. Going'
    BY <1>1, <1>2, <2>1 DEF Going, LastReload, Waiting, Loading
  <2> QED
    BY <2>2, <2>3 DEF Inv
<1>3. CASE p # storage
  <2>1. Post(e)
    BY <1>3 DEF SetStoragePath
  <2>2. Shape
    BY DEF Inv, Tables
  <2>3. Len(e) = 1 /\ e[1].kind = "reload" /\ e[1].path = p
    OBVIOUS
  <2> HIDE DEF e
  <2>4. /\ posted' \in Seq(Event)
        /\ \A i \in DOMAIN posted : i \in DOMAIN posted' /\ posted'[i] = posted[i]
        /\ DOMAIN posted' = 1 .. (Len(posted) + 1) /\ posted'[Len(posted) + 1] = e[1]
    BY <1>0, <2>1, <2>2, <2>3, PostingOne
  <2>5. Tables' /\ StaleRowsGo'
    BY <1>1, <2>4 DEF Inv, Tables, Shape, Reaches, Serves, StaleRowsGo, Waiting
  <2>6. Going'
    <3>1. Len(posted) \in Nat
      BY <2>2 DEF Shape
    <3>2. \A i \in DOMAIN posted' : LastReload(i)' => i = Len(posted) + 1
      BY <2>3, <2>4, <3>1 DEF LastReload, Waiting
    <3>3. Waiting("reload")' # {}
      BY <2>3, <2>4, <3>1 DEF Waiting
    <3> QED
      BY <1>1, <2>3, <2>4, <3>2, <3>3 DEF Going
  <2> QED
    BY <2>5, <2>6 DEF Inv
<1> QED
  BY <1>2, <1>3

LEMMA DialogUnloadsKeeps ==
  ASSUME Inv, NEW d \in Docset, DialogUnloads(d)
  PROVE  Inv'
<1> DEFINE e == <<[kind |-> "unloading", name |-> d]>>
<1>0. e \in Seq(Event) /\ Len(e) = 1 /\ e[1].kind = "unloading" /\ e[1].name = d
  <2>1. [kind |-> "unloading", name |-> d] \in Event
    BY DEF Event
  <2> QED
    BY <2>1, SequencesOfEvents
<1>1. UnloadDocset(d) /\ Post(e) /\ rows' = Orphaned(d) /\ UNCHANGED <<serving, paths, job>>
  BY DEF DialogUnloads
<1> HIDE DEF e
<1>2. TablesShape' /\ Reaches' /\ Serves'
  BY <1>1, UnloadKeepsTables DEF Inv
<1>3. /\ posted' \in Seq(Event)
      /\ \A i \in DOMAIN posted : i \in DOMAIN posted' /\ posted'[i] = posted[i]
      /\ Len(posted) + 1 \in DOMAIN posted' /\ posted'[Len(posted) + 1] = e[1]
  BY <1>0, <1>1, PostingOne DEF Inv, Tables
<1>4. Going'
  BY <1>0, <1>1, PostingKeepsGoing DEF Inv, Tables
<1>5. Shape'
  BY <1>1, <1>2, <1>3 DEF Inv, Tables, Shape, TablesShape, Orphaned, paths
<1>6. StaleRowsGo'
  <2>1. \A x \in Docset : rows'[x] = "stale" => x = d \/ rows[x] = "stale"
    BY <1>1 DEF Inv, Tables, Shape, Orphaned
  <2>2. Len(posted) + 1 \in Waiting("unloading")' /\ posted'[Len(posted) + 1].name = d
    BY <1>0, <1>3 DEF Waiting
  <2>3. \A i \in Waiting("unloading") : i \in Waiting("unloading")' /\ posted'[i].name = posted[i].name
    BY <1>3 DEF Waiting
  <2> QED
    BY <2>1, <2>2, <2>3 DEF Inv, StaleRowsGo
<1> QED
  BY <1>2, <1>4, <1>5, <1>6 DEF Inv, Tables

LEMMA DialogLoadsKeeps ==
  ASSUME Inv, NEW d \in Docset, NEW o \in Outcome, DialogLoads(d, o)
  PROVE  Inv'
<1>0. Emitted(d, o) \in Seq(Event)
  BY EmittedType
<1>1. RegisterDocset(d, o) /\ Post(Emitted(d, o)) /\ UNCHANGED <<serving, paths, job>>
  BY DEF DialogLoads
<1>2. TablesShape' /\ Reaches' /\ Serves'
  BY <1>1, RegisterKeepsTables DEF Inv
<1>3. \A i \in DOMAIN Emitted(d, o) : Emitted(d, o)[i].kind # "reload"
  BY DEF Emitted
<1>4. o # "invalid" /\ d \in registered =>
        1 \in DOMAIN Emitted(d, o) /\ Emitted(d, o)[1] = [kind |-> "unloading", name |-> d]
  BY DEF Emitted
<1>5. Going'
  BY <1>0, <1>1, <1>3, PostingKeepsGoing DEF Inv, Tables
<1>6. /\ posted' \in Seq(Event)
      /\ \A i \in DOMAIN posted : i \in DOMAIN posted' /\ posted'[i] = posted[i]
      /\ \A i \in DOMAIN Emitted(d, o) : /\ i + Len(posted) \in DOMAIN posted'
                                         /\ posted'[i + Len(posted)] = Emitted(d, o)[i]
  BY <1>0, <1>1, Posting DEF Inv, Tables
<1>7. rows' = IF o # "invalid" /\ d \in registered THEN Orphaned(d) ELSE rows
  BY DEF DialogLoads
<1>8. Shape'
  BY <1>1, <1>2, <1>6, <1>7 DEF Inv, Tables, Shape, TablesShape, Orphaned, paths
<1>9. StaleRowsGo'
  <2> SUFFICES ASSUME NEW x \in Docset, rows'[x] = "stale"
               PROVE  \E i \in Waiting("unloading")' : posted'[i].name = x
    BY DEF StaleRowsGo
  <2>1. CASE rows[x] = "stale"
    BY <1>6, <2>1 DEF Inv, StaleRowsGo, Waiting
  <2>2. CASE rows[x] # "stale"
    <3>1. x = d /\ o # "invalid" /\ d \in registered
      BY <1>7, <2>2 DEF Orphaned, Inv, Tables, Shape
    <3> QED
      BY <1>4, <1>6, <3>1 DEF Waiting
  <2> QED
    BY <2>1, <2>2
<1> QED
  BY <1>2, <1>5, <1>8, <1>9 DEF Inv, Tables

LEMMA StartReloadKeeps ==
  ASSUME Inv, StartReload
  PROVE  Inv'
<1>1. /\ posted # <<>> /\ Head(posted).kind = "reload" /\ posted' = Tail(posted)
      /\ job = None
      /\ job' = [path |-> Head(posted).path, unload |-> registered, load |-> Found[Head(posted).path]]
      /\ UNCHANGED <<registered, rows, providers, serving, asked, storage, ignored>>
  BY DEF StartReload, mounts, paths
<1>2. Shape
  BY DEF Inv, Tables
<1>3. /\ posted' \in Seq(Event) /\ Head(posted) \in Event
      /\ 1 \in DOMAIN posted /\ Head(posted) = posted[1]
      /\ \A i \in DOMAIN posted : i # 1 => i - 1 \in DOMAIN posted' /\ posted'[i - 1] = posted[i]
      /\ \A i \in DOMAIN posted' : i + 1 \in DOMAIN posted /\ posted[i + 1] = posted'[i]
  BY <1>1, <1>2, Popping
<1>4. Head(posted).path \in Storage
  BY <1>1, <1>3 DEF Event
<1>5. job' \in Reload
  BY <1>1, <1>2, <1>4, RegistryAssumption DEF Reload, Shape
<1>6. Tables'
  BY <1>1, <1>3, <1>5 DEF Inv, Tables, Shape, Reaches, Serves
<1>7. StaleRowsGo'
  <2> SUFFICES ASSUME NEW x \in Docset, rows[x] = "stale"
               PROVE  \E i \in Waiting("unloading")' : posted'[i].name = x
    BY <1>1 DEF StaleRowsGo
  <2>1. PICK i \in Waiting("unloading") : posted[i].name = x
    BY DEF Inv, StaleRowsGo
  <2>2. i - 1 \in Waiting("unloading")' /\ posted'[i - 1].name = x
    BY <1>1, <1>3, <2>1 DEF Waiting
  <2> QED
    BY <2>2
<1>8. DOMAIN posted \subseteq Nat \ {0} /\ DOMAIN posted' \subseteq Nat
  BY <1>2, <1>3 DEF Shape
<1>9. ASSUME ~ignored', NEW i \in DOMAIN posted', LastReload(i)' PROVE posted'[i].path = asked'
  <2>1. i + 1 \in Waiting("reload")
    BY <1>3, <1>9 DEF LastReload, Waiting
  <2>2. ASSUME NEW j \in Waiting("reload") PROVE j <= i + 1
    <3>1. j = 1 \/ j - 1 \in Waiting("reload")'
      BY <1>3, <2>2 DEF Waiting
    <3>2. j = 1 \/ j - 1 <= i
      BY <1>9, <3>1 DEF LastReload
    <3>3. i \in Nat /\ j \in Nat
      BY <1>8, <2>2 DEF Waiting
    <3> QED
      BY <3>2, <3>3
  <2>3. LastReload(i + 1)
    BY <2>1, <2>2 DEF LastReload
  <2> QED
    BY <1>1, <1>3, <1>9, <2>3 DEF Inv, Going
<1>10. ASSUME ~ignored', Waiting("reload")' = {} PROVE asked' = job'.path
  <2>1. 1 \in Waiting("reload")
    BY <1>1, <1>3 DEF Waiting
  <2>2. \A j \in Waiting("reload") : j = 1
    BY <1>3, <1>10 DEF Waiting
  <2>3. LastReload(1)
    BY <2>1, <2>2 DEF LastReload
  <2> QED
    BY <1>1, <1>3, <1>10, <2>3 DEF Inv, Going
<1>11. job' # None
  BY <1>5, ReloadAssumption
<1> QED
  BY <1>6, <1>7, <1>9, <1>10, <1>11 DEF Inv, Going

LEMMA UnloadNextKeeps ==
  ASSUME Inv, NEW d \in Docset, UnloadNext(d)
  PROVE  Inv'
<1>1. /\ UnloadDocset(d) /\ job # None /\ job' = [job EXCEPT !.unload = @ \ {d}]
      /\ rows' = [rows EXCEPT ![d] = "none"]
      /\ UNCHANGED <<serving, asked, storage, ignored, posted>>
  BY DEF UnloadNext, paths
<1>2. TablesShape' /\ Reaches' /\ Serves'
  BY <1>1, UnloadKeepsTables DEF Inv
<1>3. job' \in Reload /\ job'.path = job.path
  BY <1>1 DEF Inv, Tables, Shape, Reload
<1>4. Shape'
  BY <1>1, <1>2, <1>3 DEF Inv, Tables, Shape, TablesShape
<1>5. StaleRowsGo'
  BY <1>1 DEF Inv, Tables, Shape, StaleRowsGo, Waiting
<1>6. Going'
  BY <1>1, <1>3, ReloadAssumption DEF Inv, Going, LastReload, Waiting
<1> QED
  BY <1>2, <1>4, <1>5, <1>6 DEF Inv, Tables

LEMMA LoadNextKeeps ==
  ASSUME Inv, NEW d \in Docset, NEW o \in Outcome, LoadNext(d, o)
  PROVE  Inv'
<1>1. /\ RegisterDocset(d, o) /\ job # None /\ job' = [job EXCEPT !.load = @ \ {d}]
      /\ rows' = [rows EXCEPT ![d] = RowNow(d, o)]
      /\ UNCHANGED <<serving, asked, storage, ignored, posted>>
  BY DEF LoadNext, paths
<1>2. TablesShape' /\ Reaches' /\ Serves'
  BY <1>1, RegisterKeepsTables DEF Inv
<1>3. job' \in Reload /\ job'.path = job.path
  BY <1>1 DEF Inv, Tables, Shape, Reload
<1>4. RowNow(d, o) \in {"none", "live", "stale"} /\ (RowNow(d, o) = "stale" => rows[d] = "stale")
  BY DEF RowNow, RowAfter, Inv, Tables, Shape
<1>5. Shape'
  BY <1>1, <1>2, <1>3, <1>4 DEF Inv, Tables, Shape, TablesShape
<1>6. StaleRowsGo'
  BY <1>1, <1>4 DEF Inv, Tables, Shape, StaleRowsGo, Waiting
<1>7. Going'
  BY <1>1, <1>3, ReloadAssumption DEF Inv, Going, LastReload, Waiting
<1> QED
  BY <1>2, <1>5, <1>6, <1>7 DEF Inv, Tables

LEMMA FinishReloadKeeps ==
  ASSUME Inv, FinishReload
  PROVE  Inv'
<1>1. /\ job # None /\ job' = None /\ storage' = job.path
      /\ UNCHANGED <<registered, rows, providers, serving, asked, ignored, posted>>
  BY DEF FinishReload, mounts
<1>2. job.path \in Storage
  BY <1>1 DEF Inv, Tables, Shape, Reload
<1> QED
  BY <1>1, <1>2 DEF Inv, Tables, Shape, Reaches, Serves, StaleRowsGo, Going, LastReload, Waiting

LEMMA DeliverKeeps ==
  ASSUME Inv, Deliver
  PROVE  Inv'
<1> DEFINE e == Head(posted)
<1>1. /\ posted # <<>> /\ e.kind # "reload" /\ posted' = Tail(posted)
      /\ rows' = rows \/ rows' = [rows EXCEPT ![e.name] = RowAfter(e.name, e.kind)]
      /\ e.kind = "unloading" => rows' = [rows EXCEPT ![e.name] = RowAfter(e.name, e.kind)]
      /\ UNCHANGED <<registered, providers, serving, paths, job>>
  BY DEF Deliver, mounts
<1>2. Shape
  BY DEF Inv, Tables
<1>3. /\ posted' \in Seq(Event) /\ e \in Event
      /\ 1 \in DOMAIN posted /\ e = posted[1]
      /\ \A i \in DOMAIN posted : i # 1 => i - 1 \in DOMAIN posted' /\ posted'[i - 1] = posted[i]
  BY <1>1, <1>2, Popping
<1> HIDE DEF e
<1>4. e.name \in Docset
  BY <1>1, <1>3 DEF Event
<1>5. /\ RowAfter(e.name, e.kind) \in {"none", "live", "stale"}
      /\ RowAfter(e.name, e.kind) = "stale" => rows[e.name] = "stale" /\ e.kind # "unloading"
      /\ e.kind = "unloading" => RowAfter(e.name, e.kind) = "none"
  BY <1>2, <1>4 DEF RowAfter, Shape
<1>6. Shape'
  BY <1>1, <1>2, <1>3, <1>5 DEF Shape, paths
<1>7. StaleRowsGo'
  <2> SUFFICES ASSUME NEW x \in Docset, rows'[x] = "stale"
               PROVE  \E i \in Waiting("unloading")' : posted'[i].name = x
    BY DEF StaleRowsGo
  <2>1. rows[x] = "stale" /\ (e.kind = "unloading" => x # e.name)
    BY <1>1, <1>2, <1>4, <1>5 DEF Shape
  <2>2. PICK i \in Waiting("unloading") : posted[i].name = x
    BY <2>1 DEF Inv, StaleRowsGo
  <2>3. i # 1
    BY <1>3, <2>1, <2>2 DEF Waiting
  <2>4. i - 1 \in Waiting("unloading")' /\ posted'[i - 1].name = x
    BY <1>3, <2>2, <2>3 DEF Waiting
  <2> QED
    BY <2>4
<1>8. Going'
  BY <1>1, PoppingKeepsGoing DEF Inv, Tables, e
<1> QED
  BY <1>1, <1>6, <1>7, <1>8 DEF Inv, Tables, Reaches, Serves

LEMMA InvNext == Inv /\ [Next]_vars => Inv'
<1> SUFFICES ASSUME Inv, [Next]_vars PROVE Inv'
  OBVIOUS
<1>1. CASE Quit
  BY <1>1 DEF Quit, mounts, paths, Inv, Tables, Shape, Reaches, Serves, StaleRowsGo, Going, LastReload, Waiting
<1>2. CASE Destroy
  <2>1. providers' = [p \in Prefix |-> IF \E d \in registered : PrefixOf[d] = p THEN None ELSE providers[p]]
    BY <1>2 DEF Destroy
  <2>2. providers' \in [Prefix -> Docset \cup {None}]
    BY <2>1 DEF Inv, Tables, Shape
  <2>3. Reaches'
    BY <2>1 DEF Inv, Tables, Reaches
  <2>4. Serves'
    BY <1>2 DEF Destroy, WriteLock, Serves
  <2> QED
    BY <1>2, <2>2, <2>3, <2>4
    DEF Destroy, paths, Inv, Tables, Shape, StaleRowsGo, Going, LastReload, Waiting
<1>3. CASE \E p \in Prefix : BeginServe(p)
  BY <1>3 DEF BeginServe, mounts, paths, Inv, Tables, Shape, Reaches, Serves, StaleRowsGo, Going, LastReload, Waiting
<1>4. CASE EndServe
  BY <1>4 DEF EndServe, mounts, paths, Inv, Tables, Shape, Reaches, Serves, StaleRowsGo, Going, LastReload, Waiting
<1>5. CASE Ended \/ UNCHANGED vars
  BY <1>5 DEF Ended, vars, mounts, paths, Inv, Tables, Shape, Reaches, Serves, StaleRowsGo, Going, LastReload, Waiting
<1>6. CASE Thread
  BY <1>6, StartReloadKeeps, FinishReloadKeeps, DeliverKeeps, UnloadNextKeeps, LoadNextKeeps DEF Thread
<1> QED
  BY <1>1, <1>2, <1>3, <1>4, <1>5, <1>6, SetStoragePathKeeps, DialogUnloadsKeeps, DialogLoadsKeeps DEF Next

LEMMA InvAlways == Spec => []Inv
  BY InvInit, InvNext, PTL DEF Spec

\* What a request reads from, or could reach through a provider, is registered, for
\* any number of docsets, colliding prefixes included: it is never deleted under it.
THEOREM RequestsReachTheLiving == Spec => []ProvidersLive
<1>1. Inv => ProvidersLive
  BY DEF Inv, Tables, Reaches, Serves, ProvidersLive
<1> QED
  BY <1>1, InvAlways, PTL

\* A row of a deleted docset has its removal waiting in the queue.
THEOREM StaleRowsAreRemoved == Spec => []StaleRowsGo
<1>1. Inv => StaleRowsGo
  BY DEF Inv
<1> QED
  BY <1>1, InvAlways, PTL

\* With nothing under way the directory loaded is the one asked for last, unless
\* that was asked for again while another was about to be loaded.
THEOREM LastDirectoryLoaded == Spec => []AskedIsLoaded
<1>1. ASSUME Inv, Quiet, ~ignored PROVE asked = storage
  <2>1. Waiting("reload") = {}
    BY <1>1 DEF Quiet, Waiting
  <2> QED
    BY <1>1, <2>1 DEF Quiet, Inv, Going
<1>2. Inv => AskedIsLoaded
  BY <1>1 DEF AskedIsLoaded
<1> QED
  BY <1>2, InvAlways, PTL

-----------------------------------------------------------------------------
(* The rest of the type.                                                    *)

LEMMA FirstIsOne ==
  ASSUME NEW S \in SUBSET Nat, S # {}
  PROVE  FirstOf(S) \in S
<1> DEFINE R == OpToRel(<, Nat)
<1>1. \A a, b \in Nat : a < b => <<a, b>> \in R
  BY DEF OpToRel
<1>2. IsWellFoundedOn(R, Nat)
  BY NatLessThanWellFounded
<1> HIDE DEF R
<1>3. PICK i \in S : \A j \in S : ~ (<<j, i>> \in R)
  BY <1>2, WFMin
<1>4. i \in Nat /\ \A j \in S : j \in Nat
  OBVIOUS
<1>5. \A j \in S : ~ (j < i)
  BY <1>1, <1>3, <1>4, Zenon
<1>6. \A j \in S : i <= j
  BY <1>4, <1>5
<1> QED
  BY <1>3, <1>6 DEF FirstOf

Tails ==
  /\ baseDirs \in Seq(Docset)
  /\ mountPoints \in [Prefix -> Docset \cup {None}]
  /\ ignored \in BOOLEAN /\ overlapped \in BOOLEAN
  /\ status \in {"running", "quitting", "gone", "crashed"}

LEMMA MountsKeepTails ==
  ASSUME Tails, NEW d \in Docset
  PROVE  /\ Unmounted(d).baseDirs \in Seq(Docset)
         /\ Unmounted(d).mountPoints \in [Prefix -> Docset \cup {None}]
         /\ Left(d).baseDirs \in Seq(Docset)
         /\ Left(d).mountPoints \in [Prefix -> Docset \cup {None}]
         /\ Mounted(d, Left(d)).baseDirs \in Seq(Docset)
         /\ Mounted(d, Left(d)).mountPoints \in [Prefix -> Docset \cup {None}]
<1>1. \A i \in 1 .. Len(baseDirs) : RemoveAt(baseDirs, i) \in Seq(Docset)
  <2> TAKE i \in 1 .. Len(baseDirs)
  <2>1. baseDirs \in Seq(Docset) /\ Len(baseDirs) \in Nat
    BY DEF Tails
  <2>2. SubSeq(baseDirs, 1, i - 1) \in Seq(Docset) /\ SubSeq(baseDirs, i + 1, Len(baseDirs)) \in Seq(Docset)
    BY <2>1
  <2> QED
    BY <2>2 DEF RemoveAt
<1>2. SamePrefix(d) # {} => FirstOf(SamePrefix(d)) \in 1 .. Len(baseDirs)
  <2>1. SamePrefix(d) \subseteq 1 .. Len(baseDirs) /\ 1 .. Len(baseDirs) \subseteq Nat
    BY DEF SamePrefix, Tails
  <2> QED
    BY <2>1, FirstIsOne
<1>3. /\ Unmounted(d).baseDirs \in Seq(Docset)
      /\ Unmounted(d).mountPoints \in [Prefix -> Docset \cup {None}]
  BY <1>1, <1>2 DEF Unmounted, NoMounts, Tails
<1>4. /\ Left(d).baseDirs \in Seq(Docset)
      /\ Left(d).mountPoints \in [Prefix -> Docset \cup {None}]
      /\ \E p, b, q : Left(d) = [providers |-> p, baseDirs |-> b, mountPoints |-> q]
  BY <1>3 DEF Left, Unmounted, NoMounts, Tails
<1>5. ASSUME NEW p, NEW b \in Seq(Docset), NEW q \in [Prefix -> Docset \cup {None}],
             NEW m, m = [providers |-> p, baseDirs |-> b, mountPoints |-> q]
      PROVE  /\ Mounted(d, m).baseDirs \in Seq(Docset)
             /\ Mounted(d, m).mountPoints \in [Prefix -> Docset \cup {None}]
  <2>1. CASE d \in Archived
    BY <1>5, <2>1 DEF Mounted
  <2>2. CASE d \notin Archived
    <3>1. Mounted(d, m) = [providers |-> p, baseDirs |-> Append(b, d),
                           mountPoints |-> [q EXCEPT ![PrefixOf[d]] = d]]
      BY <1>5, <2>2 DEF Mounted
    <3>2. Append(b, d) \in Seq(Docset) /\ [q EXCEPT ![PrefixOf[d]] = d] \in [Prefix -> Docset \cup {None}]
      <4>1. Append(b, d) \in Seq(Docset)
        OBVIOUS
      <4>2. [q EXCEPT ![PrefixOf[d]] = d] \in [Prefix -> Docset \cup {None}]
        OBVIOUS
      <4> QED
        BY <4>1, <4>2
    <3> QED
      BY <3>1, <3>2
  <2> QED
    BY <2>1, <2>2
<1>6. PICK p, b, q : Left(d) = [providers |-> p, baseDirs |-> b, mountPoints |-> q]
  BY <1>4
<1>7. b \in Seq(Docset) /\ q \in [Prefix -> Docset \cup {None}]
  BY <1>4, <1>6
<1>8. /\ Mounted(d, Left(d)).baseDirs \in Seq(Docset)
      /\ Mounted(d, Left(d)).mountPoints \in [Prefix -> Docset \cup {None}]
  BY <1>5, <1>6, <1>7, Zenon
<1> QED
  BY <1>3, <1>4, <1>8

LEMMA RegistersKeepTails ==
  ASSUME Tails, NEW d \in Docset, NEW o \in Outcome, RegisterDocset(d, o)
  PROVE  baseDirs' \in Seq(Docset) /\ mountPoints' \in [Prefix -> Docset \cup {None}]
  BY MountsKeepTails DEF RegisterDocset, MountsAre, Tails, mounts

LEMMA UnloadsKeepTails ==
  ASSUME Tails, NEW d \in Docset, UnloadDocset(d)
  PROVE  baseDirs' \in Seq(Docset) /\ mountPoints' \in [Prefix -> Docset \cup {None}]
  BY MountsKeepTails DEF UnloadDocset, MountsAre

LEMMA TailsNext == Tails /\ [Next]_vars => Tails'
<1> SUFFICES ASSUME Tails, [Next]_vars PROVE Tails'
  OBVIOUS
<1>1. CASE \E p \in Storage : SetStoragePath(p)
  BY <1>1 DEF SetStoragePath, Tails, mounts, Loading
<1>2. CASE \E d \in Docset : DialogUnloads(d)
  BY <1>2, UnloadsKeepTails DEF DialogUnloads, DialogActs, Loading, paths, Tails
<1>3. CASE \E d \in Docset : \E o \in Outcome : DialogLoads(d, o)
  BY <1>3, RegistersKeepTails DEF DialogLoads, DialogActs, Loading, paths, Tails
<1>4. CASE Thread
  <2>1. CASE StartReload \/ FinishReload \/ Deliver
    BY <2>1 DEF StartReload, FinishReload, Deliver, mounts, paths, Tails
  <2>2. CASE \E d \in Docset : UnloadNext(d)
    BY <2>2, UnloadsKeepTails DEF UnloadNext, paths, Tails
  <2>3. CASE \E d \in Docset, o \in Outcome : LoadNext(d, o)
    BY <2>3, RegistersKeepTails DEF LoadNext, paths, Tails
  <2> QED
    BY <1>4, <2>1, <2>2, <2>3 DEF Thread
<1>5. CASE Quit \/ Destroy \/ EndServe \/ Ended \/ \E p \in Prefix : BeginServe(p)
  BY <1>5 DEF Quit, Destroy, EndServe, Ended, BeginServe, vars, mounts, paths, Tails
<1>6. CASE UNCHANGED vars
  BY <1>6 DEF vars, mounts, paths, Tails
<1> QED
  BY <1>1, <1>2, <1>3, <1>4, <1>5, <1>6 DEF Next

\* The state keeps its type, for any docsets, prefixes and directories.
THEOREM TypeCorrect == Spec => []TypeOK
<1>1. Init => Tails
  <2>1. <<>> \in Seq(Docset)
    OBVIOUS
  <2> QED
    BY <2>1 DEF Init, Tails
<1>2. Inv /\ Tails => TypeOK
  BY DEF Inv, Tables, Shape, Serves, Tails, TypeOK
<1> QED
  BY <1>1, <1>2, TailsNext, InvAlways, PTL DEF Spec

-----------------------------------------------------------------------------
(* Rows.  The events that wait for the rows lead, one after the other, from    *)
(* the row a docset has to the row it should have: h is what it will be before *)
(* each of them.                                                               *)

Mark   == {"row", "no row"}
Row(d) == IF rows[d] = "none" THEN "no row" ELSE "row"
Due(d) == IF d \in registered THEN "row" ELSE "no row"

About(e, d) == e.kind # "reload" /\ e.name = d
Before(e)   == IF e.kind = "loaded" THEN "no row" ELSE "row"
After(e)    == IF e.kind = "loaded" THEN "row" ELSE "no row"

Leads(q, d, from, to) ==
  \E h \in [Nat -> Mark] :
    /\ h[1] = from
    /\ \A i \in DOMAIN q :
         IF About(q[i], d) THEN h[i] = Before(q[i]) /\ h[i + 1] = After(q[i]) ELSE h[i + 1] = h[i]
    /\ \A i \in 1 .. Len(q) + 1 : (\A j \in DOMAIN q : j >= i => ~About(q[j], d)) => h[i] = to

LEMMA NoneAbout ==
  ASSUME NEW q \in Seq(Event), NEW d, \A i \in DOMAIN q : ~About(q[i], d), NEW from, NEW to
  PROVE  /\ from \in Mark => Leads(q, d, from, from)
         /\ Leads(q, d, from, to) => from = to
<1>1. Len(q) \in Nat /\ DOMAIN q = 1 .. Len(q)
  OBVIOUS
<1>2. ASSUME from \in Mark PROVE Leads(q, d, from, from)
  <2> DEFINE h == [i \in Nat |-> from]
  <2>1. h \in [Nat -> Mark] /\ \A i \in Nat : h[i] = from
    BY <1>2
  <2> HIDE DEF h
  <2> QED
    BY <1>1, <2>1 DEF Leads
<1>3. Leads(q, d, from, to) => from = to
  BY <1>1 DEF Leads
<1> QED
  BY <1>2, <1>3

LEMMA LeadsOn ==
  ASSUME NEW q \in Seq(Event), q # <<>>, NEW d, NEW from, NEW to, Leads(q, d, from, to)
  PROVE  IF About(Head(q), d) THEN from = Before(Head(q)) /\ Leads(Tail(q), d, After(Head(q)), to)
                              ELSE Leads(Tail(q), d, from, to)
<1> DEFINE t == Tail(q)
<1>1. /\ t \in Seq(Event) /\ Len(q) \in Nat /\ Len(t) \in Nat /\ Len(q) = Len(t) + 1
      /\ DOMAIN q = 1 .. Len(q) /\ DOMAIN t = 1 .. Len(t)
      /\ Head(q) = q[1] /\ \A i \in 1 .. Len(t) : t[i] = q[i + 1]
  OBVIOUS
<1> HIDE DEF t
<1>2. PICK h \in [Nat -> Mark] :
        /\ h[1] = from
        /\ \A i \in DOMAIN q :
             IF About(q[i], d) THEN h[i] = Before(q[i]) /\ h[i + 1] = After(q[i]) ELSE h[i + 1] = h[i]
        /\ \A i \in 1 .. Len(q) + 1 : (\A j \in DOMAIN q : j >= i => ~About(q[j], d)) => h[i] = to
  BY DEF Leads
<1> DEFINE g == [i \in Nat |-> h[i + 1]]
<1>3. g \in [Nat -> Mark] /\ \A i \in Nat : g[i] = h[i + 1]
  OBVIOUS
<1> HIDE DEF g
<1>4. \A i \in DOMAIN t :
        IF About(t[i], d) THEN g[i] = Before(t[i]) /\ g[i + 1] = After(t[i]) ELSE g[i + 1] = g[i]
  <2> SUFFICES ASSUME NEW i \in 1 .. Len(t)
               PROVE  IF About(t[i], d) THEN g[i] = Before(t[i]) /\ g[i + 1] = After(t[i]) ELSE g[i + 1] = g[i]
    BY <1>1
  <2>1. i + 1 \in DOMAIN q /\ t[i] = q[i + 1] /\ i \in Nat /\ i + 1 \in Nat
    BY <1>1
  <2>2. g[i] = h[i + 1] /\ g[i + 1] = h[(i + 1) + 1]
    BY <1>3, <2>1
  <2> QED
    BY <1>2, <2>1, <2>2
<1>5. \A i \in 1 .. Len(t) + 1 : (\A j \in DOMAIN t : j >= i => ~About(t[j], d)) => g[i] = to
  <2> SUFFICES ASSUME NEW i \in 1 .. Len(t) + 1, \A j \in DOMAIN t : j >= i => ~About(t[j], d)
               PROVE  g[i] = to
    OBVIOUS
  <2>1. \A j \in DOMAIN q : j >= i + 1 => ~About(q[j], d)
    <3> SUFFICES ASSUME NEW j \in DOMAIN q, j >= i + 1 PROVE ~About(q[j], d)
      OBVIOUS
    <3>1. j - 1 \in DOMAIN t /\ j - 1 >= i /\ t[j - 1] = q[j]
      BY <1>1
    <3> QED
      BY <3>1
  <2>2. i + 1 \in 1 .. Len(q) + 1 /\ i \in Nat
    BY <1>1
  <2> QED
    BY <1>2, <1>3, <2>1, <2>2
<1>6. g[1] = h[2] /\ 1 \in DOMAIN q
  BY <1>1, <1>3
<1>7. CASE About(Head(q), d)
  <2>1. from = Before(Head(q)) /\ g[1] = After(Head(q))
    BY <1>1, <1>2, <1>6, <1>7
  <2>2. Leads(t, d, After(Head(q)), to)
    BY <1>3, <1>4, <1>5, <2>1 DEF Leads
  <2> QED
    BY <1>7, <2>1, <2>2 DEF t
<1>8. CASE ~About(Head(q), d)
  <2>1. g[1] = from
    BY <1>1, <1>2, <1>6, <1>8
  <2>2. Leads(t, d, from, to)
    BY <1>3, <1>4, <1>5, <2>1 DEF Leads
  <2> QED
    BY <1>8, <2>2 DEF t
<1> QED
  BY <1>7, <1>8

LEMMA LeadsFurther ==
  ASSUME NEW q \in Seq(Event), NEW e \in Event, NEW d, NEW from, NEW to \in Mark, Leads(q, d, from, to),
         About(e, d) => to = Before(e)
  PROVE  Leads(Append(q, e), d, from, IF About(e, d) THEN After(e) ELSE to)
<1> DEFINE p == Append(q, e)
           n == Len(q)
           end == IF About(e, d) THEN After(e) ELSE to
<1>1. /\ p \in Seq(Event) /\ n \in Nat /\ Len(p) = n + 1
      /\ DOMAIN q = 1 .. n /\ DOMAIN p = 1 .. n + 1
      /\ p[n + 1] = e /\ \A i \in 1 .. n : p[i] = q[i]
  OBVIOUS
<1>2. end \in Mark
  BY DEF After, Mark
<1> HIDE DEF p, end
<1>3. PICK h \in [Nat -> Mark] :
        /\ h[1] = from
        /\ \A i \in DOMAIN q :
             IF About(q[i], d) THEN h[i] = Before(q[i]) /\ h[i + 1] = After(q[i]) ELSE h[i + 1] = h[i]
        /\ \A i \in 1 .. Len(q) + 1 : (\A j \in DOMAIN q : j >= i => ~About(q[j], d)) => h[i] = to
  BY DEF Leads
<1> DEFINE g == [i \in Nat |-> IF i <= n + 1 THEN h[i] ELSE end]
<1>4. g \in [Nat -> Mark] /\ (\A i \in 1 .. n + 1 : g[i] = h[i]) /\ g[n + 2] = end
  BY <1>1, <1>2
<1> HIDE DEF g
<1>5. h[n + 1] = to
  BY <1>1, <1>3
<1>6. \A i \in DOMAIN p :
        IF About(p[i], d) THEN g[i] = Before(p[i]) /\ g[i + 1] = After(p[i]) ELSE g[i + 1] = g[i]
  <2> SUFFICES ASSUME NEW i \in 1 .. n + 1
               PROVE  IF About(p[i], d) THEN g[i] = Before(p[i]) /\ g[i + 1] = After(p[i]) ELSE g[i + 1] = g[i]
    BY <1>1
  <2>1. CASE i \in 1 .. n
    <3>1. p[i] = q[i] /\ g[i] = h[i] /\ g[i + 1] = h[i + 1] /\ i \in DOMAIN q
      BY <1>1, <1>4, <2>1
    <3> QED
      BY <1>3, <3>1
  <2>2. CASE i = n + 1
    <3>1. p[i] = e /\ g[i] = to /\ g[i + 1] = end
      BY <1>1, <1>4, <1>5, <2>2
    <3> QED
      BY <3>1 DEF end
  <2> QED
    BY <1>1, <2>1, <2>2
<1>7. \A i \in 1 .. Len(p) + 1 : (\A j \in DOMAIN p : j >= i => ~About(p[j], d)) => g[i] = end
  <2> SUFFICES ASSUME NEW i \in 1 .. n + 2, \A j \in DOMAIN p : j >= i => ~About(p[j], d)
               PROVE  g[i] = end
    BY <1>1
  <2>1. CASE i = n + 2
    BY <1>4, <2>1
  <2>2. CASE i \in 1 .. n + 1
    <3>1. ~About(e, d)
      BY <1>1, <2>2
    <3>2. \A j \in DOMAIN q : j >= i => ~About(q[j], d)
      BY <1>1
    <3>3. h[i] = to
      BY <1>3, <2>2, <3>2
    <3> QED
      BY <1>4, <2>2, <3>1, <3>3 DEF end
  <2> QED
    BY <1>1, <2>1, <2>2
<1>8. g[1] = from
  BY <1>1, <1>3, <1>4
<1> QED
  BY <1>4, <1>6, <1>7, <1>8 DEF Leads, p, end

(* If the dialog never acts during a reload, whatever it has posted precedes    *)
(* the reloads that wait.                                                      *)

Ordered ==
  \A i, j \in DOMAIN posted : i < j /\ posted[i].kind = "reload" => posted[j].kind = "reload"
OnlyReloads == \A i \in DOMAIN posted : posted[i].kind = "reload"
Follows == ~overlapped =>
  /\ Ordered
  /\ job # None => /\ OnlyReloads
                   /\ job.unload \subseteq registered
                   /\ \A d \in Docset : Row(d) = Due(d)
  /\ job = None /\ status = "running" => \A d \in Docset : Leads(posted, d, Row(d), Due(d))

LEMMA Marks == \A d : Row(d) \in Mark /\ Due(d) \in Mark
  BY DEF Row, Due, Mark

LEMMA MarksStay ==
  ASSUME UNCHANGED <<rows, registered>>
  PROVE  \A d : Row(d)' = Row(d) /\ Due(d)' = Due(d)
  BY DEF Row, Due

\* A step that leaves the queue, the rows and the docsets alone.
LEMMA FollowsStays ==
  ASSUME Follows, UNCHANGED <<rows, registered, posted, job, overlapped>>,
         status' = "running" => status = "running"
  PROVE  Follows'
<1>1. \A d : Row(d)' = Row(d) /\ Due(d)' = Due(d)
  BY MarksStay
<1> HIDE DEF Leads, Row, Due
<1> QED
  BY <1>1 DEF Follows, Ordered, OnlyReloads

LEMMA NoneReloads ==
  ASSUME Shape, OnlyReloads, NEW d
  PROVE  Leads(posted, d, Row(d), Row(d)) /\ (Leads(posted, d, Row(d), Due(d)) => Row(d) = Due(d))
<1>1. \A i \in DOMAIN posted : ~About(posted[i], d)
  BY DEF OnlyReloads, About
<1>2. posted \in Seq(Event)
  BY DEF Shape
<1> QED
  BY <1>1, <1>2, NoneAbout, Marks

LEMMA SetStoragePathFollows ==
  ASSUME Shape, Follows, NEW p \in Storage, SetStoragePath(p)
  PROVE  Follows'
<1>1. UNCHANGED <<registered, rows, job, overlapped, status>>
  BY DEF SetStoragePath
<1>2. CASE p = storage
  BY <1>1, <1>2, FollowsStays DEF SetStoragePath
<1>3. CASE p # storage
  <2> DEFINE e == [kind |-> "reload", path |-> p]
  <2>1. e \in Event /\ e.kind = "reload" /\ \A d : ~About(e, d)
    BY DEF Event, About
  <2>2. posted' = posted \o <<e>>
    BY <1>3 DEF SetStoragePath, Post
  <2> HIDE DEF e
  <2>3. posted' = Append(posted, e) /\ posted \in Seq(Event)
    BY <2>1, <2>2 DEF Shape
  <2>4. /\ Len(posted) \in Nat /\ DOMAIN posted = 1 .. Len(posted)
        /\ DOMAIN posted' = 1 .. Len(posted) + 1
        /\ posted'[Len(posted) + 1] = e
        /\ \A i \in 1 .. Len(posted) : posted'[i] = posted[i]
    BY <2>1, <2>3
  <2>5. Ordered => Ordered'
    BY <2>1, <2>4 DEF Ordered
  <2>6. OnlyReloads => OnlyReloads'
    BY <2>1, <2>4 DEF OnlyReloads
  <2>7. \A d : Row(d)' = Row(d) /\ Due(d)' = Due(d)
    BY <1>1, MarksStay
  <2>8. ASSUME NEW d, Leads(posted, d, Row(d), Due(d)) PROVE Leads(posted', d, Row(d), Due(d))
    BY <2>1, <2>3, <2>8, LeadsFurther, Marks
  <2> HIDE DEF Leads
  <2> QED
    BY <1>1, <2>5, <2>6, <2>7, <2>8 DEF Follows
<1> QED
  BY <1>2, <1>3

LEMMA StartReloadFollows ==
  ASSUME Shape, Follows, StartReload
  PROVE  Follows'
<1>1. /\ posted # <<>> /\ Head(posted).kind = "reload" /\ posted' = Tail(posted)
      /\ job = None /\ status = "running" /\ job'.unload = registered
      /\ UNCHANGED <<registered, rows, overlapped, status>>
  BY DEF StartReload
<1>2. job' # None
  BY ReloadAssumption, RegistryAssumption, Popping, <1>1 DEF StartReload, Reload, Shape, Event
<1>3. SUFFICES ASSUME ~overlapped PROVE Follows'
  BY <1>1 DEF Follows
<1>4. /\ posted \in Seq(Event) /\ Len(posted) \in Nat
      /\ DOMAIN posted = 1 .. Len(posted) /\ Head(posted) = posted[1] /\ 1 \in DOMAIN posted
      /\ DOMAIN posted' = 1 .. Len(posted) - 1
      /\ \A i \in 1 .. Len(posted) - 1 : posted'[i] = posted[i + 1]
  BY <1>1 DEF Shape
<1>5. OnlyReloads
  BY <1>1, <1>3, <1>4 DEF Follows, Ordered, OnlyReloads
<1>6. OnlyReloads' /\ Ordered'
  BY <1>4, <1>5 DEF OnlyReloads, Ordered
<1>7. \A d : Row(d)' = Row(d) /\ Due(d)' = Due(d)
  BY <1>1, MarksStay
<1>8. \A d \in Docset : Row(d) = Due(d)
  BY <1>1, <1>3, <1>5, NoneReloads DEF Follows
<1> HIDE DEF Leads
<1> QED
  BY <1>1, <1>2, <1>6, <1>7, <1>8 DEF Follows

LEMMA FinishReloadFollows ==
  ASSUME Shape, Follows, FinishReload
  PROVE  Follows'
<1>1. job # None /\ job' = None /\ UNCHANGED <<registered, rows, posted, overlapped, status>>
  BY DEF FinishReload
<1>2. Ordered' <=> Ordered
  BY <1>1 DEF Ordered
<1>3. \A d : Row(d)' = Row(d) /\ Due(d)' = Due(d)
  BY <1>1, MarksStay
<1>4. ASSUME ~overlapped, NEW d \in Docset PROVE Leads(posted, d, Row(d), Due(d))
  <2>1. OnlyReloads /\ Row(d) = Due(d)
    BY <1>1, <1>4 DEF Follows
  <2> QED
    BY <2>1, NoneReloads
<1> HIDE DEF Leads
<1> QED
  BY <1>1, <1>2, <1>3, <1>4 DEF Follows

LEMMA UnloadNextFollows ==
  ASSUME Shape, Follows, NEW d \in Docset, UnloadNext(d)
  PROVE  Follows'
<1>1. /\ job # None /\ registered' = registered \ {d} /\ rows' = [rows EXCEPT ![d] = "none"]
      /\ job' = [job EXCEPT !.unload = @ \ {d}]
      /\ UNCHANGED <<posted, overlapped, status>>
  BY DEF UnloadNext, UnloadDocset
<1>2. job \in Reload
  BY <1>1 DEF Shape
<1>3. job' # None /\ job'.unload = job.unload \ {d}
  <2>1. job' \in Reload /\ job'.unload = job.unload \ {d}
    BY <1>1, <1>2 DEF Reload
  <2> QED
    BY <2>1, ReloadAssumption
<1>4. SUFFICES ASSUME ~overlapped PROVE Follows'
  BY <1>1 DEF Follows
<1>5. OnlyReloads' /\ Ordered'
  BY <1>1, <1>4 DEF Follows, OnlyReloads, Ordered
<1>6. \A x \in Docset : Row(x)' = Due(x)'
  BY <1>1, <1>4 DEF Follows, Row, Due, Shape
<1>7. job'.unload \subseteq registered'
  BY <1>1, <1>3, <1>4 DEF Follows
<1> HIDE DEF Leads
<1> QED
  BY <1>1, <1>3, <1>5, <1>6, <1>7 DEF Follows

\* What a call leaves registered.
LEMMA RegisterLeaves ==
  ASSUME Shape, NEW d \in Docset, NEW o \in Outcome, RegisterDocset(d, o)
  PROVE  registered' = IF o = "invalid" THEN registered
                       ELSE IF Registers(d, o) THEN registered \cup {d} ELSE registered \ {d}
  BY DEF RegisterDocset

LEMMA LoadNextFollows ==
  ASSUME Shape, Follows, NEW d \in Docset, NEW o \in Outcome, LoadNext(d, o)
  PROVE  Follows'
<1>1. /\ job # None /\ job.unload = {} /\ rows' = [rows EXCEPT ![d] = RowNow(d, o)]
      /\ RegisterDocset(d, o)
      /\ job' = [job EXCEPT !.load = @ \ {d}]
      /\ UNCHANGED <<posted, overlapped, status>>
  BY DEF LoadNext
<1>2. job \in Reload
  BY <1>1 DEF Shape
<1>3. job' # None /\ job'.unload = {}
  <2>1. job' \in Reload /\ job'.unload = {}
    BY <1>1, <1>2 DEF Reload
  <2> QED
    BY <2>1, ReloadAssumption
<1>4. SUFFICES ASSUME ~overlapped PROVE Follows'
  BY <1>1 DEF Follows
<1>5. OnlyReloads' /\ Ordered'
  BY <1>1, <1>4 DEF Follows, OnlyReloads, Ordered
<1>6. registered' = IF o = "invalid" THEN registered
                    ELSE IF Registers(d, o) THEN registered \cup {d} ELSE registered \ {d}
  BY <1>1, RegisterLeaves
<1>7. \A x \in Docset : rows[x] = "none" <=> x \notin registered
  BY <1>1, <1>4 DEF Follows, Row, Due
<1>8. Registers(d, o) => o # "invalid"
  BY DEF Registers
<1>9. RowNow(d, o) = "none" <=> d \notin registered'
  BY <1>6, <1>7, <1>8 DEF RowNow, RowAfter
<1>10. \A x \in Docset : rows'[x] = "none" <=> x \notin registered'
  BY <1>1, <1>6, <1>7, <1>9 DEF Shape
<1>11. \A x \in Docset : Row(x)' = Due(x)'
  BY <1>10 DEF Row, Due
<1> HIDE DEF Leads
<1> QED
  BY <1>1, <1>3, <1>5, <1>11 DEF Follows

LEMMA AppendOne ==
  ASSUME NEW s \in Seq(Event), NEW e \in Event
  PROVE  /\ s \o <<e>> = Append(s, e) /\ Append(s, e) \in Seq(Event)
         /\ Len(s) \in Nat /\ DOMAIN s = 1 .. Len(s) /\ DOMAIN Append(s, e) = 1 .. Len(s) + 1
         /\ Append(s, e)[Len(s) + 1] = e
         /\ \A i \in DOMAIN s : i \in DOMAIN Append(s, e) /\ Append(s, e)[i] = s[i]
         /\ \A i \in DOMAIN Append(s, e) : i \in DOMAIN s \/ Append(s, e)[i] = e
  OBVIOUS

LEMMA AppendTwo ==
  ASSUME NEW s \in Seq(Event), NEW a \in Seq(Event), NEW b \in Seq(Event)
  PROVE  /\ s \o (a \o b) = (s \o a) \o b
         /\ s \o <<>> = s
  OBVIOUS

\* What the dialog may do when no reload is waiting or under way: post events
\* that are none.
LEMMA PostingFollows ==
  ASSUME Shape, Follows, DialogActs, UNCHANGED <<job, status>>,
         posted' \in Seq(Event),
         \A i \in DOMAIN posted' : i \in DOMAIN posted \/ posted'[i].kind # "reload",
         \A i \in DOMAIN posted : posted'[i] = posted[i],
         (\A d \in Docset : Leads(posted, d, Row(d), Due(d)))
           => \A d \in Docset : Leads(posted, d, Row(d), Due(d))'
  PROVE  Follows'
<1>1. SUFFICES ASSUME ~overlapped' PROVE Follows'
  BY DEF Follows
<1>2. ~overlapped /\ ~Loading /\ status = "running" /\ job = None /\ job' = None
  BY <1>1 DEF DialogActs, Loading
<1>3. \A i \in DOMAIN posted : posted[i].kind # "reload"
  BY <1>2 DEF Loading, Waiting
<1>4. \A i \in DOMAIN posted' : posted'[i].kind # "reload"
  BY <1>3
<1>5. Ordered'
  BY <1>4 DEF Ordered
<1>6. \A d \in Docset : Leads(posted, d, Row(d), Due(d))
  BY <1>2 DEF Follows
<1> HIDE DEF Leads, Row, Due
<1>7. \A d \in Docset : Leads(posted, d, Row(d), Due(d))'
  BY <1>2, <1>6
<1> QED
  BY <1>2, <1>5, <1>7 DEF Follows

\* Orphaning a row leaves a row.
LEMMA OrphanedRows ==
  ASSUME Shape, NEW d \in Docset, rows' = Orphaned(d) \/ rows' = rows
  PROVE  \A x \in Docset : Row(x)' = Row(x)
  BY DEF Shape, Orphaned, Row

LEMMA DialogUnloadsFollows ==
  ASSUME Shape, Follows, NEW d \in Docset, DialogUnloads(d)
  PROVE  Follows'
<1> DEFINE e == [kind |-> "unloading", name |-> d]
<1>1. /\ e \in Event /\ e.kind = "unloading"
      /\ \A x : About(e, x) <=> x = d
      /\ Before(e) = "row" /\ After(e) = "no row"
  BY DEF Event, About, Before, After
<1>2. /\ DialogActs /\ d \in registered /\ UNCHANGED <<job, status>>
      /\ rows' = Orphaned(d) /\ registered' = registered \ {d} /\ posted' = posted \o <<e>>
  BY DEF DialogUnloads, UnloadDocset, Post
<1> HIDE DEF e
<1>3. posted' = Append(posted, e) /\ posted \in Seq(Event)
  <2>1. e \in Event /\ posted' = posted \o <<e>> /\ posted \in Seq(Event)
    BY <1>1, <1>2 DEF Shape
  <2> QED
    BY <2>1, AppendOne
<1>4. /\ posted' \in Seq(Event)
      /\ \A i \in DOMAIN posted : posted'[i] = posted[i]
      /\ \A i \in DOMAIN posted' : i \in DOMAIN posted \/ posted'[i] = e
  <2>1. e \in Event
    BY <1>1
  <2> QED
    BY <1>3, <2>1, AppendOne
<1>5. \A i \in DOMAIN posted' : i \in DOMAIN posted \/ posted'[i].kind # "reload"
  <2>1. e.kind # "reload"
    BY <1>1
  <2> QED
    BY <1>4, <2>1
<1>6. \A x \in Docset : Row(x)' = Row(x)
  BY <1>2, OrphanedRows
<1>7. \A x \in Docset : Due(x)' = IF x = d THEN "no row" ELSE Due(x)
  BY <1>2 DEF Due
<1>8. Due(d) = "row"
  BY <1>2 DEF Due
<1>9. ASSUME NEW x \in Docset, Leads(posted, x, Row(x), Due(x))
      PROVE  Leads(posted, x, Row(x), Due(x))'
  <2>1. Leads(Append(posted, e), x, Row(x), IF About(e, x) THEN After(e) ELSE Due(x))
    BY <1>1, <1>3, <1>8, <1>9, LeadsFurther, Marks
  <2>2. Leads(posted', x, Row(x)', Due(x)')
    BY <1>1, <1>3, <1>6, <1>7, <2>1
  <2> QED
    BY <2>2 DEF Leads, About, Before, After
<1> HIDE DEF Leads
<1> QED
  BY <1>2, <1>4, <1>5, <1>9, PostingFollows

LEMMA DialogLoadsFollows ==
  ASSUME Shape, Follows, NEW d \in Docset, NEW o \in Outcome, DialogLoads(d, o)
  PROVE  Follows'
<1> DEFINE u == [kind |-> "unloading", name |-> d]
           l == [kind |-> "loaded", name |-> d]
           gone == d \in registered /\ o # "invalid"
           come == Registers(d, o)
           one == IF gone THEN Append(posted, u) ELSE posted
<1>1. /\ u \in Event /\ l \in Event /\ u.kind = "unloading" /\ l.kind = "loaded"
      /\ \A x : (About(u, x) <=> x = d) /\ (About(l, x) <=> x = d)
      /\ Before(u) = "row" /\ After(u) = "no row"
      /\ Before(l) = "no row" /\ After(l) = "row"
  BY DEF Event, About, Before, After
<1>2. /\ DialogActs /\ UNCHANGED <<job, status>>
      /\ rows' = Orphaned(d) \/ rows' = rows
      /\ posted' = posted \o Emitted(d, o) /\ RegisterDocset(d, o)
  BY DEF DialogLoads, Post
<1>3. come => o # "invalid"
  BY DEF Registers
<1>4. Emitted(d, o) = (IF gone THEN <<u>> ELSE <<>>) \o (IF come THEN <<l>> ELSE <<>>)
  BY <1>3 DEF Emitted
<1> HIDE DEF u, l
<1>5. posted \in Seq(Event) /\ one \in Seq(Event) /\ u \in Event /\ l \in Event
  <2>1. posted \in Seq(Event) /\ u \in Event /\ l \in Event
    BY <1>1 DEF Shape
  <2> QED
    BY <2>1, AppendOne
<1>6. posted' = IF come THEN Append(one, l) ELSE one
  <2> HIDE DEF gone, come
  <2> DEFINE a == IF gone THEN <<u>> ELSE <<>>
             b == IF come THEN <<l>> ELSE <<>>
  <2>1. a \in Seq(Event) /\ b \in Seq(Event)
    <3>1. <<u>> \in Seq(Event) /\ <<l>> \in Seq(Event) /\ <<>> \in Seq(Event)
      BY <1>5
    <3> QED
      BY <3>1
  <2>2. posted' = posted \o (a \o b)
    BY <1>2, <1>4
  <2>3. posted \o a = one
    BY <1>5, AppendOne, AppendTwo
  <2>4. one \o b = IF come THEN Append(one, l) ELSE one
    <3> HIDE DEF one
    <3> QED
      BY <1>5, AppendOne, AppendTwo
  <2> HIDE DEF a, b, one
  <2>5. posted' = (posted \o a) \o b
    <3>1. posted \in Seq(Event)
      BY <1>5
    <3>2. posted \o (a \o b) = (posted \o a) \o b
      BY ONLY <2>1, <3>1, AppendTwo
    <3> QED
      BY <2>2, <3>2
  <2> QED
    BY <2>3, <2>4, <2>5
<1>7. registered' = IF come THEN registered \cup {d} ELSE IF gone THEN registered \ {d} ELSE registered
  BY <1>2, <1>3, RegisterLeaves DEF Shape
<1>8. \A x \in Docset : Row(x)' = Row(x)
  BY <1>2, OrphanedRows
<1>9. /\ posted' \in Seq(Event)
      /\ \A i \in DOMAIN posted' : i \in DOMAIN posted \/ posted'[i].kind # "reload"
      /\ \A i \in DOMAIN posted : posted'[i] = posted[i]
  <2> HIDE DEF gone, come
  <2>1. u.kind # "reload" /\ l.kind # "reload"
    BY <1>1
  <2>2. /\ \A i \in DOMAIN one : i \in DOMAIN posted \/ one[i].kind # "reload"
        /\ \A i \in DOMAIN posted : i \in DOMAIN one /\ one[i] = posted[i]
    <3>1. CASE gone
      BY <1>5, <2>1, <3>1, AppendOne
    <3>2. CASE ~gone
      BY <1>5, <3>2
    <3> QED
      BY <3>1, <3>2
  <2> HIDE DEF one
  <2>3. CASE come
    <3>1. posted' = Append(one, l)
      BY <1>6, <2>3
    <3> QED
      BY <1>5, <2>1, <2>2, <3>1, AppendOne
  <2>4. CASE ~come
    <3>1. posted' = one
      BY <1>6, <2>4
    <3> QED
      BY <1>5, <2>2, <3>1
  <2> QED
    BY <2>3, <2>4
<1>10. ASSUME NEW x \in Docset, Leads(posted, x, Row(x), Due(x))
       PROVE  Leads(posted, x, Row(x), Due(x))'
  <2> DEFINE between == IF gone /\ x = d THEN "no row" ELSE Due(x)
  <2>1. between \in Mark
    BY Marks DEF Mark
  <2>2. Leads(one, x, Row(x), between)
    <3>1. CASE gone
      <4>1. About(u, x) => Due(x) = Before(u)
        BY <1>1, <3>1 DEF Due
      <4>2. Leads(Append(posted, u), x, Row(x), IF About(u, x) THEN After(u) ELSE Due(x))
        BY <1>1, <1>5, <1>10, <4>1, LeadsFurther, Marks
      <4> QED
        BY <1>1, <3>1, <4>2
    <3>2. CASE ~gone
      BY <1>10, <3>2
    <3> QED
      BY <3>1, <3>2
  <2>3. Leads(posted', x, Row(x), Due(x)')
    <3>1. CASE come
      <4>1. About(l, x) => between = Before(l)
        BY <1>1, <1>3, <3>1 DEF Due
      <4> HIDE DEF one, between
      <4>2. Leads(Append(one, l), x, Row(x), IF About(l, x) THEN After(l) ELSE between)
        BY <1>1, <1>5, <2>1, <2>2, <4>1, LeadsFurther, Marks
      <4>3. Due(x)' = IF About(l, x) THEN After(l) ELSE between
        BY <1>1, <1>7, <3>1 DEF Due, between
      <4> QED
        BY <1>6, <3>1, <4>2, <4>3
    <3>2. CASE ~come
      <4>1. Due(x)' = between
        BY <1>7, <3>2 DEF Due
      <4> QED
        BY <1>6, <2>2, <3>2, <4>1
    <3> QED
      BY <3>1, <3>2
  <2>4. Leads(posted', x, Row(x)', Due(x)')
    BY <1>8, <2>3
  <2> QED
    BY <2>4 DEF Leads, About, Before, After
<1> HIDE DEF Leads
<1> QED
  BY <1>2, <1>9, <1>10, PostingFollows

LEMMA DeliverFollows ==
  ASSUME Shape, Follows, Deliver
  PROVE  Follows'
<1> DEFINE e == Head(posted)
<1>1. /\ status = "running" /\ job = None /\ posted # <<>> /\ e.kind # "reload"
      /\ posted' = Tail(posted) /\ UNCHANGED <<registered, job, overlapped>>
      /\ \/ status' = "crashed"
         \/ rows' = [rows EXCEPT ![e.name] = RowAfter(e.name, e.kind)] /\ UNCHANGED status
  BY DEF Deliver
<1>2. /\ posted \in Seq(Event) /\ e \in Event /\ Len(posted) \in Nat
      /\ DOMAIN posted' = 1 .. Len(posted) - 1 /\ DOMAIN posted = 1 .. Len(posted)
      /\ \A i \in 1 .. Len(posted) - 1 : posted'[i] = posted[i + 1]
  BY <1>1 DEF Shape
<1>3. e.name \in Docset /\ e.kind \in {"loaded", "unloading"}
  BY <1>1, <1>2 DEF Event
<1>4. SUFFICES ASSUME ~overlapped PROVE Follows'
  BY <1>1 DEF Follows
<1>5. Ordered'
  BY <1>2, <1>4 DEF Follows, Ordered
<1>6. ASSUME status' = "running", NEW x \in Docset PROVE Leads(posted, x, Row(x), Due(x))'
  <2>1. rows' = [rows EXCEPT ![e.name] = RowAfter(e.name, e.kind)]
    BY <1>1, <1>6
  <2>2. Leads(posted, x, Row(x), Due(x))
    BY <1>1, <1>4 DEF Follows
  <2>3. Due(x)' = Due(x)
    BY <1>1 DEF Due
  <2>4. CASE About(e, x)
    <3>1. Leads(Tail(posted), x, After(e), Due(x))
      BY <1>1, <1>2, <2>2, <2>4, LeadsOn
    <3>2. x = e.name
      BY <2>4 DEF About
    <3>3. rows'[x] = RowAfter(x, e.kind)
      BY <2>1, <3>2 DEF Shape
    <3>4. Row(x)' = After(e)
      BY <1>3, <3>3 DEF Row, After, RowAfter
    <3>5. Leads(posted', x, Row(x)', Due(x)')
      BY <1>1, <2>3, <3>1, <3>4
    <3> QED
      BY <3>5 DEF Leads, About, Before, After
  <2>5. CASE ~About(e, x)
    <3>1. Leads(Tail(posted), x, Row(x), Due(x))
      BY <1>1, <1>2, <2>2, <2>5, LeadsOn
    <3>2. x # e.name
      BY <1>1, <2>5 DEF About
    <3>3. Row(x)' = Row(x)
      BY <2>1, <3>2 DEF Row, Shape
    <3>4. Leads(posted', x, Row(x)', Due(x)')
      BY <1>1, <2>3, <3>1, <3>3
    <3> QED
      BY <3>4 DEF Leads, About, Before, After
  <2> QED
    BY <2>4, <2>5
<1> HIDE DEF Leads
<1> QED
  BY <1>1, <1>5, <1>6 DEF Follows

LEMMA FollowsInit == Init => Shape /\ Follows
<1> SUFFICES ASSUME Init PROVE Follows
  BY InvInit DEF Inv, Tables
<1>1. posted \in Seq(Event) /\ DOMAIN posted = {} /\ job = None
  BY SequencesOfEvents DEF Init
<1>2. \A d \in Docset : Row(d) = Due(d)
  BY DEF Init, Row, Due
<1>3. \A d \in Docset : Leads(posted, d, Row(d), Row(d))
  BY <1>1, NoneAbout, Marks
<1> HIDE DEF Leads
<1> QED
  BY <1>1, <1>2, <1>3 DEF Follows, Ordered

LEMMA FollowsNext == Shape /\ Follows /\ [Next]_vars => Follows'
<1> SUFFICES ASSUME Shape, Follows, [Next]_vars PROVE Follows'
  OBVIOUS
<1>1. CASE Quit
  BY <1>1, FollowsStays DEF Quit
<1>2. CASE Destroy
  <2>1. job = None /\ job' = None /\ status' = "gone" /\ UNCHANGED <<posted, overlapped>>
    BY <1>2 DEF Destroy
  <2> QED
    BY <2>1 DEF Follows, Ordered
<1>3. CASE EndServe \/ \E p \in Prefix : BeginServe(p)
  BY <1>3, FollowsStays DEF EndServe, BeginServe
<1>4. CASE Ended \/ UNCHANGED vars
  BY <1>4, FollowsStays DEF Ended, vars
<1>5. CASE Thread
  BY <1>5, StartReloadFollows, FinishReloadFollows, DeliverFollows, UnloadNextFollows, LoadNextFollows
  DEF Thread
<1> QED
  BY <1>1, <1>2, <1>3, <1>4, <1>5, SetStoragePathFollows, DialogUnloadsFollows, DialogLoadsFollows DEF Next

LEMMA FollowsAlways == Spec => []Follows
<1>1. Init => Follows
  BY FollowsInit
<1>2. Inv => Shape
  BY DEF Inv, Tables
<1> QED
  BY <1>1, <1>2, FollowsNext, InvAlways, PTL DEF Spec

\* Once nothing waits, every registered docset has its row and no other docset has
\* one, for any docsets and any directories, if the dialog was not used during a
\* reload: whatever order the signals of the two threads were queued in.
THEOREM RowsAreTheDocsets == Spec => []RowsFollow
<1>1. ASSUME Inv, Follows, Quiet, ~overlapped, NEW d \in Docset
      PROVE  rows[d] = IF d \in registered THEN "live" ELSE "none"
  <2>1. posted \in Seq(Event) /\ DOMAIN posted = {}
    BY <1>1, SequencesOfEvents DEF Quiet
  <2>2. Leads(posted, d, Row(d), Due(d))
    BY <1>1 DEF Follows, Quiet
  <2>3. Row(d) = Due(d)
    BY <2>1, <2>2, NoneAbout
  <2>4. rows[d] # "stale"
    BY <1>1, <2>1 DEF Inv, StaleRowsGo, Waiting
  <2>5. rows[d] \in {"none", "live", "stale"}
    BY <1>1 DEF Inv, Tables, Shape
  <2> QED
    BY <2>3, <2>4, <2>5 DEF Row, Due
<1>2. Inv /\ Follows => RowsFollow
  BY <1>1 DEF RowsFollow
<1> QED
  BY <1>2, InvAlways, FollowsAlways, PTL

\* Whoever asks the rows to remove a docset's row, a delivered signal or the reload
\* itself, finds one, if the dialog was not used during a reload.
THEOREM RemovalsFindTheirRow == Spec => []RemovalFindsRow
<1>1. ASSUME Shape, Follows, ~overlapped, status = "running", posted # <<>>,
             Head(posted).kind = "unloading"
      PROVE  rows[Head(posted).name] # "none"
  <2> DEFINE e == Head(posted)
  <2>1. /\ posted \in Seq(Event) /\ e \in Event /\ DOMAIN posted = 1 .. Len(posted)
        /\ 1 \in DOMAIN posted /\ posted[1] = e
    BY <1>1 DEF Shape
  <2>2. e.name \in Docset /\ About(e, e.name) /\ Before(e) = "row"
    BY <1>1, <2>1 DEF Event, About, Before
  <2>3. job = None
    BY <1>1, <2>1 DEF Follows, OnlyReloads
  <2>4. Leads(posted, e.name, Row(e.name), Due(e.name))
    BY <1>1, <2>2, <2>3 DEF Follows
  <2>5. Row(e.name) = "row"
    BY <1>1, <2>1, <2>2, <2>4, LeadsOn
  <2> QED
    BY <2>5 DEF Row
<1>2. ASSUME Shape, Follows, ~overlapped, job # None, NEW d \in job.unload
      PROVE  rows[d] # "none"
  <2>1. d \in registered /\ d \in Docset
    BY <1>2 DEF Follows, Shape
  <2> QED
    BY <1>2, <2>1 DEF Follows, Row, Due
<1>3. Inv /\ Follows => RemovalFindsRow
  BY <1>1, <1>2 DEF RemovalFindsRow, Inv, Tables
<1> QED
  BY <1>3, InvAlways, FollowsAlways, PTL

-----------------------------------------------------------------------------
(* Mounts.  What a docset that shares its prefix with no other has in the       *)
(* tables m depends only on whether it is in, for the calls that are about      *)
(* other docsets touch other entries.                                          *)

Never(s, d) == \A i \in DOMAIN s : s[i] # d
Once(s, d)  == \E i \in DOMAIN s : s[i] = d /\ \A j \in DOMAIN s : s[j] = d => j = i

Has(m, d, in) ==
  /\ m.providers[PrefixOf[d]] = IF in /\ d \in Archived THEN d ELSE None
  /\ m.mountPoints[PrefixOf[d]] = d <=> in /\ d \notin Archived
  /\ IF in /\ d \notin Archived THEN Once(m.baseDirs, d) ELSE Never(m.baseDirs, d)

Sited == status # "gone" =>
  \A d \in Docset : Unshared(d) => Has(NoMounts, d, d \in registered)

LEMMA RemovedAt ==
  ASSUME NEW s \in Seq(Docset), NEW i \in 1 .. Len(s)
  PROVE  /\ DOMAIN RemoveAt(s, i) = 1 .. Len(s) - 1
         /\ \A j \in 1 .. i - 1 : RemoveAt(s, i)[j] = s[j]
         /\ \A j \in i .. Len(s) - 1 : RemoveAt(s, i)[j] = s[j + 1]
<1> DEFINE a == SubSeq(s, 1, i - 1)
           b == SubSeq(s, i + 1, Len(s))
<1>1. Len(s) \in Nat /\ i \in Nat /\ RemoveAt(s, i) = a \o b
  BY DEF RemoveAt
<1>2. a \in Seq(Docset) /\ Len(a) = i - 1 /\ \A j \in 1 .. i - 1 : a[j] = s[j]
  BY <1>1
<1>3. b \in Seq(Docset) /\ Len(b) = Len(s) - i /\ \A j \in 1 .. Len(s) - i : b[j] = s[i + j]
  <2>1. i + 1 \in Int /\ Len(s) \in Int /\ \A j \in i + 1 .. Len(s) : s[j] \in Docset
    BY <1>1
  <2>2. /\ b \in Seq(Docset)
        /\ Len(b) = IF i + 1 <= Len(s) THEN Len(s) - (i + 1) + 1 ELSE 0
        /\ \A j \in 1 .. Len(s) - (i + 1) + 1 : b[j] = s[(i + 1) + j - 1]
    BY <2>1, SubSeqProperties
  <2> HIDE DEF b
  <2>3. Len(b) = Len(s) - i
    BY <1>1, <2>2
  <2>4. ASSUME NEW j \in 1 .. Len(s) - i PROVE b[j] = s[i + j]
    <3>1. j \in 1 .. Len(s) - (i + 1) + 1 /\ (i + 1) + j - 1 = i + j
      BY <1>1
    <3> QED
      BY <2>2, <3>1
  <2> QED
    BY <2>2, <2>3, <2>4
<1> HIDE DEF a, b
<1>4. /\ DOMAIN (a \o b) = 1 .. Len(a) + Len(b)
      /\ \A j \in 1 .. Len(a) : (a \o b)[j] = a[j]
      /\ \A j \in Len(a) + 1 .. Len(a) + Len(b) : (a \o b)[j] = b[j - Len(a)]
  <2>1. a \in Seq(Docset) /\ b \in Seq(Docset)
    BY <1>2, <1>3
  <2> QED
    BY <2>1
<1>5. ASSUME NEW j \in i .. Len(s) - 1 PROVE (a \o b)[j] = s[j + 1]
  <2>1. j \in Len(a) + 1 .. Len(a) + Len(b) /\ j - Len(a) = j - (i - 1)
        /\ j - (i - 1) \in 1 .. Len(s) - i /\ i + (j - (i - 1)) = j + 1
    BY <1>1, <1>2, <1>3
  <2> QED
    BY <1>3, <1>4, <2>1
<1> QED
  BY <1>1, <1>2, <1>3, <1>4, <1>5

LEMMA RemovedNever ==
  ASSUME NEW s \in Seq(Docset), NEW d, Never(s, d), NEW i \in 1 .. Len(s)
  PROVE  Never(RemoveAt(s, i), d)
<1>1. Len(s) \in Nat /\ i \in Nat /\ DOMAIN s = 1 .. Len(s)
  OBVIOUS
<1>2. ASSUME NEW j \in 1 .. Len(s) - 1 PROVE RemoveAt(s, i)[j] # d
  <2>1. \/ j \in 1 .. i - 1
        \/ j \in i .. Len(s) - 1
    BY <1>1
  <2>2. j \in DOMAIN s /\ j + 1 \in DOMAIN s
    BY <1>1
  <2> QED
    BY <2>1, <2>2, RemovedAt DEF Never
<1> QED
  BY <1>2, RemovedAt DEF Never

LEMMA RemovedOther ==
  ASSUME NEW s \in Seq(Docset), NEW d, Once(s, d), NEW i \in 1 .. Len(s), s[i] # d
  PROVE  Once(RemoveAt(s, i), d)
<1> DEFINE r == RemoveAt(s, i)
<1>1. Len(s) \in Nat /\ i \in Nat /\ DOMAIN s = 1 .. Len(s)
  OBVIOUS
<1>2. /\ DOMAIN r = 1 .. Len(s) - 1
      /\ \A j \in 1 .. i - 1 : r[j] = s[j]
      /\ \A j \in i .. Len(s) - 1 : r[j] = s[j + 1]
  BY RemovedAt
<1> HIDE DEF r
<1>3. PICK k \in DOMAIN s : s[k] = d /\ \A j \in DOMAIN s : s[j] = d => j = k
  BY DEF Once
<1> DEFINE n == IF k < i THEN k ELSE k - 1
<1>4. n \in DOMAIN r /\ r[n] = d
  <2>1. CASE k < i
    BY <1>1, <1>2, <1>3, <2>1
  <2>2. CASE ~(k < i)
    <3>1. k # i
      BY <1>3
    <3>2. k - 1 \in i .. Len(s) - 1 /\ (k - 1) + 1 = k
      BY <1>1, <1>3, <2>2, <3>1
    <3> QED
      BY <1>1, <1>2, <1>3, <2>2, <3>2
  <2> QED
    BY <2>1, <2>2
<1>5. ASSUME NEW j \in DOMAIN r, r[j] = d PROVE j = n
  <2>1. CASE j \in 1 .. i - 1
    <3>1. j \in DOMAIN s /\ s[j] = d
      BY <1>1, <1>2, <1>5, <2>1
    <3>2. j = k
      BY <1>3, <3>1
    <3> QED
      BY <1>1, <2>1, <3>2
  <2>2. CASE j \in i .. Len(s) - 1
    <3>1. j + 1 \in DOMAIN s /\ s[j + 1] = d
      BY <1>1, <1>2, <1>5, <2>2
    <3>2. j + 1 = k
      BY <1>3, <3>1
    <3> QED
      BY <1>1, <2>2, <3>2
  <2> QED
    BY <1>1, <1>2, <2>1, <2>2
<1> QED
  BY <1>4, <1>5 DEF Once, r

LEMMA RemovedOnce ==
  ASSUME NEW s \in Seq(Docset), NEW d, Once(s, d), NEW i \in 1 .. Len(s), s[i] = d
  PROVE  Never(RemoveAt(s, i), d)
<1> DEFINE r == RemoveAt(s, i)
<1>1. Len(s) \in Nat /\ i \in Nat /\ DOMAIN s = 1 .. Len(s)
  OBVIOUS
<1>2. /\ DOMAIN r = 1 .. Len(s) - 1
      /\ \A j \in 1 .. i - 1 : r[j] = s[j]
      /\ \A j \in i .. Len(s) - 1 : r[j] = s[j + 1]
  BY RemovedAt
<1> HIDE DEF r
<1>3. \A j \in DOMAIN s : s[j] = d => j = i
  BY <1>1 DEF Once
<1>4. ASSUME NEW j \in DOMAIN r PROVE r[j] # d
  <2>1. CASE j \in 1 .. i - 1
    <3>1. j \in DOMAIN s /\ j # i
      BY <1>1, <2>1
    <3> QED
      BY <1>2, <1>3, <2>1, <3>1
  <2>2. CASE j \in i .. Len(s) - 1
    <3>1. j + 1 \in DOMAIN s /\ j + 1 # i
      BY <1>1, <2>2
    <3> QED
      BY <1>2, <1>3, <2>2, <3>1
  <2> QED
    BY <1>1, <1>2, <2>1, <2>2
<1> QED
  BY <1>4 DEF Never, r

LEMMA AppendedOther ==
  ASSUME NEW s \in Seq(Docset), NEW e \in Docset, NEW d, e # d
  PROVE  /\ Never(s, d) => Never(Append(s, e), d)
         /\ Once(s, d) => Once(Append(s, e), d)
<1>1. /\ Len(s) \in Nat /\ DOMAIN s = 1 .. Len(s) /\ DOMAIN Append(s, e) = 1 .. Len(s) + 1
      /\ Append(s, e)[Len(s) + 1] = e /\ \A i \in 1 .. Len(s) : Append(s, e)[i] = s[i]
  OBVIOUS
<1>2. Never(s, d) => Never(Append(s, e), d)
  BY <1>1 DEF Never
<1>3. ASSUME Once(s, d) PROVE Once(Append(s, e), d)
  <2>1. PICK k \in DOMAIN s : s[k] = d /\ \A j \in DOMAIN s : s[j] = d => j = k
    BY <1>3 DEF Once
  <2>2. k \in DOMAIN Append(s, e) /\ Append(s, e)[k] = d
    BY <1>1, <2>1
  <2>3. \A j \in DOMAIN Append(s, e) : Append(s, e)[j] = d => j = k
    BY <1>1, <2>1
  <2> QED
    BY <2>2, <2>3 DEF Once
<1> QED
  BY <1>2, <1>3

LEMMA AppendedOnce ==
  ASSUME NEW s \in Seq(Docset), NEW d \in Docset, Never(s, d)
  PROVE  Once(Append(s, d), d)
<1>1. /\ Len(s) \in Nat /\ DOMAIN s = 1 .. Len(s) /\ DOMAIN Append(s, d) = 1 .. Len(s) + 1
      /\ Append(s, d)[Len(s) + 1] = d /\ \A i \in 1 .. Len(s) : Append(s, d)[i] = s[i]
  OBVIOUS
<1>2. Len(s) + 1 \in DOMAIN Append(s, d)
  BY <1>1
<1>3. \A j \in DOMAIN Append(s, d) : Append(s, d)[j] = d => j = Len(s) + 1
  BY <1>1 DEF Never
<1> QED
  BY <1>1, <1>2, <1>3 DEF Once

\* The tables a call leaves are tables.
LEMMA TablesAre ==
  ASSUME NEW e
  PROVE  /\ \E p, b, q : Unmounted(e) = [providers |-> p, baseDirs |-> b, mountPoints |-> q]
         /\ \E p, b, q : Left(e) = [providers |-> p, baseDirs |-> b, mountPoints |-> q]
  BY DEF Left, Unmounted, NoMounts

LEMMA UnmountingOther ==
  ASSUME Shape, Tails, NEW d \in Docset, Unshared(d), NEW e \in Docset, e # d, NEW in,
         Has(NoMounts, d, in)
  PROVE  Has(Unmounted(e), d, in)
<1>1. PrefixOf[e] \in Prefix /\ PrefixOf[d] \in Prefix /\ PrefixOf[e] # PrefixOf[d]
  BY RegistryAssumption DEF Unshared
<1>2. Unmounted(e).providers[PrefixOf[d]] = providers[PrefixOf[d]]
  BY <1>1, MountsType DEF Shape
<1>3. Unmounted(e).mountPoints[PrefixOf[d]] = mountPoints[PrefixOf[d]]
  BY <1>1 DEF Unmounted, NoMounts, Tails
<1>4. \/ Unmounted(e).baseDirs = baseDirs
      \/ /\ SamePrefix(e) # {}
         /\ Unmounted(e).baseDirs = RemoveAt(baseDirs, FirstOf(SamePrefix(e)))
  BY DEF Unmounted, NoMounts
<1>5. ASSUME SamePrefix(e) # {}
      PROVE  FirstOf(SamePrefix(e)) \in 1 .. Len(baseDirs) /\ baseDirs[FirstOf(SamePrefix(e))] # d
  <2>1. SamePrefix(e) \subseteq 1 .. Len(baseDirs) /\ 1 .. Len(baseDirs) \subseteq Nat
    BY DEF SamePrefix, Tails
  <2>2. FirstOf(SamePrefix(e)) \in SamePrefix(e)
    BY <1>5, <2>1, FirstIsOne
  <2> QED
    BY <1>1, <2>1, <2>2 DEF SamePrefix
<1>6. baseDirs \in Seq(Docset)
  BY DEF Tails
<1>7. /\ Never(baseDirs, d) => Never(Unmounted(e).baseDirs, d)
      /\ Once(baseDirs, d) => Once(Unmounted(e).baseDirs, d)
  BY <1>4, <1>5, <1>6, RemovedNever, RemovedOther
<1> HIDE DEF Once, Never
<1> QED
  BY <1>2, <1>3, <1>7 DEF Has, NoMounts

LEMMA UnmountingIt ==
  ASSUME Shape, Tails, NEW d \in Docset, Unshared(d), NEW in, Has(NoMounts, d, in)
  PROVE  Has(Unmounted(d), d, FALSE)
<1>1. PrefixOf[d] \in Prefix /\ d # None
  BY RegistryAssumption
<1>2. Unmounted(d).providers[PrefixOf[d]] = None
  BY <1>1, MountsType DEF Shape
<1>3. CASE providers[PrefixOf[d]] # None
  <2>1. in /\ d \in Archived
    BY <1>3 DEF Has, NoMounts
  <2>2. Unmounted(d).baseDirs = baseDirs /\ Unmounted(d).mountPoints = mountPoints
    BY <1>3 DEF Unmounted, NoMounts
  <2>3. Never(baseDirs, d) /\ mountPoints[PrefixOf[d]] # d
    BY <2>1 DEF Has, NoMounts
  <2> HIDE DEF Never
  <2> QED
    BY <1>2, <2>2, <2>3 DEF Has
<1>4. CASE providers[PrefixOf[d]] = None
  <2>1. Unmounted(d).mountPoints[PrefixOf[d]] # d
    BY <1>1, <1>4 DEF Unmounted, NoMounts, Tails
  <2>2. Unmounted(d).baseDirs = IF SamePrefix(d) = {} THEN baseDirs
                                ELSE RemoveAt(baseDirs, FirstOf(SamePrefix(d)))
    BY <1>4 DEF Unmounted, NoMounts
  <2>3. baseDirs \in Seq(Docset)
    BY DEF Tails
  <2>4. \A i \in DOMAIN baseDirs : i \in SamePrefix(d) <=> baseDirs[i] = d
    BY <2>3 DEF SamePrefix, Unshared
  <2>5. Never(Unmounted(d).baseDirs, d)
    <3>1. CASE SamePrefix(d) = {}
      <4>1. Never(baseDirs, d)
        BY <2>4, <3>1 DEF Never
      <4> QED
        BY <2>2, <3>1, <4>1
    <3>2. CASE SamePrefix(d) # {}
      <4>1. SamePrefix(d) \subseteq 1 .. Len(baseDirs) /\ 1 .. Len(baseDirs) \subseteq Nat
        BY <2>3 DEF SamePrefix
      <4>2. FirstOf(SamePrefix(d)) \in SamePrefix(d)
        BY <3>2, <4>1, FirstIsOne
      <4>3. FirstOf(SamePrefix(d)) \in 1 .. Len(baseDirs) /\ baseDirs[FirstOf(SamePrefix(d))] = d
        BY <2>3, <2>4, <4>1, <4>2
      <4>4. Once(baseDirs, d)
        BY <2>3, <4>3 DEF Has, NoMounts, Never
      <4> QED
        BY <2>2, <2>3, <3>2, <4>3, <4>4, RemovedOnce
    <3> QED
      BY <3>1, <3>2
  <2> HIDE DEF Never
  <2> QED
    BY <1>2, <2>1, <2>5 DEF Has
<1> QED
  BY <1>3, <1>4

LEMMA Leaving ==
  ASSUME Shape, Tails, NEW d \in Docset, Unshared(d), NEW e \in Docset,
         Has(NoMounts, d, d \in registered)
  PROVE  /\ Has(Unmounted(e), d, d \in registered \ {e})
         /\ Has(Left(e), d, d \in registered \ {e})
<1>1. Has(Unmounted(e), d, d \in registered \ {e})
  <2>1. CASE e = d
    <3>1. Has(Unmounted(d), d, FALSE)
      BY UnmountingIt
    <3>2. (d \in registered \ {d}) = FALSE
      OBVIOUS
    <3> QED
      BY <2>1, <3>1, <3>2
  <2>2. CASE e # d
    <3>1. Has(Unmounted(e), d, d \in registered)
      BY <2>2, UnmountingOther
    <3>2. (d \in registered \ {e}) = (d \in registered)
      BY <2>2
    <3> QED
      BY <3>1, <3>2
  <2> QED
    BY <2>1, <2>2
<1>2. CASE e \in registered
  BY <1>1, <1>2 DEF Left
<1>3. CASE e \notin registered
  <2>1. registered \ {e} = registered
    BY <1>3
  <2> QED
    BY <1>1, <1>3, <2>1 DEF Left
<1> QED
  BY <1>1, <1>2, <1>3

LEMMA Entering ==
  ASSUME Shape, Tails, NEW d \in Docset, Unshared(d), NEW e \in Docset,
         Has(Left(e), d, d \in registered \ {e})
  PROVE  Has(Mounted(e, Left(e)), d, d \in registered \cup {e})
<1>1. PrefixOf[e] \in Prefix /\ PrefixOf[d] \in Prefix /\ d # None
  BY RegistryAssumption
<1>2. PICK p, b, q : Left(e) = [providers |-> p, baseDirs |-> b, mountPoints |-> q]
  BY TablesAre
<1>3. b \in Seq(Docset) /\ q \in [Prefix -> Docset \cup {None}]
  BY <1>2, MountsKeepTails
<1>4. p \in [Prefix -> Docset \cup {None}]
  <2>1. Left(e).providers \in [Prefix -> Docset \cup {None}]
    BY <1>1, MountsType DEF Shape
  <2> QED
    BY <1>2, <2>1
<1>5. /\ p[PrefixOf[d]] = IF d \in registered \ {e} /\ d \in Archived THEN d ELSE None
      /\ q[PrefixOf[d]] = d <=> d \in registered \ {e} /\ d \notin Archived
      /\ IF d \in registered \ {e} /\ d \notin Archived THEN Once(b, d) ELSE Never(b, d)
  BY <1>2 DEF Has
<1> DEFINE m == Mounted(e, Left(e))
<1>6. CASE e \in Archived
  <2>1. m = [providers |-> [p EXCEPT ![PrefixOf[e]] = e], baseDirs |-> b, mountPoints |-> q]
    BY <1>2, <1>6 DEF Mounted
  <2> HIDE DEF m, Once, Never
  <2>2. CASE e = d
    BY <1>1, <1>4, <1>5, <1>6, <2>1, <2>2 DEF Has, m
  <2>3. CASE e # d
    <3>1. PrefixOf[e] # PrefixOf[d]
      BY <2>3 DEF Unshared
    <3> QED
      BY <1>1, <1>4, <1>5, <2>1, <2>3, <3>1 DEF Has, m
  <2> QED
    BY <2>2, <2>3
<1>7. CASE e \notin Archived
  <2>1. m = [providers |-> p, baseDirs |-> Append(b, e), mountPoints |-> [q EXCEPT ![PrefixOf[e]] = e]]
    <3>1. ASSUME NEW x, x = [providers |-> p, baseDirs |-> b, mountPoints |-> q]
          PROVE  Mounted(e, x) = [providers |-> p, baseDirs |-> Append(b, e),
                                  mountPoints |-> [q EXCEPT ![PrefixOf[e]] = e]]
      BY <1>7, <3>1 DEF Mounted
    <3> QED
      BY <1>2, <3>1
  <2> HIDE DEF m, Once, Never
  <2>2. CASE e = d
    <3>1. Once(Append(b, d), d)
      BY <1>3, <1>5, <2>2, AppendedOnce
    <3> QED
      BY <1>1, <1>3, <1>5, <1>7, <2>1, <2>2, <3>1 DEF Has, m
  <2>3. CASE e # d
    <3>1. PrefixOf[e] # PrefixOf[d]
      BY <2>3 DEF Unshared
    <3>2. (Never(b, d) => Never(Append(b, e), d)) /\ (Once(b, d) => Once(Append(b, e), d))
      BY <1>3, <2>3, AppendedOther
    <3> QED
      BY <1>1, <1>3, <1>5, <2>1, <2>3, <3>1, <3>2 DEF Has, m
  <2> QED
    BY <2>2, <2>3
<1> QED
  BY <1>6, <1>7

LEMMA Becoming ==
  ASSUME NEW m, MountsAre(m), NEW d, Has(m, d, d \in registered')
  PROVE  Has(NoMounts, d, d \in registered)'
<1>1. providers' = m.providers /\ baseDirs' = m.baseDirs /\ mountPoints' = m.mountPoints
  BY DEF MountsAre
<1> QED
  BY <1>1 DEF Has, NoMounts, Once, Never

LEMMA SitedStays ==
  ASSUME Sited, UNCHANGED <<mounts, registered>>, status' # "gone" => status # "gone"
  PROVE  Sited'
<1>1. UNCHANGED <<registered, providers, baseDirs, mountPoints>>
  BY DEF mounts
<1> QED
  BY <1>1 DEF Sited, Has, NoMounts, Once, Never, Unshared

LEMMA UnloadSites ==
  ASSUME Shape, Tails, Sited, NEW e \in Docset, UnloadDocset(e), status' # "gone" => status # "gone"
  PROVE  Sited'
<1>1. MountsAre(Unmounted(e)) /\ registered' = registered \ {e}
  BY DEF UnloadDocset
<1>2. ASSUME status # "gone", NEW d \in Docset, Unshared(d)
      PROVE  Has(NoMounts, d, d \in registered)'
  <2>1. Has(NoMounts, d, d \in registered)
    BY <1>2 DEF Sited
  <2>2. Has(Unmounted(e), d, d \in registered \ {e})
    BY <1>2, <2>1, Leaving
  <2>3. Has(Unmounted(e), d, d \in registered')
    BY <1>1, <2>2
  <2> QED
    BY <1>1, <2>3, Becoming
<1>3. \A d : Unshared(d)' = Unshared(d)
  BY DEF Unshared
<1> HIDE DEF Has
<1> QED
  BY <1>2, <1>3 DEF Sited

LEMMA RegisterSites ==
  ASSUME Shape, Tails, Sited, NEW e \in Docset, NEW o \in Outcome, RegisterDocset(e, o),
         status' # "gone" => status # "gone"
  PROVE  Sited'
<1>1. CASE o = "invalid"
  BY <1>1, SitedStays DEF RegisterDocset
<1>2. CASE o # "invalid"
  <2>1. ASSUME status # "gone", NEW d \in Docset, Unshared(d)
        PROVE  Has(NoMounts, d, d \in registered)'
    <3>1. Has(NoMounts, d, d \in registered)
      BY <2>1 DEF Sited
    <3>2. Has(Left(e), d, d \in registered \ {e})
      BY <2>1, <3>1, Leaving
    <3>3. CASE Registers(e, o)
      <4>1. registered' = registered \cup {e} /\ MountsAre(Mounted(e, Left(e)))
        BY <1>2, <3>3 DEF RegisterDocset
      <4>2. Has(Mounted(e, Left(e)), d, d \in registered \cup {e})
        BY <2>1, <3>2, Entering
      <4>3. Has(Mounted(e, Left(e)), d, d \in registered')
        BY <4>1, <4>2
      <4> QED
        BY <4>1, <4>3, Becoming
    <3>4. CASE ~Registers(e, o)
      <4>1. registered' = registered \ {e} /\ MountsAre(Left(e))
        BY <1>2, <3>4 DEF RegisterDocset
      <4>2. Has(Left(e), d, d \in registered')
        BY <3>2, <4>1
      <4> QED
        BY <4>1, <4>2, Becoming
    <3> QED
      BY <3>3, <3>4
  <2>2. \A d : Unshared(d)' = Unshared(d)
    BY DEF Unshared
  <2> HIDE DEF Has
  <2> QED
    BY <2>1, <2>2 DEF Sited
<1> QED
  BY <1>1, <1>2

LEMMA SitedInit == Init => Sited
<1> SUFFICES ASSUME Init, NEW d \in Docset PROVE Has(NoMounts, d, d \in registered)
  BY DEF Sited
<1>1. PrefixOf[d] \in Prefix /\ d # None
  BY RegistryAssumption
<1>2. /\ providers[PrefixOf[d]] = None /\ mountPoints[PrefixOf[d]] = None
      /\ DOMAIN baseDirs = {} /\ d \notin registered
  BY <1>1 DEF Init
<1> QED
  BY <1>1, <1>2 DEF Has, NoMounts, Never

LEMMA SitedNext == Shape /\ Tails /\ Sited /\ [Next]_vars => Sited'
<1> SUFFICES ASSUME Shape, Tails, Sited, [Next]_vars PROVE Sited'
  OBVIOUS
<1>1. CASE \E p \in Storage : SetStoragePath(p)
  BY <1>1, SitedStays DEF SetStoragePath
<1>2. CASE \E d \in Docset : DialogUnloads(d)
  BY <1>2, UnloadSites DEF DialogUnloads
<1>3. CASE \E d \in Docset : \E o \in Outcome : DialogLoads(d, o)
  BY <1>3, RegisterSites DEF DialogLoads
<1>4. CASE Thread
  <2>1. CASE StartReload \/ FinishReload \/ Deliver
    <3>1. UNCHANGED <<mounts, registered>> /\ (status' # "gone" => status # "gone")
      BY <2>1 DEF StartReload, FinishReload, Deliver
    <3> QED
      BY <3>1, SitedStays
  <2>2. CASE \E d \in Docset : UnloadNext(d)
    BY <2>2, UnloadSites DEF UnloadNext
  <2>3. CASE \E d \in Docset, o \in Outcome : LoadNext(d, o)
    BY <2>3, RegisterSites DEF LoadNext
  <2> QED
    BY <1>4, <2>1, <2>2, <2>3 DEF Thread
<1>5. CASE Quit \/ EndServe \/ \E p \in Prefix : BeginServe(p)
  BY <1>5, SitedStays DEF Quit, EndServe, BeginServe
<1>6. CASE Ended \/ UNCHANGED vars
  BY <1>6, SitedStays DEF Ended, vars
<1>7. CASE Destroy
  BY <1>7 DEF Destroy, Sited
<1> QED
  BY <1>1, <1>2, <1>3, <1>4, <1>5, <1>6, <1>7 DEF Next

\* Until the program ends, a docset with a prefix of its own is registered exactly
\* if it is mounted, and it is mounted once: as a content provider if it is an
\* archive, as one directory if it is not.  However often it is loaded over itself,
\* unloaded by the dialog while a reload is about to unload it, or loaded without
\* success, no mount is left behind and none is missing.
THEOREM MountedIfRegistered == Spec => []MountsAgree
<1>1. Init => Tails
  <2>1. <<>> \in Seq(Docset)
    OBVIOUS
  <2> QED
    BY <2>1 DEF Init, Tails
<1>2. ASSUME Tails, Sited, status # "gone", NEW d \in Docset, Unshared(d),
             NEW directory, directory = (d \in registered /\ d \notin Archived)
      PROVE  /\ providers[PrefixOf[d]] = d <=> d \in registered \cap Archived
             /\ mountPoints[PrefixOf[d]] = d <=> directory
             /\ Cardinality({i \in DOMAIN baseDirs : baseDirs[i] = d}) = IF directory THEN 1 ELSE 0
  <2>1. Has(NoMounts, d, d \in registered)
    BY <1>2 DEF Sited
  <2>2. d # None
    BY RegistryAssumption
  <2>3. /\ providers[PrefixOf[d]] = d <=> d \in registered \cap Archived
        /\ mountPoints[PrefixOf[d]] = d <=> directory
        /\ IF directory THEN Once(baseDirs, d) ELSE Never(baseDirs, d)
    BY <1>2, <2>1, <2>2 DEF Has, NoMounts
  <2> DEFINE S == {i \in DOMAIN baseDirs : baseDirs[i] = d}
  <2>4. CASE directory
    <3>1. PICK i \in DOMAIN baseDirs : baseDirs[i] = d /\ \A j \in DOMAIN baseDirs : baseDirs[j] = d => j = i
      BY <2>3, <2>4 DEF Once
    <3>2. S = {i}
      BY <3>1
    <3>3. Cardinality(S) = 1
      BY <3>2, FS_Singleton
    <3> QED
      BY <2>3, <2>4, <3>3
  <2>5. CASE ~directory
    <3>1. S = {}
      BY <2>3, <2>5 DEF Never
    <3>2. Cardinality(S) = 0
      BY <3>1, FS_EmptySet
    <3> QED
      BY <2>3, <2>5, <3>2
  <2> QED
    BY <2>4, <2>5
<1>3. Tails /\ Sited => MountsAgree
  BY <1>2 DEF MountsAgree
<1>4. Inv => Shape
  BY DEF Inv, Tables
<1> QED
  BY <1>1, <1>3, <1>4, SitedInit, SitedNext, TailsNext, InvAlways, PTL DEF Spec
=============================================================================
