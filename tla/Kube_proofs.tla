---------------------------- MODULE Kube_proofs ----------------------------
(***************************************************************************)
(* Proofs about modules/k8s. The kubeconfig edits and the waits, for any   *)
(* number of tests, contexts and users, any home config that can be used,  *)
(* any budget and any number of nodes; and the tunnels, for any number of  *)
(* tunnels, ports and pods: no tunnel's endpoint is served by another one, *)
(* and the global lock is held exactly by the calls it is meant for.       *)
(***************************************************************************)
EXTENDS Kube, Tunnel, OrderLemmas

-----------------------------------------------------------------------------
(* What a config is, and what an edit makes of it. *)

ContextNames == ToSet(Contexts)
Bounds == [cluster : HomeConfig.clusters, user : HomeConfig.users \union Users]

\* A config field by field, as the code builds it.
LEMMA ConfigFields ==
  ASSUME NEW c \in Configs
  PROVE  /\ c = [contexts |-> c.contexts, clusters |-> c.clusters,
                 users |-> c.users, current |-> c.current]
         /\ DOMAIN c.contexts \in SUBSET ContextNames
         /\ c.contexts \in [DOMAIN c.contexts -> Bounds]
         /\ c.clusters \in SUBSET HomeConfig.clusters
         /\ c.users \in SUBSET (HomeConfig.users \union Users)
         /\ c.current \in ContextNames \union {NoContext}
BY DEF Configs, ContextNames, Bounds

LEMMA FieldsMakeConfig ==
  ASSUME NEW names \in SUBSET ContextNames, NEW f \in [names -> Bounds],
         NEW clusters \in SUBSET HomeConfig.clusters,
         NEW users \in SUBSET (HomeConfig.users \union Users),
         NEW current \in ContextNames \union {NoContext}
  PROVE  [contexts |-> f, clusters |-> clusters, users |-> users, current |-> current] \in Configs
<1>1. f \in UNION {[n -> Bounds] : n \in SUBSET ContextNames}
  OBVIOUS
<1> QED BY <1>1 DEF Configs, ContextNames, Bounds

\* One field after the other, as ModifyConfig writes it.
LEMMA FieldsCanChange ==
  ASSUME NEW c \in Configs
  PROVE  /\ \A v \in ContextNames \union {NoContext} : [c EXCEPT !.current = v] \in Configs
         /\ \A v \in SUBSET HomeConfig.clusters : [c EXCEPT !.clusters = v] \in Configs
         /\ \A v \in SUBSET (HomeConfig.users \union Users) : [c EXCEPT !.users = v] \in Configs
         /\ \A names \in SUBSET ContextNames : \A f \in [names -> Bounds] :
              [c EXCEPT !.contexts = f] \in Configs
<1>1. /\ c = [contexts |-> c.contexts, clusters |-> c.clusters,
              users |-> c.users, current |-> c.current]
      /\ DOMAIN c.contexts \in SUBSET ContextNames
      /\ c.contexts \in [DOMAIN c.contexts -> Bounds]
      /\ c.clusters \in SUBSET HomeConfig.clusters
      /\ c.users \in SUBSET (HomeConfig.users \union Users)
      /\ c.current \in ContextNames \union {NoContext}
  BY ConfigFields
<1>2. ASSUME NEW v \in ContextNames \union {NoContext} PROVE [c EXCEPT !.current = v] \in Configs
  <2>1. [c EXCEPT !.current = v] =
          [contexts |-> c.contexts, clusters |-> c.clusters, users |-> c.users, current |-> v]
    BY <1>1
  <2> QED BY <1>1, <2>1, FieldsMakeConfig
<1>3. ASSUME NEW v \in SUBSET HomeConfig.clusters PROVE [c EXCEPT !.clusters = v] \in Configs
  <2>1. [c EXCEPT !.clusters = v] =
          [contexts |-> c.contexts, clusters |-> v, users |-> c.users, current |-> c.current]
    BY <1>1
  <2> QED BY <1>1, <2>1, FieldsMakeConfig
<1>4. ASSUME NEW v \in SUBSET (HomeConfig.users \union Users) PROVE [c EXCEPT !.users = v] \in Configs
  <2>1. [c EXCEPT !.users = v] =
          [contexts |-> c.contexts, clusters |-> c.clusters, users |-> v, current |-> c.current]
    BY <1>1
  <2> QED BY <1>1, <2>1, FieldsMakeConfig
<1>5. ASSUME NEW names \in SUBSET ContextNames, NEW f \in [names -> Bounds]
      PROVE  [c EXCEPT !.contexts = f] \in Configs
  <2>1. [c EXCEPT !.contexts = f] =
          [contexts |-> f, clusters |-> c.clusters, users |-> c.users, current |-> c.current]
    BY <1>1
  <2> QED BY <1>1, <2>1, FieldsMakeConfig
<1> QED BY <1>2, <1>3, <1>4, <1>5

LEMMA EmptyIsConfig == EmptyConfig \in Configs
<1> DEFINE f == [n \in {} |-> n]
<1>1. f \in [{} -> Bounds] /\ {} \in SUBSET ContextNames
  OBVIOUS
<1>2. /\ {} \in SUBSET HomeConfig.clusters /\ {} \in SUBSET (HomeConfig.users \union Users)
      /\ NoContext \in ContextNames \union {NoContext}
  OBVIOUS
<1> HIDE DEF f
<1>3. [contexts |-> f, clusters |-> {}, users |-> {}, current |-> NoContext] \in Configs
  BY <1>1, <1>2, FieldsMakeConfig
<1> QED BY <1>3 DEF EmptyConfig, f

LEMMA BindsAreFunctions ==
  ASSUME NEW c \in Configs, NEW name \in ContextNames, NEW bound \in Bounds
  PROVE  /\ DOMAIN Bind(c.contexts, name, bound) = DOMAIN c.contexts \union {name}
         /\ DOMAIN Bind(c.contexts, name, bound) \in SUBSET ContextNames
         /\ Bind(c.contexts, name, bound) \in [DOMAIN Bind(c.contexts, name, bound) -> Bounds]
BY ConfigFields DEF Bind

\* setNewContext finds one of the contexts that are left.
LEMMA NewContextExists ==
  ASSUME NEW f, DOMAIN f \in SUBSET ContextNames, DOMAIN f # {}
  PROVE  SetNewContext(f) \in DOMAIN f
<1> DEFINE T == {i \in DOMAIN Contexts : Contexts[i] \in DOMAIN f}
<1>1. DOMAIN Contexts = 1 .. Len(Contexts) /\ Len(Contexts) \in Nat
  BY KubeConfigAssumption
<1>2. T \in SUBSET Nat
  BY <1>1
<1>3. T # {}
  BY DEF ContextNames, ToSet
<1>4. PICK k \in T : \A y \in T : k <= y
  <2> HIDE DEF T
  <2> QED BY <1>2, <1>3, LeastNatural
<1>5. /\ k \in DOMAIN Contexts /\ Contexts[k] \in DOMAIN f
      /\ \A j \in 1 .. k - 1 : Contexts[j] \notin DOMAIN f
  <2>1. ASSUME NEW j \in 1 .. k - 1, Contexts[j] \in DOMAIN f PROVE FALSE
    <3>1. j \in T
      BY <1>1, <1>2, <2>1
    <3> QED BY <1>2, <1>4, <3>1
  <2> QED BY <2>1
<1> HIDE DEF T
<1> QED BY <1>5 DEF SetNewContext

LEMMA WithoutIsConfig ==
  ASSUME NEW c \in Configs, NEW name \in DOMAIN c.contexts, ~NoneRemains(c, name)
  PROVE  /\ Without(c, name) \in Configs
         /\ Sound(c) => /\ Sound(Without(c, name))
                        /\ Without(c, name).clusters \subseteq c.clusters
                        /\ Without(c, name).users \subseteq c.users
         /\ DOMAIN Without(c, name).contexts = DOMAIN c.contexts \ {name}
<1> DEFINE left == [n \in DOMAIN c.contexts \ {name} |-> c.contexts[n]]
           current == IF c.current = name THEN SetNewContext(left) ELSE c.current
           clusters == {left[n].cluster : n \in DOMAIN left}
           users == {left[n].user : n \in DOMAIN left}
<1>1. /\ c = [contexts |-> c.contexts, clusters |-> c.clusters,
              users |-> c.users, current |-> c.current]
      /\ DOMAIN c.contexts \in SUBSET ContextNames
      /\ c.contexts \in [DOMAIN c.contexts -> Bounds]
      /\ c.current \in ContextNames \union {NoContext}
  BY ConfigFields
<1>2. /\ DOMAIN left = DOMAIN c.contexts \ {name} /\ DOMAIN left \in SUBSET ContextNames
      /\ left \in [DOMAIN left -> Bounds]
  BY <1>1
<1>3. /\ current \in ContextNames \union {NoContext}
      /\ Sound(c) => current \in DOMAIN left
  <2>1. CASE c.current = name
    <3>1. DOMAIN left # {}
      BY <1>2, <2>1 DEF NoneRemains
    <3>2. SetNewContext(left) \in DOMAIN left
      <4> HIDE DEF left
      <4> QED BY <1>2, <3>1, NewContextExists
    <3> QED BY <1>2, <2>1, <3>2
  <2>2. CASE c.current # name
    BY <1>1, <1>2, <2>2 DEF Sound
  <2> QED BY <2>1, <2>2
<1>4. Without(c, name) = [contexts |-> left, clusters |-> clusters, users |-> users, current |-> current]
  <2> HIDE DEF left
  <2>1. Without(c, name) = RemoveOrphaned([c EXCEPT !.contexts = left, !.current = current])
    BY DEF Without, left
  <2> HIDE DEF current
  <2>2. PICK clusters0, users0, current0 :
          c = [contexts |-> c.contexts, clusters |-> clusters0, users |-> users0, current |-> current0]
    BY <1>1
  <2> DEFINE d == [contexts |-> left, clusters |-> clusters0, users |-> users0, current |-> current]
  <2>3. [c EXCEPT !.contexts = left, !.current = current] = d
    <3>1. [c EXCEPT !.contexts = left] =
            [contexts |-> left, clusters |-> clusters0, users |-> users0, current |-> current0]
      BY <2>2
    <3>2. [[contexts |-> left, clusters |-> clusters0, users |-> users0, current |-> current0]
             EXCEPT !.current = current] = d
      OBVIOUS
    <3> QED BY <3>1, <3>2
  <2>4. RemoveOrphaned(d) =
          [d EXCEPT !.clusters = {left[n].cluster : n \in DOMAIN left},
                    !.users = {left[n].user : n \in DOMAIN left}]
    BY DEF RemoveOrphaned
  <2>5. RemoveOrphaned(d) = [contexts |-> left, clusters |-> clusters, users |-> users, current |-> current]
    <3> HIDE DEF clusters, users
    <3>1. [d EXCEPT !.clusters = clusters] =
            [contexts |-> left, clusters |-> clusters, users |-> users0, current |-> current]
      OBVIOUS
    <3>2. [[contexts |-> left, clusters |-> clusters, users |-> users0, current |-> current]
             EXCEPT !.users = users] =
            [contexts |-> left, clusters |-> clusters, users |-> users, current |-> current]
      OBVIOUS
    <3>3. [d EXCEPT !.clusters = clusters, !.users = users] =
            [contexts |-> left, clusters |-> clusters, users |-> users, current |-> current]
      <4> HIDE DEF d
      <4> QED BY <3>1, <3>2
    <3> QED BY <2>4, <3>3 DEF clusters, users
  <2> HIDE DEF d
  <2> QED BY <2>1, <2>3, <2>5
<1>5. \A n \in DOMAIN left : left[n].cluster \in clusters /\ left[n].user \in users
  OBVIOUS
<1>6. clusters \in SUBSET HomeConfig.clusters /\ users \in SUBSET (HomeConfig.users \union Users)
  <2>1. \A n \in DOMAIN left : left[n] \in Bounds
    BY <1>2
  <2> HIDE DEF left
  <2> QED BY <2>1 DEF Bounds
<1>7. Sound(c) => clusters \subseteq c.clusters /\ users \subseteq c.users
  BY DEF Sound
<1> HIDE DEF left, current, clusters, users
<1>8. Without(c, name) \in Configs
  BY <1>2, <1>3, <1>4, <1>6, FieldsMakeConfig
<1>9. Sound(c) => Sound(Without(c, name))
  BY <1>2, <1>3, <1>4, <1>5 DEF Sound
<1> QED BY <1>2, <1>4, <1>7, <1>8, <1>9

LEMMA WithContextIsConfig ==
  ASSUME NEW c \in Configs, c.current \in DOMAIN c.contexts,
         NEW name \in ContextNames, NEW user \in Users
  PROVE  /\ WithContext(c, name, user) \in Configs
         /\ Sound(c) => Sound(WithContext(c, name, user))
         /\ DOMAIN WithContext(c, name, user).contexts = DOMAIN c.contexts \union {name}
<1> DEFINE bound == [cluster |-> c.contexts[c.current].cluster, user |-> user]
           f == Bind(c.contexts, name, bound)
           users == c.users \union {user}
<1>1. /\ c = [contexts |-> c.contexts, clusters |-> c.clusters,
              users |-> c.users, current |-> c.current]
      /\ DOMAIN c.contexts \in SUBSET ContextNames
      /\ c.contexts \in [DOMAIN c.contexts -> Bounds]
      /\ c.clusters \in SUBSET HomeConfig.clusters
      /\ c.users \in SUBSET (HomeConfig.users \union Users)
      /\ c.current \in ContextNames \union {NoContext}
  BY ConfigFields
<1>2. bound \in Bounds
  <2>1. c.contexts[c.current].cluster \in HomeConfig.clusters
    BY <1>1 DEF Bounds
  <2> QED BY <2>1 DEF Bounds
<1>3. Sound(c) => bound.cluster \in c.clusters
  BY DEF Sound
<1>4. bound.user = user
  OBVIOUS
<1> HIDE DEF bound
<1>5. /\ DOMAIN f = DOMAIN c.contexts \union {name} /\ DOMAIN f \in SUBSET ContextNames
      /\ f \in [DOMAIN f -> Bounds]
  BY <1>2, BindsAreFunctions
<1>6. users \in SUBSET (HomeConfig.users \union Users)
  BY <1>1
<1>7. Sound(c) => \A n \in DOMAIN f : f[n].cluster \in c.clusters /\ f[n].user \in users
  BY <1>3, <1>4 DEF Sound, Bind
<1>8. WithContext(c, name, user) =
        [contexts |-> f, clusters |-> c.clusters, users |-> users, current |-> c.current]
  <2>1. WithContext(c, name, user) = [c EXCEPT !.contexts = f, !.users = users]
    BY DEF WithContext, bound
  <2> HIDE DEF f, users
  <2> QED BY <1>1, <2>1
<1> HIDE DEF f, users
<1>9. WithContext(c, name, user) \in Configs
  BY <1>1, <1>5, <1>6, <1>8, FieldsMakeConfig
<1>10. Sound(c) => Sound(WithContext(c, name, user))
  BY <1>5, <1>7, <1>8 DEF Sound
<1> QED BY <1>5, <1>8, <1>9, <1>10

\* What ModifyConfig can be handed for a config that was loaded.
CanBeMade(c, e) ==
  \/ e.op = "delete" /\ e.name \in DOMAIN c.contexts /\ ~NoneRemains(c, e.name)
  \/ /\ e.op = "add" /\ e.name \in ContextNames /\ e.user \in Users
     /\ c.current \in DOMAIN c.contexts

LEMMA EditedIsConfig ==
  ASSUME NEW c \in Configs, NEW e, CanBeMade(c, e)
  PROVE  /\ Edited(c, e) \in Configs
         /\ Sound(c) => Sound(Edited(c, e)) /\ ~HasNil(c, e)
         /\ e.op = "delete" => DOMAIN Edited(c, e).contexts = DOMAIN c.contexts \ {e.name}
         /\ e.op # "delete" => DOMAIN Edited(c, e).contexts = DOMAIN c.contexts \union {e.name}
<1>1. CASE e.op = "delete"
  <2>1. Edited(c, e) = Without(c, e.name)
    BY <1>1 DEF Edited
  <2> QED BY <1>1, <2>1, WithoutIsConfig DEF CanBeMade, HasNil
<1>2. CASE e.op # "delete"
  <2>1. Edited(c, e) = WithContext(c, e.name, e.user)
    BY <1>2 DEF Edited
  <2> QED BY <1>2, <2>1, WithContextIsConfig DEF CanBeMade, HasNil
<1> QED BY <1>1, <1>2

\* No write of a save makes what is not a config.
LEMMA WritesAreConfigs ==
  ASSUME NEW now \in Configs, NEW new \in Configs
  PROVE  Sets(now, new) \subseteq Configs /\ Drops(now, new) \subseteq Configs
<1>1. /\ DOMAIN now.contexts \in SUBSET ContextNames
      /\ now.contexts \in [DOMAIN now.contexts -> Bounds]
      /\ now.clusters \in SUBSET HomeConfig.clusters
      /\ now.users \in SUBSET (HomeConfig.users \union Users)
  BY ConfigFields
<1>2. /\ DOMAIN new.contexts \in SUBSET ContextNames
      /\ new.contexts \in [DOMAIN new.contexts -> Bounds]
      /\ new.clusters \in SUBSET HomeConfig.clusters
      /\ new.users \in SUBSET (HomeConfig.users \union Users)
      /\ new.current \in ContextNames \union {NoContext}
  BY ConfigFields
<1>3. [now EXCEPT !.current = new.current] \in Configs
  BY <1>2, FieldsCanChange
<1>4. \A c \in new.clusters : [now EXCEPT !.clusters = now.clusters \union {c}] \in Configs
  BY <1>1, <1>2, FieldsCanChange
<1>5. \A u \in new.users : [now EXCEPT !.users = now.users \union {u}] \in Configs
  BY <1>1, <1>2, FieldsCanChange
<1>6. ASSUME NEW n \in DOMAIN new.contexts
      PROVE  [now EXCEPT !.contexts = Bind(now.contexts, n, new.contexts[n])] \in Configs
  <2> DEFINE f == Bind(now.contexts, n, new.contexts[n])
  <2>1. n \in ContextNames /\ new.contexts[n] \in Bounds
    BY <1>2
  <2>2. DOMAIN f \in SUBSET ContextNames /\ f \in [DOMAIN f -> Bounds]
    BY <2>1, BindsAreFunctions
  <2> HIDE DEF f
  <2>3. [now EXCEPT !.contexts = f] \in Configs
    BY <2>2, FieldsCanChange
  <2> QED BY <2>3 DEF f
<1>7. \A c : [now EXCEPT !.clusters = now.clusters \ {c}] \in Configs
  BY <1>1, FieldsCanChange
<1>8. \A u : [now EXCEPT !.users = now.users \ {u}] \in Configs
  BY <1>1, FieldsCanChange
<1>9. ASSUME NEW n
      PROVE  [now EXCEPT !.contexts = [m \in DOMAIN now.contexts \ {n} |-> now.contexts[m]]] \in Configs
  <2> DEFINE f == [m \in DOMAIN now.contexts \ {n} |-> now.contexts[m]]
  <2>1. DOMAIN f \in SUBSET ContextNames /\ f \in [DOMAIN f -> Bounds]
    BY <1>1
  <2> HIDE DEF f
  <2>2. [now EXCEPT !.contexts = f] \in Configs
    BY <2>1, FieldsCanChange
  <2> QED BY <2>2 DEF f
<1> QED BY <1>3, <1>4, <1>5, <1>6, <1>7, <1>8, <1>9 DEF Sets, Drops

-----------------------------------------------------------------------------
(* The edits. *)

Paths == {Home} \union Editors
Edits == [op : {"none", "add", "delete"}, name : ContextNames \union {"none"}, user : Users \union {"none"}]

EditsHaveTypes ==
  /\ file \in [Paths -> Configs \union {NoFile}]
  /\ path \in [Editors -> Paths]
  /\ editor \in [Editors -> {"ready", "loaded", "saving", "failed", "ended", "dead"}]
  /\ memory \in [Editors -> Configs]
  /\ edit \in [Editors -> Edits]
  /\ kept \in [Paths -> SUBSET ContextNames]
  /\ history \in [Paths -> SUBSET Mishaps]

\* An edit under way knows what it is to do, and a save has something to write.
EditIsGiven ==
  \A t \in Editors :
    /\ editor[t] \in {"loaded", "saving"} =>
         /\ edit[t].op \in {"add", "delete"} /\ edit[t].name \in ContextNames
         /\ edit[t].op = "add" => edit[t].user \in Users
    /\ editor[t] = "saving" => CanBeMade(memory[t], edit[t])

LockIsExclusive ==
  \A t, u \in Editors : editor[t] = "saving" /\ editor[u] = "saving" /\ path[t] = path[u] => t = u

\* A temporary file is there from its copy to the end of its test, which is the
\* only one to write it: what an edit of it has loaded is what it still holds.
CopyIsPrivate ==
  /\ file[Home] # NoFile
  /\ \A t \in Editors :
       /\ path[t] \in {Home, t}
       /\ path[t] = Home => file[t] = NoFile /\ kept[t] = {}
       /\ path[t] = t => "stale" \notin history[t]
       /\ path[t] = t /\ editor[t] \in {"ready", "loaded", "saving"} => file[t] # NoFile
       /\ path[t] = t /\ editor[t] = "loaded" => memory[t] = file[t]
       /\ editor[t] = "failed" => path[t] = Home
       /\ editor[t] = "ended" => file[t] = NoFile

\* What an edit has in memory can be used, unless the file has seen a mishap.
MemoryIsSound ==
  \A t \in Editors :
    editor[t] \in {"loaded", "saving"} /\ history[path[t]] \subseteq {"stale"} => Sound(memory[t])

FileIsSound ==
  \A p \in Paths :
    file[p] # NoFile /\ ~BeingSaved(p) /\ history[p] \subseteq {"stale"} => Sound(file[p])

\* Contexts that were added are in the file, and while it is written in the
\* memory of the test that writes it.
KeptIsThere ==
  /\ \A p \in Paths :
       file[p] # NoFile /\ ~BeingSaved(p) /\ history[p] \subseteq {"torn"} =>
         kept[p] \subseteq DOMAIN file[p].contexts
  /\ \A t \in Editors :
       editor[t] = "saving" /\ history[path[t]] \subseteq {"torn"} =>
         kept[path[t]] \subseteq DOMAIN memory[t].contexts

ConfigIInv ==
  /\ EditsHaveTypes /\ EditIsGiven /\ LockIsExclusive /\ CopyIsPrivate
  /\ MemoryIsSound /\ FileIsSound /\ KeptIsThere

LEMMA HomeIsApart == Home \notin Editors /\ Home \in Paths /\ Editors \subseteq Paths
BY KubeConfigAssumption DEF Paths

LEMMA InitConfig == KubeConfigInit => ConfigIInv
<1> SUFFICES ASSUME KubeConfigInit PROVE ConfigIInv
  OBVIOUS
<1>1. /\ HomeConfig \in Configs /\ HomeConfig # NoFile /\ Sound(HomeConfig)
      /\ file = [p \in Paths |-> IF p = Home THEN HomeConfig ELSE NoFile]
      /\ path = [t \in Editors |-> Home]
      /\ editor = [t \in Editors |-> "ready"]
      /\ memory = [t \in Editors |-> HomeConfig]
      /\ edit = [t \in Editors |-> NoEdit]
      /\ kept = [p \in Paths |-> {}]
      /\ history = [p \in Paths |-> {}]
  BY KubeConfigAssumption DEF KubeConfigInit, Paths
<1>2. EditsHaveTypes
  BY <1>1, HomeIsApart DEF EditsHaveTypes, Edits, NoEdit
<1>3. EditIsGiven /\ LockIsExclusive /\ MemoryIsSound
  BY <1>1 DEF EditIsGiven, LockIsExclusive, MemoryIsSound
<1>4. CopyIsPrivate
  BY <1>1, HomeIsApart DEF CopyIsPrivate
<1>5. FileIsSound
  BY <1>1 DEF FileIsSound
<1>6. KeptIsThere
  BY <1>1 DEF KeptIsThere
<1> QED BY <1>2, <1>3, <1>4, <1>5, <1>6 DEF ConfigIInv

\* Nobody else writes the copy of a test.
LEMMA CopyHasOneWriter ==
  ASSUME ConfigIInv, NEW t \in Editors, BeingSaved(t)
  PROVE  path[t] = t /\ editor[t] = "saving"
BY HomeIsApart DEF ConfigIInv, CopyIsPrivate, BeingSaved

\* What a test finds that loads a file can be used, or the file has seen a mishap.
LEMMA ViewsAreSound ==
  ASSUME ConfigIInv, NEW p \in Paths, file[p] # NoFile, NEW view \in Views(p)
  PROVE  /\ view \in Configs
         /\ history[p] \subseteq {"stale"} /\ ~Torn(p, view) => Sound(view)
         /\ ~BeingSaved(p) => view = file[p]
<1>1. file[p] \in Configs
  BY DEF ConfigIInv, EditsHaveTypes
<1>2. view \in Configs
  BY <1>1, EmptyIsConfig DEF Views
<1>3. ~BeingSaved(p) => view = file[p]
  BY DEF Views
<1>4. history[p] \subseteq {"stale"} /\ ~Torn(p, view) => Sound(view)
  BY <1>3 DEF ConfigIInv, FileIsSound, Torn
<1> QED BY <1>2, <1>3, <1>4

LEMMA CopyKeeps ==
  ASSUME ConfigIInv, NEW t \in Editors, CopyHomeKubeConfigToTemp(t)
  PROVE  ConfigIInv'
<1>1. /\ editor[t] = "ready" /\ path[t] = Home
      /\ memory' = memory /\ edit' = edit /\ kept' = kept
  BY DEF CopyHomeKubeConfigToTemp
<1>2. CASE editor' = [editor EXCEPT ![t] = "failed"] /\ UNCHANGED <<file, path, history>>
  <2>1. \A u \in Editors : /\ editor'[u] = IF u = t THEN "failed" ELSE editor[u]
                           /\ editor'[u] = "saving" <=> editor[u] = "saving"
    BY <1>1, <1>2 DEF ConfigIInv, EditsHaveTypes
  <2>2. \A p : BeingSaved(p)' <=> BeingSaved(p)
    BY <1>2, <2>1 DEF BeingSaved
  <2>3. EditsHaveTypes' /\ EditIsGiven' /\ LockIsExclusive'
    BY <1>1, <1>2, <2>1 DEF ConfigIInv, EditsHaveTypes, EditIsGiven, LockIsExclusive
  <2>4. CopyIsPrivate' /\ MemoryIsSound'
    BY <1>1, <1>2, <2>1 DEF ConfigIInv, CopyIsPrivate, MemoryIsSound
  <2>5. FileIsSound' /\ KeptIsThere'
    BY <1>1, <1>2, <2>1, <2>2 DEF ConfigIInv, FileIsSound, KeptIsThere
  <2> QED BY <2>3, <2>4, <2>5 DEF ConfigIInv
<1>3. ASSUME NEW view \in Views(Home), NEW mishaps,
             mishaps = {m \in {"torn"} : Torn(Home, view) \/ history[Home] \intersect {"cut", "torn"} # {}},
             file' = [file EXCEPT ![t] = view], history' = [history EXCEPT ![t] = mishaps],
             path' = [path EXCEPT ![t] = t], UNCHANGED editor
      PROVE  ConfigIInv'
  <2>1. /\ view \in Configs /\ view # NoFile
        /\ history[Home] \subseteq {"stale"} /\ ~Torn(Home, view) => Sound(view)
    BY HomeIsApart, ViewsAreSound, KubeConfigAssumption DEF ConfigIInv, CopyIsPrivate
  <2>2. history[Home] \subseteq Mishaps /\ mishaps \subseteq {"torn"}
    BY <1>3, HomeIsApart DEF ConfigIInv, EditsHaveTypes
  <2>3. mishaps \subseteq {"stale"} => Sound(view)
    <3>1. ASSUME mishaps \subseteq {"stale"} PROVE ~Torn(Home, view) /\ history[Home] \intersect {"cut", "torn"} = {}
      BY <1>3, <3>1
    <3> QED BY <2>1, <2>2, <3>1 DEF Mishaps
  <2>4. /\ \A p \in Paths : /\ file'[p] = IF p = t THEN view ELSE file[p]
                            /\ history'[p] = IF p = t THEN mishaps ELSE history[p]
        /\ \A u \in Editors : path'[u] = IF u = t THEN t ELSE path[u]
    BY <1>3, HomeIsApart DEF ConfigIInv, EditsHaveTypes
  <2>5. \A p : BeingSaved(p)' <=> BeingSaved(p)
    BY <1>1, <1>3, <2>4 DEF BeingSaved
  <2>6. EditsHaveTypes'
    BY <1>1, <1>3, <2>1, <2>2, HomeIsApart DEF ConfigIInv, EditsHaveTypes, Mishaps
  <2>7. EditIsGiven' /\ LockIsExclusive'
    BY <1>1, <1>3, <2>4 DEF ConfigIInv, EditIsGiven, LockIsExclusive
  <2>8. CopyIsPrivate'
    <3>1. file'[Home] = file[Home] /\ file[Home] # NoFile
      BY <2>4, HomeIsApart DEF ConfigIInv, CopyIsPrivate
    <3>2. ASSUME NEW u \in Editors, u # t
          PROVE  /\ path'[u] = path[u] /\ file'[u] = file[u] /\ kept'[u] = kept[u]
                 /\ history'[u] = history[u] /\ editor'[u] = editor[u] /\ memory'[u] = memory[u]
      BY <1>1, <1>3, <2>4, <3>2, HomeIsApart
    <3>3. /\ path'[t] = t /\ file'[t] = view /\ history'[t] = mishaps /\ editor'[t] = "ready"
      BY <1>1, <1>3, <2>4, HomeIsApart
    <3>4. t # Home /\ "stale" \notin mishaps /\ view # NoFile
      BY <2>1, <2>2, HomeIsApart
    <3> QED BY <3>1, <3>2, <3>3, <3>4 DEF ConfigIInv, CopyIsPrivate
  <2>9. MemoryIsSound'
    <3>1. \A u \in Editors : u # t => path[u] # t /\ path[u] \in Paths
      BY HomeIsApart DEF ConfigIInv, CopyIsPrivate
    <3> QED BY <1>1, <1>3, <2>4, <3>1 DEF ConfigIInv, MemoryIsSound
  <2>10. FileIsSound'
    BY <2>3, <2>4, <2>5 DEF ConfigIInv, FileIsSound
  <2>11. KeptIsThere'
    <3>1. \A u \in Editors : u # t => path[u] # t /\ path[u] \in Paths
      BY HomeIsApart DEF ConfigIInv, CopyIsPrivate
    <3>2. kept[t] = {}
      BY <1>1 DEF ConfigIInv, CopyIsPrivate
    <3> QED BY <1>1, <1>3, <2>4, <2>5, <3>1, <3>2 DEF ConfigIInv, KeptIsThere
  <2> QED BY <2>6, <2>7, <2>8, <2>9, <2>10, <2>11 DEF ConfigIInv
<1> QED BY <1>2, <1>3 DEF CopyHomeKubeConfigToTemp

LEMMA LoadKeeps ==
  ASSUME ConfigIInv, NEW t \in Editors, NEW op \in {"add", "delete"},
         NEW name \in ContextNames, NEW user \in Users \union {"none"},
         op = "add" => user \in Users, Load(t, op, name, user)
  PROVE  ConfigIInv'
<1>1. PICK p \in Paths : p = path[t]
  BY DEF ConfigIInv, EditsHaveTypes
<1>2. /\ editor[t] = "ready" /\ editor' = [editor EXCEPT ![t] = "loaded"]
      /\ edit' = [edit EXCEPT ![t] = [op |-> op, name |-> name, user |-> user]]
      /\ file' = file /\ path' = path /\ kept' = kept
  BY DEF Load
<1>3. PICK view \in Views(path[t]) :
        /\ memory' = [memory EXCEPT ![t] = view]
        /\ history' = [history EXCEPT ![path[t]] = @ \union {m \in {"torn"} : Torn(path[t], view)}]
  BY DEF Load
<1>4. path[t] \in Paths /\ file[path[t]] # NoFile
  BY <1>1, <1>2 DEF ConfigIInv, CopyIsPrivate
<1>5. /\ view \in Configs
      /\ history[path[t]] \subseteq {"stale"} /\ ~Torn(path[t], view) => Sound(view)
      /\ ~BeingSaved(path[t]) => view = file[path[t]]
  BY <1>4, ViewsAreSound
<1>6. PICK mishaps : mishaps = history[path[t]] \union {m \in {"torn"} : Torn(path[t], view)}
  OBVIOUS
<1>7. /\ mishaps \subseteq Mishaps /\ history[p] \subseteq mishaps
      /\ "stale" \in mishaps => "stale" \in history[p]
      /\ mishaps \subseteq {"stale"} => Sound(view)
  <2>1. mishaps \subseteq {"stale"} => ~Torn(path[t], view) /\ history[path[t]] \subseteq {"stale"}
    BY <1>6
  <2> QED BY <1>1, <1>5, <1>6, <2>1 DEF ConfigIInv, EditsHaveTypes, Mishaps
<1>8. /\ \A u \in Editors :
           /\ editor'[u] = (IF u = t THEN "loaded" ELSE editor[u])
           /\ editor'[u] = "saving" <=> editor[u] = "saving"
           /\ memory'[u] = (IF u = t THEN view ELSE memory[u])
           /\ u # t => edit'[u] = edit[u]
      /\ edit'[t].op = op /\ edit'[t].name = name /\ edit'[t].user = user
      /\ \A q \in Paths : history'[q] = IF q = p THEN mishaps ELSE history[q]
  BY <1>1, <1>2, <1>3, <1>6 DEF ConfigIInv, EditsHaveTypes
<1>9. \A q : BeingSaved(q)' <=> BeingSaved(q)
  BY <1>2, <1>8 DEF BeingSaved
<1>10. EditsHaveTypes'
  <2>1. [op |-> op, name |-> name, user |-> user] \in Edits
    BY DEF Edits
  <2> QED BY <1>1, <1>2, <1>3, <1>5, <1>6, <1>7, <2>1 DEF ConfigIInv, EditsHaveTypes
<1>11. EditIsGiven' /\ LockIsExclusive'
  BY <1>2, <1>8 DEF ConfigIInv, EditIsGiven, LockIsExclusive
<1>12. CopyIsPrivate'
  <2>1. p = t => view = file[t]
    BY <1>1, <1>2, <1>5, CopyHasOneWriter
  <2> QED BY <1>1, <1>2, <1>7, <1>8, <2>1, HomeIsApart DEF ConfigIInv, CopyIsPrivate
<1>13. MemoryIsSound'
  <2>1. \A u \in Editors : path[u] \in Paths
    BY DEF ConfigIInv, EditsHaveTypes
  <2>2. \A q \in Paths : history[q] \subseteq history'[q]
    BY <1>7, <1>8
  <2> QED BY <1>1, <1>2, <1>7, <1>8, <2>1, <2>2 DEF ConfigIInv, MemoryIsSound
<1>14. FileIsSound'
  BY <1>2, <1>7, <1>8, <1>9 DEF ConfigIInv, FileIsSound
<1>15. KeptIsThere'
  <2>1. \A u \in Editors : path[u] \in Paths
    BY DEF ConfigIInv, EditsHaveTypes
  <2>2. \A q \in Paths : history[q] \subseteq history'[q]
    BY <1>7, <1>8
  <2> QED BY <1>2, <1>8, <1>9, <2>1, <2>2 DEF ConfigIInv, KeptIsThere
<1> QED BY <1>10, <1>11, <1>12, <1>13, <1>14, <1>15 DEF ConfigIInv

\* An edit that returns without writing leaves the invariant alone.
LEMMA ReturnKeeps ==
  ASSUME ConfigIInv, NEW t \in Editors, Return(t), UNCHANGED <<file, path, history>>,
         editor[t] = "loaded",
         kept' = kept \/ \E names : kept' = [kept EXCEPT ![path[t]] = @ \ names]
  PROVE  ConfigIInv'
<1>1. /\ editor' = [editor EXCEPT ![t] = "ready"]
      /\ memory' = [memory EXCEPT ![t] = HomeConfig]
      /\ edit' = [edit EXCEPT ![t] = NoEdit]
      /\ file' = file /\ path' = path /\ history' = history
  BY DEF Return
<1>2. NoEdit \in Edits
  BY DEF NoEdit, Edits
<1>3. kept' \in [Paths -> SUBSET ContextNames] /\ \A p \in Paths : kept'[p] \subseteq kept[p]
  BY DEF ConfigIInv, EditsHaveTypes
<1>4. \A u \in Editors : /\ editor'[u] = (IF u = t THEN "ready" ELSE editor[u])
                         /\ editor'[u] = "saving" <=> editor[u] = "saving"
                         /\ u # t => memory'[u] = memory[u] /\ edit'[u] = edit[u]
  BY <1>1 DEF ConfigIInv, EditsHaveTypes
<1>5. \A q : BeingSaved(q)' <=> BeingSaved(q)
  BY <1>1, <1>4 DEF BeingSaved
<1>6. EditsHaveTypes'
  BY <1>1, <1>2, <1>3, KubeConfigAssumption DEF ConfigIInv, EditsHaveTypes
<1>7. EditIsGiven' /\ LockIsExclusive' /\ MemoryIsSound'
  BY <1>1, <1>4 DEF ConfigIInv, EditIsGiven, LockIsExclusive, MemoryIsSound
<1>8. CopyIsPrivate'
  BY <1>1, <1>3, <1>4, HomeIsApart DEF ConfigIInv, CopyIsPrivate
<1>9. FileIsSound'
  BY <1>1, <1>5 DEF ConfigIInv, FileIsSound
<1>10. KeptIsThere'
  <2>1. \A u \in Editors : path[u] \in Paths
    BY DEF ConfigIInv, EditsHaveTypes
  <2> QED BY <1>1, <1>3, <1>4, <1>5, <2>1 DEF ConfigIInv, KeptIsThere
<1> QED BY <1>6, <1>7, <1>8, <1>9, <1>10 DEF ConfigIInv

\* A panic ends the saves that are under way half way.
LEMMA PanicKeeps ==
  ASSUME ConfigIInv, Panic
  PROVE  ConfigIInv'
<1>1. /\ editor' = [t \in Editors |-> "dead"] /\ memory' = [t \in Editors |-> HomeConfig]
      /\ edit' = [t \in Editors |-> NoEdit]
      /\ file' = file /\ path' = path /\ kept' = kept
  BY DEF Panic
<1>2. \A p \in Paths : /\ history[p] \subseteq history'[p] /\ history'[p] \subseteq history[p] \union {"cut"}
                       /\ BeingSaved(p) => "cut" \in history'[p]
  BY DEF Panic, ConfigIInv, EditsHaveTypes
<1>3. EditsHaveTypes'
  <2>1. NoEdit \in Edits
    BY DEF NoEdit, Edits
  <2>2. history' \in [Paths -> SUBSET Mishaps]
    <3>1. DOMAIN history = Paths
      BY DEF ConfigIInv, EditsHaveTypes
    <3>2. \A p \in Paths : history'[p] \subseteq Mishaps
      BY <1>2 DEF ConfigIInv, EditsHaveTypes, Mishaps
    <3> QED BY <3>1, <3>2 DEF Panic
  <2> QED BY <1>1, <2>1, <2>2, KubeConfigAssumption DEF ConfigIInv, EditsHaveTypes
<1>4. EditIsGiven' /\ LockIsExclusive' /\ MemoryIsSound'
  BY <1>1 DEF EditIsGiven, LockIsExclusive, MemoryIsSound
<1>5. CopyIsPrivate'
  BY <1>1, <1>2, HomeIsApart DEF ConfigIInv, CopyIsPrivate
<1>6. FileIsSound'
  BY <1>1, <1>2 DEF ConfigIInv, FileIsSound
<1>7. KeptIsThere'
  BY <1>1, <1>2 DEF ConfigIInv, KeptIsThere
<1> QED BY <1>3, <1>4, <1>5, <1>6, <1>7 DEF ConfigIInv

LEMMA LockKeeps ==
  ASSUME ConfigIInv, NEW t \in Editors, ModifyConfig(t)
  PROVE  ConfigIInv'
<1>1. PICK p \in Paths : p = path[t]
  BY DEF ConfigIInv, EditsHaveTypes
<1>2. /\ editor[t] = "loaded" /\ ~BeingSaved(p)
      /\ editor' = [editor EXCEPT ![t] = "saving"]
      /\ file' = file /\ path' = path /\ memory' = memory /\ edit' = edit /\ kept' = kept
      /\ history' = [history EXCEPT ![p] = @ \union {m \in {"stale"} : memory[t] # file[p]}]
  BY <1>1 DEF ModifyConfig
<1>3. PICK mishaps : mishaps = history[p] \union {m \in {"stale"} : memory[t] # file[p]}
  OBVIOUS
<1>4. /\ mishaps \subseteq Mishaps /\ history[p] \subseteq mishaps
      /\ mishaps \subseteq {"stale"} => history[p] \subseteq {"stale"}
      /\ "stale" \notin mishaps => memory[t] = file[p]
      /\ memory[t] = file[p] => mishaps = history[p]
  BY <1>3 DEF ConfigIInv, EditsHaveTypes, Mishaps
<1>5. /\ \A u \in Editors : editor'[u] = (IF u = t THEN "saving" ELSE editor[u])
      /\ \A q \in Paths : history'[q] = IF q = p THEN mishaps ELSE history[q]
  BY <1>2, <1>3 DEF ConfigIInv, EditsHaveTypes
<1>6. \A q : BeingSaved(q)' <=> BeingSaved(q) \/ q = p
  BY <1>1, <1>2, <1>5 DEF BeingSaved
<1>7. \A u \in Editors : path[u] \in Paths
  BY DEF ConfigIInv, EditsHaveTypes
<1>8. EditsHaveTypes'
  BY <1>2, <1>3, <1>4 DEF ConfigIInv, EditsHaveTypes
<1>9. EditIsGiven'
  <2>1. CanBeMade(memory[t], edit[t])
    BY <1>2 DEF ModifyConfig, CanBeMade, ConfigIInv, EditIsGiven
  <2> QED BY <1>2, <1>5, <2>1 DEF ConfigIInv, EditIsGiven
<1>10. LockIsExclusive'
  <2>1. \A u \in Editors : editor[u] = "saving" => path[u] # p
    BY <1>2 DEF BeingSaved
  <2> QED BY <1>1, <1>2, <1>5, <2>1 DEF ConfigIInv, LockIsExclusive
<1>11. CopyIsPrivate'
  <2>1. p = t => memory[t] = file[p]
    BY <1>1, <1>2 DEF ConfigIInv, CopyIsPrivate
  <2>2. \A u \in Editors : path[u] = u => u = p \/ history'[u] = history[u]
    BY <1>5, HomeIsApart
  <2>3. \A u \in Editors : path[u] = u /\ u = p => u = t
    BY <1>1, HomeIsApart DEF ConfigIInv, CopyIsPrivate
  <2>4. \A u \in Editors : path[u] = u => "stale" \notin history'[u]
    BY <1>4, <1>5, <2>1, <2>2, <2>3 DEF ConfigIInv, CopyIsPrivate
  <2> QED BY <1>2, <1>5, <2>4 DEF ConfigIInv, CopyIsPrivate
<1>12. MemoryIsSound'
  <2>1. \A q \in Paths : history'[q] \subseteq {"stale"} => history[q] \subseteq {"stale"}
    BY <1>4, <1>5
  <2> QED BY <1>2, <1>5, <1>7, <2>1 DEF ConfigIInv, MemoryIsSound
<1>13. FileIsSound'
  BY <1>2, <1>5, <1>6 DEF ConfigIInv, FileIsSound
<1>14. KeptIsThere'
  <2>1. \A q \in Paths : ~BeingSaved(q)' => ~BeingSaved(q) /\ history'[q] = history[q]
    BY <1>5, <1>6
  <2>2. \A q \in Paths : history[q] \subseteq history'[q]
    BY <1>4, <1>5
  <2>3. mishaps \subseteq {"torn"} => kept[p] \subseteq DOMAIN memory[t].contexts
    <3>1. file[p] # NoFile
      BY <1>1, <1>2 DEF ConfigIInv, CopyIsPrivate
    <3> QED BY <1>2, <1>4, <3>1 DEF ConfigIInv, KeptIsThere
  <2> QED BY <1>1, <1>2, <1>5, <1>7, <2>1, <2>2, <2>3 DEF ConfigIInv, KeptIsThere
<1> QED BY <1>8, <1>9, <1>10, <1>11, <1>12, <1>13, <1>14 DEF ConfigIInv

\* Nothing is said of a file while it is written, but that it is a config.
LEMMA WriteKeeps ==
  ASSUME ConfigIInv, NEW t \in Editors, Write(t)
  PROVE  ConfigIInv'
<1>1. PICK p \in Paths : p = path[t]
  BY DEF ConfigIInv, EditsHaveTypes
<1>2. /\ editor[t] = "saving" /\ path' = path /\ editor' = editor /\ memory' = memory
      /\ edit' = edit /\ kept' = kept /\ history' = history
  BY DEF Write
<1> DEFINE new == Edited(memory[t], edit[t])
           known == [new EXCEPT !.clusters = @ \intersect memory[t].clusters,
                                !.users = @ \intersect memory[t].users]
<1>3. file[p] \in Configs /\ new \in Configs
  BY <1>1, <1>2, EditedIsConfig DEF ConfigIInv, EditsHaveTypes, EditIsGiven, CopyIsPrivate
<1>4. known \in Configs
  <2> HIDE DEF new
  <2> DEFINE some == [new EXCEPT !.clusters = new.clusters \intersect memory[t].clusters]
  <2>1. /\ new.clusters \in SUBSET HomeConfig.clusters
        /\ new.users \in SUBSET (HomeConfig.users \union Users)
    BY <1>3, ConfigFields
  <2>2. some \in Configs
    BY <1>3, <2>1, FieldsCanChange
  <2>3. [some EXCEPT !.users = new.users \intersect memory[t].users] \in Configs
    <3> HIDE DEF some
    <3> QED BY <2>1, <2>2, FieldsCanChange
  <2>4. known = [some EXCEPT !.users = new.users \intersect memory[t].users]
    <3>1. new = [contexts |-> new.contexts, clusters |-> new.clusters,
                 users |-> new.users, current |-> new.current]
      BY <1>3, ConfigFields
    <3> QED BY <3>1
  <2> QED BY <2>3, <2>4
<1>5. PICK config \in Configs : file' = [file EXCEPT ![p] = config]
  <2> HIDE DEF new, known
  <2>1. PICK config \in IF HasNil(memory[t], edit[t]) THEN Sets(file[p], known)
                        ELSE IF Sets(file[p], new) # {} THEN Sets(file[p], new) ELSE Drops(file[p], new) :
          file' = [file EXCEPT ![p] = config]
    BY <1>1 DEF Write, new, known
  <2>2. /\ Sets(file[p], known) \subseteq Configs /\ Sets(file[p], new) \subseteq Configs
        /\ Drops(file[p], new) \subseteq Configs
    BY <1>3, <1>4, WritesAreConfigs
  <2>3. config \in Configs
    BY <2>1, <2>2
  <2> QED BY <2>1, <2>3
<1> HIDE DEF new, known
<1>6. /\ \A q \in Paths : file'[q] = IF q = p THEN config ELSE file[q]
      /\ config # NoFile
  BY <1>5, KubeConfigAssumption DEF ConfigIInv, EditsHaveTypes
<1>7. BeingSaved(p) /\ \A q : BeingSaved(q)' <=> BeingSaved(q)
  BY <1>1, <1>2 DEF BeingSaved
<1>8. EditsHaveTypes'
  BY <1>2, <1>5 DEF ConfigIInv, EditsHaveTypes
<1>9. EditIsGiven' /\ LockIsExclusive' /\ MemoryIsSound'
  BY <1>2 DEF ConfigIInv, EditIsGiven, LockIsExclusive, MemoryIsSound
<1>10. CopyIsPrivate'
  <2>1. \A u \in Editors : u # t => file'[u] = file[u]
    BY <1>1, <1>6, HomeIsApart DEF ConfigIInv, CopyIsPrivate
  <2>2. path[t] = Home => file'[t] = file[t]
    BY <1>1, <1>6, HomeIsApart
  <2> QED BY <1>2, <1>6, <2>1, <2>2, HomeIsApart DEF ConfigIInv, CopyIsPrivate
<1>11. FileIsSound'
  BY <1>2, <1>6, <1>7 DEF ConfigIInv, FileIsSound
<1>12. KeptIsThere'
  BY <1>2, <1>6, <1>7 DEF ConfigIInv, KeptIsThere
<1> QED BY <1>8, <1>9, <1>10, <1>11, <1>12 DEF ConfigIInv

\* What a save leaves, at its end or half way.
Leaves(t, p, config, names, mishaps) ==
  /\ editor[t] = "saving" /\ p = path[t] /\ Return(t) /\ path' = path
  /\ file' = [file EXCEPT ![p] = config]
  /\ kept' = [kept EXCEPT ![p] = names]
  /\ history' = [history EXCEPT ![p] = mishaps]
  /\ mishaps = history[p] \/ mishaps = history[p] \union {"cut"}
  /\ mishaps \subseteq {"stale"} => Sound(config)
  /\ mishaps \subseteq {"torn"} => names \subseteq DOMAIN config.contexts

LEMMA UnlockKeeps ==
  ASSUME ConfigIInv, NEW t \in Editors, NEW p \in Paths, NEW config \in Configs,
         NEW names \in SUBSET ContextNames, NEW mishaps \in SUBSET Mishaps,
         Leaves(t, p, config, names, mishaps)
  PROVE  ConfigIInv'
<1> USE DEF Leaves
<1>1. /\ editor' = [editor EXCEPT ![t] = "ready"]
      /\ memory' = [memory EXCEPT ![t] = HomeConfig]
      /\ edit' = [edit EXCEPT ![t] = NoEdit]
  BY DEF Return
<1>2. config # NoFile
  BY KubeConfigAssumption
<1>3. /\ \A u \in Editors : /\ editor'[u] = (IF u = t THEN "ready" ELSE editor[u])
                            /\ u # t => memory'[u] = memory[u] /\ edit'[u] = edit[u]
      /\ \A q \in Paths : /\ file'[q] = (IF q = p THEN config ELSE file[q])
                          /\ kept'[q] = (IF q = p THEN names ELSE kept[q])
                          /\ history'[q] = (IF q = p THEN mishaps ELSE history[q])
  BY <1>1 DEF ConfigIInv, EditsHaveTypes
<1>4. /\ \A u \in Editors : editor[u] = "saving" /\ path[u] = p => u = t
      /\ \A u \in Editors : path[u] \in Paths
  BY DEF ConfigIInv, LockIsExclusive, EditsHaveTypes
<1>5. \A q : q # p => (BeingSaved(q)' <=> BeingSaved(q))
  BY <1>3 DEF BeingSaved
<1>6. \A q \in Paths : history[q] \subseteq history'[q]
  BY <1>3
<1>7. EditsHaveTypes'
  <2>1. NoEdit \in Edits
    BY DEF NoEdit, Edits
  <2> QED BY <1>1, <2>1, KubeConfigAssumption DEF ConfigIInv, EditsHaveTypes
<1>8. EditIsGiven' /\ LockIsExclusive'
  BY <1>3 DEF ConfigIInv, EditIsGiven, LockIsExclusive
<1>9. CopyIsPrivate'
  <2>1. \A u \in Editors : u # t => file'[u] = file[u] /\ kept'[u] = kept[u] /\ history'[u] = history[u]
    BY <1>3, HomeIsApart DEF ConfigIInv, CopyIsPrivate
  <2>2. path[t] = Home => file'[t] = file[t] /\ kept'[t] = kept[t]
    BY <1>3, HomeIsApart
  <2>3. path[t] = t => "stale" \notin history'[t] /\ file'[t] # NoFile
    BY <1>2, <1>3, HomeIsApart DEF ConfigIInv, CopyIsPrivate
  <2>4. file'[Home] # NoFile
    BY <1>2, <1>3, HomeIsApart DEF ConfigIInv, CopyIsPrivate
  <2> QED BY <1>3, <2>1, <2>2, <2>3, <2>4, HomeIsApart DEF ConfigIInv, CopyIsPrivate
<1>10. MemoryIsSound'
  BY <1>3, <1>4, <1>6 DEF ConfigIInv, MemoryIsSound
<1>11. FileIsSound'
  BY <1>3, <1>5 DEF ConfigIInv, FileIsSound
<1>12. KeptIsThere'
  <2>1. \A u \in Editors : editor'[u] = "saving" => u # t /\ path[u] # p /\ editor[u] = "saving"
    BY <1>3, <1>4
  <2> QED BY <1>3, <1>4, <1>5, <2>1 DEF ConfigIInv, KeptIsThere
<1> QED BY <1>7, <1>8, <1>9, <1>10, <1>11, <1>12 DEF ConfigIInv

LEMMA SaveEndsWell ==
  ASSUME ConfigIInv, NEW t \in Editors, SaveEnds(t)
  PROVE  ConfigIInv'
<1>1. PICK p \in Paths : p = path[t]
  BY DEF ConfigIInv, EditsHaveTypes
<1>2. PICK config : config = Edited(memory[t], edit[t])
  OBVIOUS
<1>3. PICK names : names = IF edit[t].op = "delete" THEN kept[p] \ {edit[t].name} ELSE kept[p] \union {edit[t].name}
  OBVIOUS
<1>4. /\ editor[t] = "saving" /\ file[p] = config /\ Return(t)
      /\ path' = path /\ file' = file /\ history' = history
      /\ kept' = [kept EXCEPT ![p] = names]
  BY <1>1, <1>2, <1>3 DEF SaveEnds
<1>5. CanBeMade(memory[t], edit[t]) /\ edit[t].name \in ContextNames /\ memory[t] \in Configs
  BY <1>4 DEF ConfigIInv, EditIsGiven, EditsHaveTypes
<1>6. /\ config \in Configs
      /\ Sound(memory[t]) => Sound(config)
      /\ edit[t].op = "delete" => DOMAIN config.contexts = DOMAIN memory[t].contexts \ {edit[t].name}
      /\ edit[t].op # "delete" => DOMAIN config.contexts = DOMAIN memory[t].contexts \union {edit[t].name}
  BY <1>2, <1>5, EditedIsConfig
<1>7. names \in SUBSET ContextNames /\ history[p] \in SUBSET Mishaps
  BY <1>3, <1>5 DEF ConfigIInv, EditsHaveTypes
<1>8. history[p] \subseteq {"stale"} => Sound(config)
  BY <1>1, <1>4, <1>6 DEF ConfigIInv, MemoryIsSound
<1>9. history[p] \subseteq {"torn"} => names \subseteq DOMAIN config.contexts
  BY <1>1, <1>3, <1>4, <1>6 DEF ConfigIInv, KeptIsThere
<1>10. file' = [file EXCEPT ![p] = config] /\ history' = [history EXCEPT ![p] = history[p]]
  BY <1>4 DEF ConfigIInv, EditsHaveTypes
<1>11. Leaves(t, p, config, names, history[p])
  BY <1>1, <1>4, <1>8, <1>9, <1>10 DEF Leaves
<1> QED BY <1>6, <1>7, <1>11, UnlockKeeps

LEMMA CutKeeps ==
  ASSUME ConfigIInv, NEW t \in Editors, SaveIsCut(t)
  PROVE  ConfigIInv'
<1>1. PICK p \in Paths : p = path[t]
  BY DEF ConfigIInv, EditsHaveTypes
<1>2. PICK left \in {file[p], EmptyConfig} : file' = [file EXCEPT ![p] = left]
  BY <1>1 DEF SaveIsCut
<1>3. PICK mishaps : mishaps = history[p] \union {"cut"}
  OBVIOUS
<1>4. /\ editor[t] = "saving" /\ Return(t) /\ path' = path /\ kept' = kept
      /\ history' = [history EXCEPT ![p] = mishaps]
  BY <1>1, <1>3 DEF SaveIsCut
<1>5. left \in Configs
  <2>1. file[p] \in Configs
    BY <1>1, <1>4 DEF ConfigIInv, EditsHaveTypes, CopyIsPrivate
  <2> QED BY <2>1, EmptyIsConfig
<1>6. mishaps \in SUBSET Mishaps /\ ~(mishaps \subseteq {"stale"}) /\ ~(mishaps \subseteq {"torn"})
  BY <1>3 DEF ConfigIInv, EditsHaveTypes, Mishaps
<1>7. kept' = [kept EXCEPT ![p] = kept[p]] /\ kept[p] \in SUBSET ContextNames
  BY <1>4 DEF ConfigIInv, EditsHaveTypes
<1>8. Leaves(t, p, left, kept[p], mishaps)
  BY <1>1, <1>2, <1>3, <1>4, <1>6, <1>7 DEF Leaves
<1> QED BY <1>5, <1>6, <1>7, <1>8, UnlockKeeps

LEMMA RemoveKeeps ==
  ASSUME ConfigIInv, NEW t \in Editors, RemoveTempConfig(t)
  PROVE  ConfigIInv'
<1>1. /\ editor[t] = "ready" /\ editor' = [editor EXCEPT ![t] = "ended"]
      /\ file' = [file EXCEPT ![t] = NoFile]
      /\ path' = path /\ memory' = memory /\ edit' = edit /\ kept' = kept /\ history' = history
  BY DEF RemoveTempConfig
<1>2. /\ \A u \in Editors : /\ editor'[u] = (IF u = t THEN "ended" ELSE editor[u])
                            /\ editor'[u] = "saving" <=> editor[u] = "saving"
      /\ \A q \in Paths : file'[q] = IF q = t THEN NoFile ELSE file[q]
  BY <1>1, HomeIsApart DEF ConfigIInv, EditsHaveTypes
<1>3. \A q : BeingSaved(q)' <=> BeingSaved(q)
  BY <1>1, <1>2 DEF BeingSaved
<1>4. EditsHaveTypes'
  BY <1>1, HomeIsApart DEF ConfigIInv, EditsHaveTypes
<1>5. EditIsGiven' /\ LockIsExclusive' /\ MemoryIsSound'
  BY <1>1, <1>2 DEF ConfigIInv, EditIsGiven, LockIsExclusive, MemoryIsSound
<1>6. CopyIsPrivate'
  BY <1>1, <1>2, HomeIsApart DEF ConfigIInv, CopyIsPrivate
<1>7. FileIsSound'
  BY <1>1, <1>2, <1>3 DEF ConfigIInv, FileIsSound
<1>8. KeptIsThere'
  BY <1>1, <1>2, <1>3 DEF ConfigIInv, KeptIsThere
<1> QED BY <1>4, <1>5, <1>6, <1>7, <1>8 DEF ConfigIInv

\* The other edits and the tests that race for the home file change nothing in
\* what one test has of its own.
LEMMA ConfigStep == ConfigIInv /\ [KubeConfigNext]_kubeConfigVars => ConfigIInv'
<1> SUFFICES ASSUME ConfigIInv, [KubeConfigNext]_kubeConfigVars PROVE ConfigIInv'
  OBVIOUS
<1>1. ASSUME NEW t \in Editors, DeleteConfigContext(t) PROVE ConfigIInv'
  BY <1>1, LoadKeeps DEF DeleteConfigContext, ContextNames
<1>2. ASSUME NEW t \in Editors, AddConfigContextForServiceAccount(t) PROVE ConfigIInv'
  BY <1>2, LoadKeeps DEF AddConfigContextForServiceAccount, ContextNames
<1>3. ASSUME NEW t \in Editors, NothingToDelete(t) PROVE ConfigIInv'
  BY <1>3, ReturnKeeps DEF NothingToDelete
<1>4. ASSUME NEW t \in Editors, LastContext(t) \/ EditFails(t) PROVE ConfigIInv'
  BY <1>4, ReturnKeeps DEF LastContext, EditFails
<1>5. ASSUME NEW t \in Editors, NilIsLookedUp(t) PROVE ConfigIInv'
  BY <1>5, PanicKeeps DEF NilIsLookedUp
<1>6. CASE UNCHANGED kubeConfigVars
  <2>1. \A q : BeingSaved(q)' <=> BeingSaved(q)
    BY <1>6 DEF kubeConfigVars, BeingSaved
  <2>2. EditsHaveTypes' /\ EditIsGiven' /\ LockIsExclusive' /\ CopyIsPrivate' /\ MemoryIsSound'
    BY <1>6 DEF kubeConfigVars, ConfigIInv, EditsHaveTypes, EditIsGiven, LockIsExclusive,
                CopyIsPrivate, MemoryIsSound
  <2>3. FileIsSound' /\ KeptIsThere'
    BY <1>6, <2>1 DEF kubeConfigVars, ConfigIInv, FileIsSound, KeptIsThere
  <2> QED BY <2>2, <2>3 DEF ConfigIInv
<1> QED BY <1>1, <1>2, <1>3, <1>4, <1>5, <1>6, CopyKeeps, LockKeeps, WriteKeeps, SaveEndsWell,
           CutKeeps, RemoveKeeps DEF KubeConfigNext

-----------------------------------------------------------------------------
(* The waits. *)

\* The check of each wait tells exactly the readings its name promises.
LEMMA ChecksAreRight ==
  ASSUME NEW k \in Kinds, NEW w \in Readings(k)
  PROVE  Holds(k, w) <=> w \in WaitedFor(k)
<1>1. CASE k = "numPods"
  BY <1>1 DEF Holds, WaitedFor, IsNumPods
<1>2. CASE k = "pod"
  BY <1>2 DEF Holds, WaitedFor, IsPodAvailable
<1>3. CASE k = "service"
  <2>1. Holds(k, w) <=> ~(w.type = "LoadBalancer" /\ w.at = "none")
    BY <1>3 DEF Holds, IsServiceAvailable
  <2>2. w.type = "LoadBalancer" /\ w.at = "none" <=> w = [type |-> "LoadBalancer", at |-> "none"]
    BY <1>3 DEF Readings
  <2>3. w \in WaitedFor(k) <=> w # [type |-> "LoadBalancer", at |-> "none"]
    BY <1>3 DEF WaitedFor
  <2> QED BY <2>1, <2>2, <2>3
<1>4. CASE k = "ingress"
  BY <1>4 DEF Holds, WaitedFor, IsIngressAvailable
<1>5. CASE k = "nodes"
  <2>1. w \in [Nodes -> {"absent", "notReady", "ready"}]
    BY <1>5 DEF Readings
  <2>2. Holds(k, w) <=> (\E n \in Nodes : w[n] # "absent") /\ \A n \in Nodes : w[n] # "notReady"
    BY <1>5, <2>1 DEF Holds, AreAllNodesReady
  <2>3. w = [n \in Nodes |-> "absent"] <=> \A n \in Nodes : w[n] = "absent"
    BY <2>1
  <2>4. w \in [Nodes -> {"absent", "ready"}] <=> \A n \in Nodes : w[n] # "notReady"
    BY <2>1
  <2>5. w \in WaitedFor(k) <=>
          w \in [Nodes -> {"absent", "ready"}] /\ w # [n \in Nodes |-> "absent"]
    BY <1>5 DEF WaitedFor
  <2> QED BY <2>2, <2>3, <2>4, <2>5
<1>6. CASE k = "token"
  BY <1>6 DEF Holds, WaitedFor, HasSecret, Readings
<1>7. CASE k = "capacity"
  <2>1. w \in [current : 0 .. 2, desired : 0 .. 2]
    BY <1>7 DEF Readings
  <2>2. Holds(k, w) <=> w.current = w.desired
    BY <1>7 DEF Holds, CapacityIsMet
  <2>3. w \in WaitedFor(k) <=> \E n \in 0 .. 2 : w = [current |-> n, desired |-> n]
    BY <1>7 DEF WaitedFor
  <2>4. w = [current |-> w.current, desired |-> w.desired] /\ w.current \in 0 .. 2
    BY <2>1
  <2> QED BY <2>2, <2>3, <2>4
<1>8. CASE k = "syslog"
  BY <1>8 DEF Holds, WaitedFor, HasSyslog
<1>9. CASE k \in {"get", "do"}
  <2>1. w \in [status : {"expected", "other"}, body : {"expected", "other"}]
    BY <1>9 DEF Readings
  <2>2. CASE k = "get"
    <3>1. w \in WaitedFor(k) <=> w = [status |-> "expected", body |-> "expected"]
      BY <2>2 DEF WaitedFor
    <3> QED BY <2>1, <2>2, <3>1 DEF Holds, IsExpectedResponse
  <2>3. CASE k = "do"
    <3>1. w \in WaitedFor(k) <=> w \in [status : {"expected"}, body : {"expected", "other"}]
      BY <2>3 DEF WaitedFor
    <3> QED BY <2>1, <2>3, <3>1 DEF Holds, IsExpectedStatus
  <2> QED BY <1>9, <2>2, <2>3
<1> QED BY <1>1, <1>2, <1>3, <1>4, <1>5, <1>6, <1>7, <1>8, <1>9 DEF Kinds

\* A reading that was waited for.
Good(s) == s \in {<<w>> : w \in WaitedFor(kind)}

\* A failed attempt is the one of a check that read something else, or nothing;
\* nothing is tried after a success, nor beyond the budget.
ChecksAreReadings ==
  /\ call.mode = "plain"
  /\ \A i \in DOMAIN tried :
       /\ tried[i].err = NoError <=> Good(seen[i])
       /\ tried[i].err # NoError => ~tried[i].err.fatal
       /\ tried[i].err = NoError => i = Len(tried)
  /\ tried = <<>> \/ Len(tried) <= call.max + 1

\* What the world is while the answer to the last check still holds, and what
\* it was when the caller read it again.
SecondReading ==
  /\ settled => Holds(kind, world)
  /\ outcome \in {"error", "noHost"} =>
       \/ kind = "service" /\ GetServiceEndpoint(world) = outcome
       \/ kind = "token" /\ GetServiceAccountAuthToken(world) = outcome

WaitsIInv == WaitsTypeOK /\ ChecksAreReadings /\ WaitIsHonest /\ SecondReading

LEMMA CheckResultType ==
  ASSUME NEW ok \in BOOLEAN
  PROVE  /\ CheckResult(ok) \in Results
         /\ CheckResult(ok).err = NoError <=> ok
         /\ CheckResult(ok).err # NoError => ~CheckResult(ok).err.fatal
<1>1. [fatal |-> FALSE, text |-> NotYet] \in Errors /\ Done \in Texts /\ EmptyText \in Texts
  BY WaitsAssumption, RetryAssumption DEF Errors
<1>2. [fatal |-> FALSE, text |-> NotYet] # NoError
  BY <1>1, RetryAssumption
<1> QED BY <1>1, <1>2 DEF CheckResult, Results

LEMMA WaitsStep == WaitsIInv /\ [WaitsNext]_waitVars => WaitsIInv'
<1> SUFFICES ASSUME WaitsIInv, [WaitsNext]_waitVars PROVE WaitsIInv'
  OBVIOUS
<1> DEFINE Readouts == {<<>>} \union {<<w>> : w \in Readings(kind)}
<1>0. /\ tried \in Seq(Results) /\ Len(tried) \in Nat /\ Len(seen) = Len(tried)
      /\ seen \in Seq(Readouts)
      /\ kind \in Kinds /\ world \in Readings(kind) /\ call.mode = "plain" /\ call.max \in Int
  <2>1. call \in Calls
    BY DEF WaitsIInv, WaitsTypeOK
  <2>2. call.max \in Int
    BY <2>1, RetryAssumption DEF Calls
  <2>3. tried \in Seq(Results) /\ Len(seen) = Len(tried) /\ seen \in Seq(Readouts)
    BY DEF WaitsIInv, WaitsTypeOK
  <2> QED BY <2>2, <2>3 DEF WaitsIInv, WaitsTypeOK, ChecksAreReadings
<1>1. CASE WorldChanges
  <2>1. /\ UNCHANGED <<call, tried, answer, kind, seen, outcome>>
        /\ outcome = "none" /\ world' \in Readings(kind) /\ settled' = FALSE
    BY <1>1 DEF WorldChanges
  <2>2. WaitsTypeOK' /\ ChecksAreReadings'
    BY <2>1 DEF WaitsIInv, WaitsTypeOK, ChecksAreReadings, Good
  <2>3. WaitIsHonest' /\ SecondReading'
    BY <2>1 DEF WaitsIInv, WaitIsHonest, SecondReading
  <2> QED BY <2>2, <2>3 DEF WaitsIInv
<1>2. CASE Check
  <2>1. /\ answer = NoAnswer /\ Len(tried) <= call.max /\ ~Concluded
        /\ UNCHANGED <<call, answer, kind, world, outcome>> /\ outcome = "none"
    BY <1>2 DEF Check, TryOnce
  <2>2. PICK ok \in BOOLEAN, s \in {<<>>, <<world>>} :
          /\ tried' = Append(tried, CheckResult(ok)) /\ seen' = Append(seen, s)
          /\ settled' = ok
          /\ \/ ok = Holds(kind, world) /\ s = <<world>>
             \/ ok = FALSE /\ s = <<>>
    <3>1. Holds(kind, world) \in BOOLEAN
      BY DEF Holds, IsNumPods, IsPodAvailable, IsServiceAvailable, IsIngressAvailable,
             AreAllNodesReady, HasSecret, CapacityIsMet, HasSyslog, IsExpectedResponse,
             IsExpectedStatus, WaitsIInv, WaitsTypeOK, Kinds
    <3>2. CASE /\ tried' = Append(tried, CheckResult(Holds(kind, world)))
               /\ seen' = Append(seen, <<world>>)
               /\ settled' = Holds(kind, world)
      BY <3>1, <3>2
    <3>3. CASE /\ tried' = Append(tried, CheckResult(FALSE))
               /\ seen' = Append(seen, <<>>)
               /\ settled' = FALSE
      BY <3>3
    <3> QED BY <1>2, <3>2, <3>3 DEF Check
  <2>3. ok <=> Good(s)
    <3>1. <<>> \notin {<<w>> : w \in WaitedFor(kind)}
      OBVIOUS
    <3>2. <<world>> \in {<<w>> : w \in WaitedFor(kind)} <=> world \in WaitedFor(kind)
      OBVIOUS
    <3>3. Holds(kind, world) <=> world \in WaitedFor(kind)
      BY <1>0, ChecksAreRight
    <3> QED BY <2>2, <3>1, <3>2, <3>3 DEF Good
  <2>4. \A i \in DOMAIN tried : tried[i].err # NoError
    BY <2>1 DEF Concluded, Conclusive
  <2>5. /\ tried' \in Seq(Results) /\ Len(tried') = Len(tried) + 1
        /\ DOMAIN tried' = (DOMAIN tried) \union {Len(tried) + 1}
        /\ \A i \in DOMAIN tried : tried'[i] = tried[i]
        /\ tried'[Len(tried) + 1] = CheckResult(ok)
    <3> DEFINE r == CheckResult(ok)
    <3>1. r \in Results
      BY CheckResultType
    <3> HIDE DEF r
    <3>2. tried' = Append(tried, r)
      BY <2>2 DEF r
    <3> QED BY <1>0, <3>1, <3>2 DEF r
  <2>6. /\ seen' \in Seq(Readouts) /\ Len(seen') = Len(seen) + 1
        /\ \A i \in 1 .. Len(seen) : seen'[i] = seen[i]
        /\ seen'[Len(seen) + 1] = s
    <3>1. s \in Readouts
      BY <1>0, <2>2
    <3> HIDE DEF Readouts
    <3> QED BY <1>0, <2>2, <3>1
  <2>7. WaitsTypeOK'
    BY <1>0, <2>1, <2>2, <2>5, <2>6 DEF WaitsIInv, WaitsTypeOK
  <2>8. ASSUME NEW i \in DOMAIN tried'
        PROVE  /\ tried'[i].err = NoError <=> Good(seen'[i])
               /\ tried'[i].err # NoError => ~tried'[i].err.fatal
               /\ tried'[i].err = NoError => i = Len(tried')
    <3>1. CASE i \in DOMAIN tried
      <4>1. tried'[i] = tried[i] /\ seen'[i] = seen[i]
        BY <1>0, <2>5, <2>6, <3>1
      <4>2. tried[i].err = NoError <=> Good(seen[i])
        BY <3>1 DEF WaitsIInv, ChecksAreReadings
      <4>3. tried[i].err # NoError /\ ~tried[i].err.fatal
        BY <2>4, <3>1 DEF WaitsIInv, ChecksAreReadings
      <4> QED BY <4>1, <4>2, <4>3
    <3>2. CASE i = Len(tried) + 1
      <4>1. tried'[i] = CheckResult(ok) /\ seen'[i] = s /\ i = Len(tried')
        BY <1>0, <2>5, <2>6, <3>2
      <4> QED BY <2>3, <4>1, CheckResultType
    <3> QED BY <2>5, <3>1, <3>2
  <2>9. Len(tried') <= call.max + 1
    BY <1>0, <2>1, <2>5
  <2>10. ChecksAreReadings'
    BY <1>0, <2>1, <2>8, <2>9 DEF ChecksAreReadings, Good
  <2>11. WaitIsHonest'
    BY <2>1 DEF WaitIsHonest
  <2>12. SecondReading'
    BY <2>1, <2>2 DEF SecondReading
  <2> QED BY <2>7, <2>10, <2>11, <2>12 DEF WaitsIInv
<1>3. CASE EndTest
  <2>1. /\ outcome' = "testEnded"
        /\ UNCHANGED <<call, tried, answer, kind, world, seen, settled>>
    BY <1>3 DEF EndTest
  <2>2. WaitsTypeOK' /\ ChecksAreReadings'
    BY <2>1 DEF WaitsIInv, WaitsTypeOK, ChecksAreReadings, Good
  <2>3. WaitIsHonest' /\ SecondReading'
    BY <2>1 DEF WaitsIInv, WaitIsHonest, SecondReading
  <2> QED BY <2>2, <2>3 DEF WaitsIInv
<1>4. CASE AnswerWait
  <2>1. /\ UNCHANGED <<call, tried, kind, world, seen, settled, outcome>> /\ answer = NoAnswer
    BY <1>4 DEF AnswerWait, Conclude, Exhaust
  <2>2. \A i \in DOMAIN tried :
          /\ tried[i].err = NoError <=> Good(seen[i])
          /\ tried[i].err # NoError => ~tried[i].err.fatal
          /\ tried[i].err = NoError => i = Len(tried)
    BY DEF WaitsIInv, ChecksAreReadings
  <2>3. DOMAIN seen = DOMAIN tried /\ DOMAIN tried = 1 .. Len(tried)
    BY <1>0
  <2>4. \A i \in DOMAIN seen : Good(seen[i]) => i = Len(seen)
    BY <1>0, <2>2, <2>3
  <2>5. /\ answer' \in Answers
        /\ answer'.err = NoError <=> seen # <<>> /\ Good(seen[Len(seen)])
        /\ answer'.err # NoError => Len(seen) = call.max + 1 \/ (seen = <<>> /\ call.max < 0)
    <3>1. CASE Conclude
      <4> DEFINE last == tried[Len(tried)]
      <4>1. tried # <<>> /\ Conclusive(last) /\ answer' = AnswerTo(last)
        BY <3>1 DEF Conclude
      <4>2. Len(tried) \in DOMAIN tried /\ last \in Results
        BY <1>0, <4>1
      <4>3. last.err = NoError
        BY <1>0, <2>2, <4>1, <4>2 DEF Conclusive
      <4>4. Good(seen[Len(seen)]) /\ seen # <<>>
        BY <1>0, <2>2, <4>1, <4>2, <4>3
      <4> HIDE DEF last
      <4>5. answer' = [out |-> last.out, err |-> NoError]
        BY <4>1, <4>3 DEF AnswerTo
      <4>6. answer' \in Answers
        BY <4>2, <4>5 DEF Answers, Results
      <4> QED BY <4>4, <4>5, <4>6
    <3>2. CASE Exhaust
      <4>1. /\ Len(tried) > call.max /\ ~Concluded
            /\ answer' = [out |-> LastOutput, err |-> Exceeded]
        BY <3>2 DEF Exhaust
      <4>2. \A i \in DOMAIN tried : tried[i].err # NoError
        BY <4>1 DEF Concluded, Conclusive
      <4>3. LastOutput \in Texts
        <5>1. CASE tried = <<>>
          BY <5>1, RetryAssumption DEF LastOutput
        <5>2. CASE tried # <<>>
          <6>1. tried[Len(tried)] \in Results
            BY <1>0, <5>2
          <6> QED BY <5>2, <6>1 DEF LastOutput, Results
        <5> QED BY <5>1, <5>2
      <4>4. answer' \in Answers /\ answer'.err # NoError
        BY <4>1, <4>3, RetryAssumption DEF Answers
      <4>5. seen # <<>> => ~Good(seen[Len(seen)])
        BY <1>0, <2>2, <2>3, <4>2
      <4>6. Len(seen) = call.max + 1 \/ (seen = <<>> /\ call.max < 0)
        <5>1. tried = <<>> \/ Len(tried) <= call.max + 1
          BY DEF WaitsIInv, ChecksAreReadings
        <5> QED BY <1>0, <4>1, <5>1
      <4> QED BY <4>4, <4>5, <4>6
    <3> QED BY <1>4, <3>1, <3>2 DEF AnswerWait
  <2>6. WaitsTypeOK' /\ ChecksAreReadings'
    BY <2>1, <2>5 DEF WaitsIInv, WaitsTypeOK, ChecksAreReadings, Good
  <2>7. WaitIsHonest'
    BY <2>1, <2>4, <2>5 DEF WaitIsHonest, Good
  <2>8. SecondReading'
    BY <2>1 DEF WaitsIInv, SecondReading
  <2> QED BY <2>6, <2>7, <2>8 DEF WaitsIInv
<1>5. CASE ReadAgain
  <2>1. /\ kind \in {"token", "service"}
        /\ UNCHANGED <<call, tried, answer, kind, world, seen, settled>>
        /\ outcome' \in {"requestFailed",
                         IF kind = "token" THEN GetServiceAccountAuthToken(world)
                                           ELSE GetServiceEndpoint(world)}
    BY <1>5 DEF ReadAgain
  <2>2. WaitsTypeOK' /\ ChecksAreReadings'
    BY <2>1 DEF WaitsIInv, WaitsTypeOK, ChecksAreReadings, Good
  <2>3. WaitIsHonest'
    BY <2>1 DEF WaitsIInv, WaitIsHonest
  <2>4. SecondReading'
    BY <2>1 DEF WaitsIInv, SecondReading
  <2> QED BY <2>2, <2>3, <2>4 DEF WaitsIInv
<1>6. CASE UNCHANGED waitVars
  <2>1. WaitsTypeOK' /\ ChecksAreReadings'
    BY <1>6 DEF waitVars, WaitsIInv, WaitsTypeOK, ChecksAreReadings, Good
  <2>2. WaitIsHonest' /\ SecondReading'
    BY <1>6 DEF waitVars, WaitsIInv, WaitIsHonest, SecondReading
  <2> QED BY <2>1, <2>2 DEF WaitsIInv
<1> QED BY <1>1, <1>2, <1>3, <1>4, <1>5, <1>6 DEF WaitsNext

LEMMA InitWaits == WaitsInit => WaitsIInv
<1> SUFFICES ASSUME WaitsInit PROVE WaitsIInv
  OBVIOUS
<1>1. /\ kind \in Kinds /\ world \in Readings(kind) /\ call \in Calls /\ call.mode = "plain"
      /\ tried = <<>> /\ seen = <<>> /\ answer = NoAnswer /\ settled = FALSE /\ outcome = "none"
  BY DEF WaitsInit, ContractInit
<1>2. WaitsTypeOK
  <2>1. tried \in Seq(Results) /\ Len(tried) = 0 /\ Len(seen) = 0
    BY <1>1
  <2>2. \A S : <<>> \in Seq(S)
    OBVIOUS
  <2>3. seen \in Seq({<<>>} \union {<<w>> : w \in Readings(kind)})
    BY <1>1, <2>2
  <2> QED BY <1>1, <2>1, <2>3 DEF WaitsTypeOK
<1>3. ChecksAreReadings
  BY <1>1 DEF ChecksAreReadings
<1>4. WaitIsHonest /\ SecondReading
  BY <1>1 DEF WaitIsHonest, SecondReading
<1> QED BY <1>2, <1>3, <1>4 DEF WaitsIInv

-----------------------------------------------------------------------------
(* Kube *)

KubeIInv == ConfigIInv /\ WaitsIInv

\* Edits and waits leave each other's state alone.
LEMMA KubeStepIsOnePart ==
  [KubeNext]_<<part, kubeConfigVars, waitVars>> =>
    [KubeConfigNext]_kubeConfigVars /\ [WaitsNext]_waitVars
BY DEF KubeNext

LEMMA KubeInvariant == KubeSpec => []KubeIInv
<1>1. KubeInit => KubeIInv
  BY InitConfig, InitWaits DEF KubeInit, KubeIInv
<1>2. KubeIInv /\ [KubeNext]_<<part, kubeConfigVars, waitVars>> => KubeIInv'
  BY KubeStepIsOnePart, ConfigStep, WaitsStep DEF KubeIInv
<1> QED BY <1>1, <1>2, PTL DEF KubeSpec

\* Every file is a config of contexts, clusters and users somebody named, and
\* every wait makes attempts that DoWithRetryE may make.
THEOREM KubeTypeCorrect == KubeSpec => []KubeTypeOK
<1>1. KubeIInv => KubeTypeOK
  <2> SUFFICES ASSUME KubeIInv PROVE KubeTypeOK
    OBVIOUS
  <2>1. KubeConfigTypeOK
    BY DEF KubeIInv, ConfigIInv, EditsHaveTypes, KubeConfigTypeOK, ContextNames, Paths
  <2> QED BY <2>1 DEF KubeIInv, WaitsIInv, KubeTypeOK
<1> QED BY <1>1, KubeInvariant, PTL

\* Edits that overlap in any way, of any number of tests, leave a kubeconfig file
\* that can be used, if it could be at first, and none of them panics: it takes a
\* save that ends half way or a load amid a save (DeleteConfigContextWithPathE,
\* AddConfigContextForServiceAccountE and what ModifyConfig writes for them).
THEOREM ConfigsStaySound == KubeSpec => []ConfigIsSound
<1>1. KubeIInv => ConfigIsSound
  <2> SUFFICES ASSUME KubeIInv PROVE ConfigIsSound
    OBVIOUS
  <2>1. DOMAIN file = Paths
    BY DEF KubeIInv, ConfigIInv, EditsHaveTypes
  <2>2. ASSUME NEW t \in Editors, ComesOnNil(t), history[path[t]] \subseteq {"stale"} PROVE FALSE
    <3>1. editor[t] \in {"loaded", "saving"}
      BY <2>2 DEF ComesOnNil
    <3>2. Sound(memory[t]) /\ memory[t] \in Configs
      BY <2>2, <3>1 DEF KubeIInv, ConfigIInv, MemoryIsSound, EditsHaveTypes
    <3>3. editor[t] = "saving" => ~HasNil(memory[t], edit[t])
      BY <3>2, EditedIsConfig DEF KubeIInv, ConfigIInv, EditIsGiven
    <3> QED BY <2>2, <3>2, <3>3 DEF ComesOnNil, Sound
  <2> QED BY <2>1, <2>2 DEF KubeIInv, ConfigIInv, FileIsSound, ConfigIsSound
<1> QED BY <1>1, KubeInvariant, PTL

\* A context that was added is lost only to a save of what was loaded before
\* another one, or to one that ends half way; to a test that works on a copy of
\* its own only the latter can happen, and no test leaves its copy behind
\* (CopyHomeKubeConfigToTempE).
THEOREM CopiesArePrivate == KubeSpec => []OwnEditsLast
<1>1. KubeIInv => OwnEditsLast
  <2> SUFFICES ASSUME KubeIInv PROVE OwnEditsLast
    OBVIOUS
  <2>1. DOMAIN file = Paths
    BY DEF KubeIInv, ConfigIInv, EditsHaveTypes
  <2>2. \A t \in Editors : editor[t] \in {"failed", "ended"} => file[t] = NoFile
    BY DEF KubeIInv, ConfigIInv, CopyIsPrivate
  <2> QED BY <2>1, <2>2 DEF KubeIInv, ConfigIInv, CopyIsPrivate, KeptIsThere, OwnEditsLast
<1> QED BY <1>1, KubeInvariant, PTL

\* A wait succeeds exactly when its last reading is what its name promises, and
\* gives up only when its budget is used up (WaitUntil... of modules/k8s, and
\* the other callers of DoWithRetryE that poll).
THEOREM WaitsAreHonest == KubeSpec => []WaitIsHonest
<1>1. KubeIInv => WaitIsHonest
  BY DEF KubeIInv, WaitsIInv
<1> QED BY <1>1, KubeInvariant, PTL

\* What was waited for can be used by the call that reads the world once more
\* (GetServiceEndpointE, GetServiceAccountAuthTokenE), with the exceptions that
\* SecondReadingFinds names.
THEOREM SecondReadingsFind == KubeSpec => []SecondReadingFinds
<1>1. KubeIInv => SecondReadingFinds
  <2> SUFFICES ASSUME KubeIInv, settled, outcome \in {"error", "noHost"}
               PROVE  /\ outcome = "error" =>
                           \/ /\ kind = "service"
                              /\ world.type = "ExternalName" \/ world = [type |-> "NodePort", at |-> "none"]
                           \/ kind = "token" /\ world > 1
                      /\ outcome = "noHost" =>
                           kind = "service" /\ world \in {[type |-> "NodePort", at |-> "awsPrivate"],
                                                         [type |-> "LoadBalancer", at |-> "ip"]}
    BY DEF SecondReadingFinds
  <2>1. world \in Readings(kind) /\ Holds(kind, world)
    BY DEF KubeIInv, WaitsIInv, WaitsTypeOK, SecondReading
  <2>2. CASE kind = "service" /\ GetServiceEndpoint(world) = outcome
    <3>1. world \in [type : {"ClusterIP", "ExternalName"}, at : {"cluster"}]
                      \union [type : {"LoadBalancer"}, at : {"none", "hostname", "ip"}]
                      \union [type : {"NodePort"}, at : {"none", "aws", "awsPrivate", "awsUnlisted", "other"}]
      BY <2>1, <2>2 DEF Readings
    <3>2. world.type = "LoadBalancer" => world.at # "none"
      BY <2>1, <2>2 DEF Holds, IsServiceAvailable
    <3>3. CASE world.type \in {"ClusterIP", "ExternalName"}
      BY <2>2, <3>1, <3>3 DEF GetServiceEndpoint
    <3>4. CASE world.type = "LoadBalancer"
      <4>1. world.at = "ip" /\ outcome = "noHost"
        BY <2>2, <3>1, <3>2, <3>4 DEF GetServiceEndpoint
      <4>2. world = [type |-> "LoadBalancer", at |-> "ip"]
        BY <3>1, <3>4, <4>1
      <4> QED BY <2>2, <4>1, <4>2
    <3>5. CASE world.type = "NodePort"
      <4>1. world.at \in {"none", "awsPrivate"} /\ world = [type |-> "NodePort", at |-> world.at]
        BY <2>2, <3>1, <3>5 DEF GetServiceEndpoint
      <4>2. outcome = IF world.at = "none" THEN "error" ELSE "noHost"
        BY <2>2, <3>5, <4>1 DEF GetServiceEndpoint
      <4> QED BY <2>2, <4>1, <4>2
    <3> QED BY <3>1, <3>3, <3>4, <3>5
  <2>3. CASE kind = "token" /\ GetServiceAccountAuthToken(world) = outcome
    <3>1. outcome = "error" /\ world \in 0 .. 2 /\ world # 0 /\ world # 1
      BY <2>1, <2>3 DEF Readings, Holds, HasSecret, GetServiceAccountAuthToken
    <3> QED BY <2>3, <3>1
  <2> QED BY <2>2, <2>3 DEF KubeIInv, WaitsIInv, SecondReading
<1> QED BY <1>1, KubeInvariant, PTL

\* Whatever it waits for, a wait is a call of DoWithRetryE and nothing more: it
\* implements the contract of retry.
THEOREM WaitsKeepTheContract == KubeSpec => ContractSafety
<1>1. KubeInit => ContractInit
  BY DEF KubeInit, WaitsInit
<1>2. [KubeNext]_<<part, kubeConfigVars, waitVars>> => [ContractNext]_contractVars
  <2> SUFFICES ASSUME [WaitsNext]_waitVars PROVE [ContractNext]_contractVars
    BY KubeStepIsOnePart
  <2>1. CASE Check
    <3>1. TryOnce
      BY <2>1 DEF Check
    <3> QED BY <3>1 DEF ContractNext
  <2>2. CASE AnswerWait
    BY <2>2 DEF AnswerWait, ContractNext
  <2>3. CASE WorldChanges \/ EndTest \/ ReadAgain \/ UNCHANGED waitVars
    BY <2>3 DEF WorldChanges, EndTest, ReadAgain, waitVars, contractVars
  <2> QED BY <2>1, <2>2, <2>3 DEF WaitsNext
<1> QED BY <1>1, <1>2, PTL DEF KubeSpec, ContractSafety

-----------------------------------------------------------------------------
(* The tunnels. *)


\* Where the forwarder can be while the call is somewhere.
PhaseInv ==
  \A t \in Tunnels :
    /\ pc[t] = "new" => calls[t] = 0
    /\ calls[t] = 0 => pc[t] = "new" /\ localPort[t] = Requested[t]
    /\ calls[t] = 1 /\ pc[t] \in {"attaching", "choosing"} => localPort[t] = Requested[t]
    /\ pc[t] = "choosing" => localPort[t] = 0
    /\ pc[t] \in {"probing", "locking", "starting", "waiting", "open"} => localPort[t] # 0
    /\ pc[t] = "waiting" => fwd[t] \notin {"none", "gone"}
    /\ pc[t] = "open" => fwd[t] \notin {"none", "dialing", "listening"} /\ ready[t]
    /\ pc[t] \notin {"waiting", "open"} => fwd[t] \in {"none", "gone"}

\* A forwarder is ready once it has served, and reports no error only then.
ReadyInv ==
  \A t \in Tunnels :
    /\ fwd[t] = "serving" => ready[t]
    /\ fwd[t] = "reporting" /\ ~fwdFailed[t] => ready[t]
    /\ ready[t] => fwd[t] \in {"serving", "reporting", "gone"}
    /\ pc[t] \in {"new", "attaching", "choosing", "probing", "locking", "starting"} => ~ready[t]

\* A port a tunnel listens on is the one it chose, and it listens on it to
\* probe or to serve.
PortInv ==
  /\ \A t \in Tunnels : fwd[t] = "serving" => localPort[t] \in Ports /\ owner[localPort[t]] = t
  /\ \A t \in Tunnels : pc[t] = "probing" => owner[localPort[t]] = t
  /\ \A t \in Tunnels, p \in Ports :
       owner[p] = t => localPort[t] = p /\ (pc[t] = "probing" \/ fwd[t] = "serving")

TunnelIInv == TypeOK /\ PhaseInv /\ ReadyInv /\ PortInv /\ LockDiscipline

-----------------------------------------------------------------------------

LEMMA InitTunnel == Init => TunnelIInv
  BY TunnelAssumption
     DEF Init, TunnelIInv, TypeOK, PhaseInv, ReadyInv, PortInv, LockDiscipline

LEMMA TunnelTypes == TypeOK /\ [Next]_vars => TypeOK'
  <1> SUFFICES ASSUME TypeOK, [Next]_vars PROVE TypeOK'
    OBVIOUS
  <1> USE TunnelAssumption DEF TypeOK, callVars, fwdVars, worldVars
  <1>1. ASSUME NEW t \in Tunnels, Begin(t) PROVE TypeOK'
    BY <1>1 DEF Begin, Goto
  <1>2. ASSUME NEW t \in Tunnels, Attach(t) PROVE TypeOK'
    <2>1. Attachable(t) \subseteq Pods
      BY DEF Attachable
    <2> QED
      BY <1>2, <2>1 DEF Attach, Goto, ReturnError, Unlock
  <1>3. ASSUME NEW t \in Tunnels, Probe(t) PROVE TypeOK'
    BY <1>3 DEF Probe, Goto, ReturnError, Unlock
  <1>4. ASSUME NEW t \in Tunnels, EndProbe(t) PROVE TypeOK'
    BY <1>4 DEF EndProbe, Goto
  <1>5. ASSUME NEW t \in Tunnels, Lock(t) PROVE TypeOK'
    BY <1>5 DEF Lock, Goto
  <1>6. ASSUME NEW t \in Tunnels, StartForwarder(t) PROVE TypeOK'
    <2>1. CASE ReturnError(t) /\ UNCHANGED <<fwd, fwdFailed>>
      BY <1>6, <2>1 DEF StartForwarder, Goto, ReturnError, Unlock
    <2>2. CASE /\ Goto(t, "waiting")
               /\ fwd' = [fwd EXCEPT ![t] = "dialing"]
               /\ fwdFailed' = [fwdFailed EXCEPT ![t] = FALSE]
               /\ UNCHANGED mutex
      BY <1>6, <2>2 DEF StartForwarder, Goto
    <2> QED
      BY <1>6, <2>1, <2>2 DEF StartForwarder
  <1>7. ASSUME NEW t \in Tunnels, TakeError(t) PROVE TypeOK'
    BY <1>7 DEF TakeError, Goto, ReturnError, ReturnNil, Unlock
  <1>8. ASSUME NEW t \in Tunnels, TakeReady(t) PROVE TypeOK'
    BY <1>8 DEF TakeReady, Goto, ReturnNil, Unlock
  <1>9. ASSUME NEW t \in Tunnels, Close(t) PROVE TypeOK'
    BY <1>9, SMTT(30) DEF Close
  <1>10. ASSUME NEW t \in Tunnels, Dial(t) PROVE TypeOK'
    BY <1>10 DEF Dial, Report
  <1>11. ASSUME NEW t \in Tunnels, Listen(t) PROVE TypeOK'
    <2>1. CASE owner[localPort[t]] = Nobody
      <3>1. /\ owner' = [owner EXCEPT ![localPort[t]] = t]
            /\ ready' = [ready EXCEPT ![t] = TRUE]
            /\ fwd' = [fwd EXCEPT ![t] = "serving"]
            /\ UNCHANGED <<fwdFailed, callVars, stop, podsUp>>
        BY <1>11, <2>1 DEF Listen
      <3>2. owner' \in [Ports -> Tunnels \union {Nobody, Other}]
        BY <3>1
      <3>3. ready' \in [Tunnels -> BOOLEAN]
        BY <3>1
      <3> QED
        BY <3>1, <3>2, <3>3
    <2>2. CASE owner[localPort[t]] # Nobody
      BY <1>11, <2>2 DEF Listen, Report
    <2> QED
      BY <2>1, <2>2
  <1>12. ASSUME NEW t \in Tunnels, EndService(t) PROVE TypeOK'
    BY <1>12 DEF EndService, Report
  <1>13. ASSUME NEW p \in Ports, HostStep(p) PROVE TypeOK'
    BY <1>13 DEF HostStep
  <1>14. ASSUME NEW p \in Pods, PodStep(p) PROVE TypeOK'
    BY <1>14 DEF PodStep
  <1>15. CASE UNCHANGED vars
    BY <1>15 DEF vars
  <1> QED
    BY <1>1, <1>2, <1>3, <1>4, <1>5, <1>6, <1>7, <1>8, <1>9, <1>10, <1>11, <1>12,
       <1>13, <1>14, <1>15
       DEF Next, CallStep, ForwarderStep

\* Every step preserves the rest of the invariant; each part by itself.
LEMMA TunnelPhases == TunnelIInv /\ [Next]_vars => PhaseInv'
  <1> SUFFICES ASSUME TunnelIInv, [Next]_vars PROVE PhaseInv'
    OBVIOUS
  <1> USE TunnelAssumption DEF TunnelIInv, TypeOK, PhaseInv, callVars, fwdVars, worldVars
  <1>1. ASSUME NEW t \in Tunnels, Begin(t) PROVE PhaseInv'
    BY <1>1 DEF Begin, Goto
  <1>2. ASSUME NEW t \in Tunnels, Attach(t) PROVE PhaseInv'
    BY <1>2 DEF Attach, Goto, ReturnError
  <1>3. ASSUME NEW t \in Tunnels, Probe(t) PROVE PhaseInv'
    BY <1>3 DEF Probe, Goto, ReturnError
  <1>4. ASSUME NEW t \in Tunnels, EndProbe(t) PROVE PhaseInv'
    BY <1>4 DEF EndProbe, Goto
  <1>5. ASSUME NEW t \in Tunnels, Lock(t) PROVE PhaseInv'
    BY <1>5 DEF Lock, Goto
  <1>6. ASSUME NEW t \in Tunnels, StartForwarder(t) PROVE PhaseInv'
    BY <1>6 DEF StartForwarder, Goto, ReturnError
  <1>7. ASSUME NEW t \in Tunnels, TakeError(t) PROVE PhaseInv'
    BY <1>7 DEF TakeError, Goto, ReturnError, ReturnNil, ReadyInv
  <1>8. ASSUME NEW t \in Tunnels, TakeReady(t) PROVE PhaseInv'
    BY <1>8 DEF TakeReady, Goto, ReturnNil, ReadyInv
  <1>9. ASSUME NEW t \in Tunnels, Close(t) PROVE PhaseInv'
    BY <1>9 DEF Close
  <1>10. ASSUME NEW t \in Tunnels, Dial(t) PROVE PhaseInv'
    BY <1>10 DEF Dial, Report
  <1>11. ASSUME NEW t \in Tunnels, Listen(t) PROVE PhaseInv'
    BY <1>11 DEF Listen, Report
  <1>12. ASSUME NEW t \in Tunnels, EndService(t) PROVE PhaseInv'
    BY <1>12 DEF EndService, Report
  <1>13. ASSUME NEW p \in Ports, HostStep(p) PROVE PhaseInv'
    BY <1>13 DEF HostStep
  <1>14. ASSUME NEW p \in Pods, PodStep(p) PROVE PhaseInv'
    BY <1>14 DEF PodStep
  <1>15. CASE UNCHANGED vars
    BY <1>15 DEF vars
  <1> QED
    BY <1>1, <1>2, <1>3, <1>4, <1>5, <1>6, <1>7, <1>8, <1>9, <1>10, <1>11, <1>12,
       <1>13, <1>14, <1>15
       DEF Next, CallStep, ForwarderStep

LEMMA TunnelReady == TunnelIInv /\ [Next]_vars => ReadyInv'
  <1> SUFFICES ASSUME TunnelIInv, [Next]_vars PROVE ReadyInv'
    OBVIOUS
  <1> USE TunnelAssumption DEF TunnelIInv, TypeOK, PhaseInv, ReadyInv, callVars, fwdVars, worldVars
  <1>1. ASSUME NEW t \in Tunnels, Begin(t) PROVE ReadyInv'
    BY <1>1 DEF Begin, Goto
  <1>2. ASSUME NEW t \in Tunnels, Attach(t) PROVE ReadyInv'
    BY <1>2 DEF Attach, Goto, ReturnError
  <1>3. ASSUME NEW t \in Tunnels, Probe(t) PROVE ReadyInv'
    BY <1>3 DEF Probe, Goto, ReturnError
  <1>4. ASSUME NEW t \in Tunnels, EndProbe(t) PROVE ReadyInv'
    BY <1>4 DEF EndProbe, Goto
  <1>5. ASSUME NEW t \in Tunnels, Lock(t) PROVE ReadyInv'
    BY <1>5 DEF Lock, Goto
  <1>6. ASSUME NEW t \in Tunnels, StartForwarder(t) PROVE ReadyInv'
    BY <1>6 DEF StartForwarder, Goto, ReturnError
  <1>7. ASSUME NEW t \in Tunnels, TakeError(t) PROVE ReadyInv'
    BY <1>7 DEF TakeError, Goto, ReturnError, ReturnNil
  <1>8. ASSUME NEW t \in Tunnels, TakeReady(t) PROVE ReadyInv'
    BY <1>8 DEF TakeReady, Goto, ReturnNil
  <1>9. ASSUME NEW t \in Tunnels, Close(t) PROVE ReadyInv'
    BY <1>9 DEF Close
  <1>10. ASSUME NEW t \in Tunnels, Dial(t) PROVE ReadyInv'
    BY <1>10 DEF Dial, Report
  <1>11. ASSUME NEW t \in Tunnels, Listen(t) PROVE ReadyInv'
    BY <1>11 DEF Listen, Report
  <1>12. ASSUME NEW t \in Tunnels, EndService(t) PROVE ReadyInv'
    BY <1>12 DEF EndService, Report
  <1>13. ASSUME NEW p \in Ports, HostStep(p) PROVE ReadyInv'
    BY <1>13 DEF HostStep
  <1>14. ASSUME NEW p \in Pods, PodStep(p) PROVE ReadyInv'
    BY <1>14 DEF PodStep
  <1>15. CASE UNCHANGED vars
    BY <1>15 DEF vars
  <1> QED
    BY <1>1, <1>2, <1>3, <1>4, <1>5, <1>6, <1>7, <1>8, <1>9, <1>10, <1>11, <1>12,
       <1>13, <1>14, <1>15
       DEF Next, CallStep, ForwarderStep

LEMMA TunnelLock == TunnelIInv /\ [Next]_vars => LockDiscipline'
  <1> SUFFICES ASSUME TunnelIInv, [Next]_vars PROVE LockDiscipline'
    OBVIOUS
  <1> USE TunnelAssumption DEF TunnelIInv, TypeOK, PhaseInv, LockDiscipline, callVars, fwdVars, worldVars
  <1>1. ASSUME NEW t \in Tunnels, Begin(t) PROVE LockDiscipline'
    BY <1>1 DEF Begin, Goto
  <1>2. ASSUME NEW t \in Tunnels, Attach(t) PROVE LockDiscipline'
    BY <1>2 DEF Attach, Goto, ReturnError, Unlock
  <1>3. ASSUME NEW t \in Tunnels, Probe(t) PROVE LockDiscipline'
    BY <1>3 DEF Probe, Goto, ReturnError, Unlock
  <1>4. ASSUME NEW t \in Tunnels, EndProbe(t) PROVE LockDiscipline'
    BY <1>4 DEF EndProbe, Goto
  <1>5. ASSUME NEW t \in Tunnels, Lock(t) PROVE LockDiscipline'
    BY <1>5 DEF Lock, Goto
  <1>6. ASSUME NEW t \in Tunnels, StartForwarder(t) PROVE LockDiscipline'
    BY <1>6 DEF StartForwarder, Goto, ReturnError, Unlock
  <1>7. ASSUME NEW t \in Tunnels, TakeError(t) PROVE LockDiscipline'
    BY <1>7 DEF TakeError, Goto, ReturnError, ReturnNil, Unlock
  <1>8. ASSUME NEW t \in Tunnels, TakeReady(t) PROVE LockDiscipline'
    BY <1>8 DEF TakeReady, Goto, ReturnNil, Unlock
  <1>9. ASSUME NEW t \in Tunnels, Close(t) PROVE LockDiscipline'
    BY <1>9 DEF Close
  <1>10. ASSUME NEW t \in Tunnels, Dial(t) PROVE LockDiscipline'
    BY <1>10 DEF Dial, Report
  <1>11. ASSUME NEW t \in Tunnels, Listen(t) PROVE LockDiscipline'
    BY <1>11 DEF Listen, Report
  <1>12. ASSUME NEW t \in Tunnels, EndService(t) PROVE LockDiscipline'
    BY <1>12 DEF EndService, Report
  <1>13. ASSUME NEW p \in Ports, HostStep(p) PROVE LockDiscipline'
    BY <1>13 DEF HostStep
  <1>14. ASSUME NEW p \in Pods, PodStep(p) PROVE LockDiscipline'
    BY <1>14 DEF PodStep
  <1>15. CASE UNCHANGED vars
    BY <1>15 DEF vars
  <1> QED
    BY <1>1, <1>2, <1>3, <1>4, <1>5, <1>6, <1>7, <1>8, <1>9, <1>10, <1>11, <1>12,
       <1>13, <1>14, <1>15
       DEF Next, CallStep, ForwarderStep

LEMMA TunnelPorts == TunnelIInv /\ [Next]_vars => PortInv'
  <1> SUFFICES ASSUME TunnelIInv, [Next]_vars PROVE PortInv'
    OBVIOUS
  <1> USE TunnelAssumption DEF TunnelIInv, TypeOK, PhaseInv, PortInv, callVars, fwdVars, worldVars
  <1>1. ASSUME NEW t \in Tunnels, Begin(t) PROVE PortInv'
    BY <1>1 DEF Begin, Goto
  <1>2. ASSUME NEW t \in Tunnels, Attach(t) PROVE PortInv'
    BY <1>2 DEF Attach, Goto, ReturnError
  <1>3. ASSUME NEW t \in Tunnels, Probe(t) PROVE PortInv'
    BY <1>3 DEF Probe, Goto, ReturnError
  <1>4. ASSUME NEW t \in Tunnels, EndProbe(t) PROVE PortInv'
    BY <1>4 DEF EndProbe, Goto
  <1>5. ASSUME NEW t \in Tunnels, Lock(t) PROVE PortInv'
    BY <1>5 DEF Lock, Goto
  <1>6. ASSUME NEW t \in Tunnels, StartForwarder(t) PROVE PortInv'
    BY <1>6 DEF StartForwarder, Goto, ReturnError
  <1>7. ASSUME NEW t \in Tunnels, TakeError(t) PROVE PortInv'
    BY <1>7 DEF TakeError, Goto, ReturnError, ReturnNil
  <1>8. ASSUME NEW t \in Tunnels, TakeReady(t) PROVE PortInv'
    BY <1>8 DEF TakeReady, Goto, ReturnNil
  <1>9. ASSUME NEW t \in Tunnels, Close(t) PROVE PortInv'
    BY <1>9 DEF Close
  <1>10. ASSUME NEW t \in Tunnels, Dial(t) PROVE PortInv'
    BY <1>10 DEF Dial, Report
  <1>11. ASSUME NEW t \in Tunnels, Listen(t) PROVE PortInv'
    BY <1>11 DEF Listen, Report
  <1>12. ASSUME NEW t \in Tunnels, EndService(t) PROVE PortInv'
    BY <1>12 DEF EndService, Report
  <1>13. ASSUME NEW p \in Ports, HostStep(p) PROVE PortInv'
    BY <1>13 DEF HostStep
  <1>14. ASSUME NEW p \in Pods, PodStep(p) PROVE PortInv'
    BY <1>14 DEF PodStep
  <1>15. CASE UNCHANGED vars
    BY <1>15 DEF vars
  <1> QED
    BY <1>1, <1>2, <1>3, <1>4, <1>5, <1>6, <1>7, <1>8, <1>9, <1>10, <1>11, <1>12,
       <1>13, <1>14, <1>15
       DEF Next, CallStep, ForwarderStep

\* The invariant is inductive.
LEMMA TunnelInvariant == Safety => []TunnelIInv
  <1>1. TunnelIInv /\ [Next]_vars => TunnelIInv'
    BY TunnelTypes, TunnelPhases, TunnelReady, TunnelLock, TunnelPorts DEF TunnelIInv
  <1> QED
    BY InitTunnel, <1>1, PTL DEF Safety

\* The variables keep their types.
THEOREM TunnelTypeCorrect == Safety => []TypeOK
  BY TunnelInvariant, PTL DEF TunnelIInv

\* However many tunnels share however few ports with the rest of the host, a
\* tunnel that reported success became ready itself, and a live tunnel's
\* endpoint is its own.
THEOREM EndpointsAreOwn == Safety => []EndpointIsMine
  <1>1. TunnelIInv => EndpointIsMine
    BY DEF TunnelIInv, PhaseInv, PortInv, EndpointIsMine
  <1> QED
    BY TunnelInvariant, <1>1, PTL

\* The lock is held by calls that start their forwarder and by no other, and
\* by every call that has just chosen a port.
THEOREM LockIsDisciplined == Safety => []LockDiscipline
  BY TunnelInvariant, PTL DEF TunnelIInv

\* A closed tunnel is not called again.
StopInv == \A t \in Tunnels : stop[t] => pc[t] \in {"open", "failed"}

LEMMA ClosedIsNotCalled == Safety => []StopInv
  <1>1. Init => StopInv
    BY DEF Init, StopInv
  <1>2. TypeOK /\ StopInv /\ [Next]_vars => StopInv'
    <2> SUFFICES ASSUME TypeOK, StopInv, [Next]_vars, NEW u \in Tunnels, stop'[u]
                 PROVE  pc'[u] \in {"open", "failed"}
      BY DEF StopInv
    <2> USE DEF TypeOK, StopInv, callVars, fwdVars, worldVars, Goto
    <2>1. CASE \E t \in Tunnels : Begin(t) \/ Lock(t)
      BY <2>1 DEF Begin, Lock
    <2>2. CASE \E t \in Tunnels : Close(t)
      BY <2>2 DEF Close
    <2>3. CASE \E t \in Tunnels : CallStep(t)
      BY <2>3 DEF CallStep, Attach, Probe, EndProbe, StartForwarder, TakeError, TakeReady,
                  ReturnError, ReturnNil
    <2>4. CASE \/ \E t \in Tunnels : ForwarderStep(t)
               \/ \E p \in Ports : HostStep(p)
               \/ \E p \in Pods : PodStep(p)
               \/ UNCHANGED vars
      BY <2>4 DEF ForwarderStep, Dial, Listen, EndService, HostStep, PodStep, vars
    <2> QED
      BY <2>1, <2>2, <2>3, <2>4 DEF Next
  <1> QED
    BY <1>1, <1>2, TunnelTypeCorrect, PTL DEF Safety

\* The safety half of CloseFreesPort: a closed tunnel that has given its port
\* back never listens on any port again.
THEOREM FreedStaysFree ==
  Safety => [][\A t \in Tunnels :
                 stop[t] /\ (\A p \in Ports : owner[p] # t) => \A p \in Ports : owner'[p] # t]_vars
  <1> DEFINE StaysFree == \A t \in Tunnels :
                 stop[t] /\ (\A p \in Ports : owner[p] # t) => \A p \in Ports : owner'[p] # t
  <1>1. TunnelIInv /\ StopInv /\ [Next]_vars => [StaysFree]_vars
    <2> SUFFICES ASSUME TunnelIInv, StopInv, Next, NEW u \in Tunnels, stop[u],
                        \A p \in Ports : owner[p] # u, NEW q \in Ports
                 PROVE  owner'[q] # u
      OBVIOUS
    <2>0. /\ owner[q] # u /\ u # Nobody
          /\ pc[u] \in {"open", "failed"}
          /\ fwd[u] # "listening"
      <3>1. pc[u] \in {"open", "failed"}
        BY DEF StopInv
      <3> QED
        BY <3>1, TunnelAssumption DEF TunnelIInv, PhaseInv
    <2>1. CASE \E t \in Tunnels : \/ Begin(t) \/ Lock(t) \/ Close(t) \/ Attach(t)
                                   \/ StartForwarder(t) \/ TakeError(t) \/ TakeReady(t) \/ Dial(t)
      <3>1. owner' = owner
        BY <2>1 DEF Begin, Lock, Close, Attach, StartForwarder, TakeError, TakeReady, Dial,
                    ReturnError, ReturnNil, Goto, callVars, fwdVars, worldVars
      <3> QED
        BY <2>0, <3>1
    <2>2. CASE \E t \in Tunnels : Probe(t)
      <3>1. PICK t \in Tunnels : Probe(t)
        BY <2>2
      <3>2. pc[t] = "choosing" /\ owner'[q] \in {owner[q], t}
        BY <3>1 DEF Probe, TunnelIInv, TypeOK, Goto
      <3> QED
        BY <2>0, <3>2
    <2>3. CASE \E t \in Tunnels : EndProbe(t) \/ EndService(t)
      <3>1. owner'[q] \in {owner[q], Nobody}
        BY <2>3 DEF EndProbe, EndService, TunnelIInv, TypeOK
      <3> QED
        BY <2>0, <3>1
    <2>4. CASE \E t \in Tunnels : Listen(t)
      <3>1. PICK t \in Tunnels : Listen(t)
        BY <2>4
      <3>2. owner'[q] \in {owner[q], t}
        BY <3>1 DEF Listen, TunnelIInv, TypeOK
      <3>3. fwd[t] = "listening"
        BY <3>1 DEF Listen
      <3> QED
        BY <2>0, <3>2, <3>3
    <2>5. CASE \/ \E p \in Ports : HostStep(p)
               \/ \E p \in Pods : PodStep(p)
      <3>1. owner'[q] \in {owner[q], Other, Nobody}
        BY <2>5 DEF HostStep, PodStep, TunnelIInv, TypeOK
      <3>2. u # Other
        BY TunnelAssumption
      <3> QED
        BY <2>0, <3>1, <3>2
    <2> QED
      BY <2>1, <2>2, <2>3, <2>4, <2>5 DEF Next, CallStep, ForwarderStep
  <1> QED
    BY <1>1, TunnelInvariant, ClosedIsNotCalled, PTL DEF Safety

=============================================================================
