---------------------------- MODULE KubeConfig ----------------------------
(***************************************************************************)
(* Kubeconfig files under the edits of modules/k8s/config.go and           *)
(* service_account.go. Tests run in parallel; each edits the file of the   *)
(* home directory, which they share, or a copy of it that it makes in a    *)
(* temporary file. An edit loads the whole file without a lock, changes it *)
(* in memory and hands it to clientcmd.ModifyConfig of client-go, which    *)
(* brings the file there entry by entry under a lock among its callers.    *)
(***************************************************************************)
EXTENDS FiniteSets, Integers, SequencesExt

CONSTANTS
  Editors,     \* the goroutines of the tests
  Copiers,     \* those that may make a copy of their own
  Contexts,    \* names of contexts, in alphabetical order
  Users,       \* names of service accounts that get a context
  MaxEdits,    \* the edits that they make in all
  HomeConfig,  \* the config that the home directory has at first
  NoFile       \* a file that is not there

Home == "home"

NoContext == "none"

Configs ==
  [contexts : UNION {[names -> [cluster : HomeConfig.clusters, user : HomeConfig.users \union Users]]
                       : names \in SUBSET ToSet(Contexts)},
   clusters : SUBSET HomeConfig.clusters,
   users : SUBSET (HomeConfig.users \union Users),
   current : ToSet(Contexts) \union {NoContext}]

\* What a file without a byte is read as.
EmptyConfig == [contexts |-> [n \in {} |-> n], clusters |-> {}, users |-> {}, current |-> NoContext]

\* A config that can be used: its current context exists, and so do the cluster
\* and the user of every context.
Sound(config) ==
  /\ config.current \in DOMAIN config.contexts
  /\ \A n \in DOMAIN config.contexts : /\ config.contexts[n].cluster \in config.clusters
                                       /\ config.contexts[n].user \in config.users

ASSUME KubeConfigAssumption ==
  /\ Contexts \in Seq(ToSet(Contexts))
  /\ HomeConfig \in Configs /\ Sound(HomeConfig)
  /\ Copiers \subseteq Editors /\ Home \notin Editors
  /\ NoFile \notin Configs
  /\ MaxEdits \in Nat

VARIABLES
  file,        \* [path -> config]: the home file and one temporary file per test
  path,        \* the file that each test edits
  editor,      \* where the test is
  memory,      \* rawConfig as its current edit loaded it
  edit,        \* what the current edit is to do
  edits,       \* how many edits were begun
  kept,        \* [path -> contexts that were added, and not deleted, by calls that succeeded]
  history      \* [path -> what has befallen the file, of Mishaps]

kubeConfigVars == <<file, path, editor, memory, edit, edits, kept, history>>

NoEdit == [op |-> "none", name |-> "none", user |-> "none"]

\* A save that ended half way, a load of an unusable file amid a save, and a
\* save of what had been loaded before another one.
Mishaps == {"cut", "torn", "stale"}

KubeConfigInit ==
  /\ file = [p \in {Home} \union Editors |-> IF p = Home THEN HomeConfig ELSE NoFile]
  /\ path = [t \in Editors |-> Home]
  /\ editor = [t \in Editors |-> "ready"]
  /\ memory = [t \in Editors |-> HomeConfig]
  /\ edit = [t \in Editors |-> NoEdit]
  /\ edits = 0
  /\ kept = [p \in {Home} \union Editors |-> {}]
  /\ history = [p \in {Home} \union Editors |-> {}]

\* Somebody has the lock of ModifyConfig.
BeingSaved(p) == \E t \in Editors : path[t] = p /\ editor[t] = "saving"

\* What a reader may find, none of whom takes the lock. Each write of a save
\* truncates the file first.
Views(p) == {file[p]} \union {c \in {EmptyConfig} : BeingSaved(p)}

Torn(p, view) == BeingSaved(p) /\ ~Sound(view)

\* CopyHomeKubeConfigToTemp: if the copy fails the temporary file is removed
\* and the test fails.
CopyHomeKubeConfigToTemp(t) ==
  /\ editor[t] = "ready" /\ path[t] = Home /\ t \in Copiers
  /\ \/ \E view \in Views(Home) :
          /\ file' = [file EXCEPT ![t] = view]
          /\ history' = [history EXCEPT ![t] =
                            {m \in {"torn"} : Torn(Home, view) \/ history[Home] \intersect {"cut", "torn"} # {}}]
          /\ path' = [path EXCEPT ![t] = t]
          /\ UNCHANGED editor
     \/ /\ editor' = [editor EXCEPT ![t] = "failed"]
        /\ UNCHANGED <<file, path, history>>
  /\ UNCHANGED <<memory, edit, edits, kept>>

\* LoadConfigFromPath and RawConfig, at the beginning of either edit.
Load(t, op, name, user) ==
  /\ editor[t] = "ready" /\ edits < MaxEdits
  /\ edits' = edits + 1
  /\ \E view \in Views(path[t]) :
       /\ memory' = [memory EXCEPT ![t] = view]
       /\ history' = [history EXCEPT ![path[t]] = @ \union {m \in {"torn"} : Torn(path[t], view)}]
  /\ edit' = [edit EXCEPT ![t] = [op |-> op, name |-> name, user |-> user]]
  /\ editor' = [editor EXCEPT ![t] = "loaded"]
  /\ UNCHANGED <<file, path, kept>>

DeleteConfigContext(t) == \E name \in ToSet(Contexts) : Load(t, "delete", name, "none")

AddConfigContextForServiceAccount(t) ==
  \E name \in ToSet(Contexts), user \in Users : Load(t, "add", name, user)

\* setNewContext: the first context in alphabetical order.
SetNewContext(contexts) ==
  Contexts[CHOOSE i \in DOMAIN Contexts : /\ Contexts[i] \in DOMAIN contexts
                                           /\ \A j \in 1 .. i - 1 : Contexts[j] \notin DOMAIN contexts]

RemoveOrphaned(config) ==
  [config EXCEPT !.clusters = {config.contexts[n].cluster : n \in DOMAIN config.contexts},
                 !.users = {config.contexts[n].user : n \in DOMAIN config.contexts}]

Without_StaleCurrent(config, name) ==
  LET left == [n \in DOMAIN config.contexts \ {name} |-> config.contexts[n]]
  IN RemoveOrphaned([config EXCEPT !.contexts = left])

Without(config, name) ==
  LET left == [n \in DOMAIN config.contexts \ {name} |-> config.contexts[n]]
  IN RemoveOrphaned([config EXCEPT !.contexts = left,
                                   !.current = IF @ = name THEN SetNewContext(left) ELSE @])

Bind(contexts, name, bound) == [n \in DOMAIN contexts \union {name} |-> IF n = name THEN bound ELSE contexts[n]]

WithContext_Swapped(config, name, user) ==
  [config EXCEPT !.contexts = Bind(@, name, [cluster |-> user, user |-> config.contexts[config.current].cluster]),
                 !.users = @ \union {user}]

\* UpsertConfigContext binds the cluster of the current context to the user.
WithContext(config, name, user) ==
  [config EXCEPT !.contexts = Bind(@, name, [cluster |-> config.contexts[config.current].cluster, user |-> user]),
                 !.users = @ \union {user}]

\* setNewContext finds no context: the current one that is to go is the last.
NoneRemains(config, name) == config.current = name /\ DOMAIN config.contexts = {name}

Edited_Cached(config, e) == config

\* The config that an edit hands to ModifyConfig.
Edited(config, e) ==
  IF e.op = "delete" THEN Without(config, e.name) ELSE WithContext(config, e.name, e.user)

\* RemoveOrphaned looks up what the contexts name, and finds nil if it is not there.
HasNil(config, e) ==
  /\ e.op = "delete"
  /\ \/ ~(Edited(config, e).clusters \subseteq config.clusters)
     \/ ~(Edited(config, e).users \subseteq config.users)

\* An edit that is to add looks up the cluster of the current context, which may
\* not be there; a save looks into each entry.
ComesOnNil(t) ==
  \/ /\ editor[t] = "loaded" /\ edit[t].op = "add"
     /\ memory[t].current \notin DOMAIN memory[t].contexts
  \/ editor[t] = "saving" /\ HasNil(memory[t], edit[t])

-----------------------------------------------------------------------------

\* An edit returns; its local variables are gone.
Return(t) ==
  /\ editor' = [editor EXCEPT ![t] = "ready"]
  /\ memory' = [memory EXCEPT ![t] = HomeConfig]
  /\ edit' = [edit EXCEPT ![t] = NoEdit]

\* The context to delete is not there: a warning, and no error.
NothingToDelete(t) ==
  /\ editor[t] = "loaded" /\ edit[t].op = "delete"
  /\ edit[t].name \notin DOMAIN memory[t].contexts
  /\ Return(t)
  /\ kept' = [kept EXCEPT ![path[t]] = @ \ {edit[t].name}]
  /\ UNCHANGED <<file, path, edits, history>>

\* An error, and the file keeps the context.
LastContext(t) ==
  /\ editor[t] = "loaded" /\ edit[t].op = "delete"
  /\ NoneRemains(memory[t], edit[t].name)
  /\ Return(t)
  /\ UNCHANGED <<file, path, edits, kept, history>>

\* Reading the file fails, or its lock is taken, and the edit with it.
EditFails(t) ==
  /\ editor[t] = "loaded"
  /\ Return(t)
  /\ UNCHANGED <<file, path, edits, kept, history>>

\* A panic ends all tests of the process where they are.
Panic ==
  /\ editor' = [t \in Editors |-> "dead"]
  /\ memory' = [t \in Editors |-> HomeConfig]
  /\ edit' = [t \in Editors |-> NoEdit]
  /\ history' = [p \in DOMAIN history |-> history[p] \union {m \in {"cut"} : BeingSaved(p)}]
  /\ UNCHANGED <<file, path, edits, kept>>

\* ModifyConfig takes the lock of the file, and fails if somebody has it.
ModifyConfig(t) ==
  /\ editor[t] = "loaded"
  /\ \/ /\ edit[t].op = "delete"
        /\ edit[t].name \in DOMAIN memory[t].contexts
        /\ ~NoneRemains(memory[t], edit[t].name)
     \/ /\ edit[t].op = "add"
        /\ memory[t].current \in DOMAIN memory[t].contexts
  /\ ~BeingSaved(path[t])
  /\ editor' = [editor EXCEPT ![t] = "saving"]
  /\ history' = [history EXCEPT ![path[t]] = @ \union {m \in {"stale"} : memory[t] # file[path[t]]}]
  /\ UNCHANGED <<file, path, memory, edit, edits, kept>>

\* The next write of a save that has entries to add or to change: first the
\* current context, then clusters, contexts and users, in any order of each.
Sets(now, new) ==
  LET changed == {n \in DOMAIN new.contexts : n \in DOMAIN now.contexts => now.contexts[n] # new.contexts[n]}
  IN  IF now.current # new.current THEN {[now EXCEPT !.current = new.current]}
      ELSE IF ~(new.clusters \subseteq now.clusters)
        THEN {[now EXCEPT !.clusters = @ \union {c}] : c \in new.clusters \ now.clusters}
      ELSE IF changed # {}
        THEN {[now EXCEPT !.contexts = Bind(@, n, new.contexts[n])] : n \in changed}
      ELSE {[now EXCEPT !.users = @ \union {u}] : u \in new.users \ now.users}

\* And then what is to go, in the same order of kinds.
Drops(now, new) ==
  LET gone == DOMAIN now.contexts \ DOMAIN new.contexts
  IN  IF ~(now.clusters \subseteq new.clusters)
        THEN {[now EXCEPT !.clusters = @ \ {c}] : c \in now.clusters \ new.clusters}
      ELSE IF gone # {}
        THEN {[now EXCEPT !.contexts = [m \in DOMAIN @ \ {n} |-> @[m]]] : n \in gone}
      ELSE {[now EXCEPT !.users = @ \ {u}] : u \in now.users \ new.users}

\* A save that has nil entries does not come to the deletions.
Write(t) ==
  LET now == file[path[t]]
      new == Edited(memory[t], edit[t])
      known == [new EXCEPT !.clusters = @ \intersect memory[t].clusters,
                           !.users = @ \intersect memory[t].users]
  IN  /\ editor[t] = "saving"
      /\ \E config \in IF HasNil(memory[t], edit[t]) THEN Sets(now, known)
                        ELSE IF Sets(now, new) # {} THEN Sets(now, new) ELSE Drops(now, new) :
           file' = [file EXCEPT ![path[t]] = config]
      /\ UNCHANGED <<path, editor, memory, edit, edits, kept, history>>

\* Either at once, or some time after the save has written the current context.
NilIsLookedUp(t) ==
  /\ ComesOnNil(t)
  /\ editor[t] = "saving" => file[path[t]].current = Edited(memory[t], edit[t]).current
  /\ Panic

\* Nothing is left to write.
SaveEnds(t) ==
  /\ editor[t] = "saving"
  /\ ~HasNil(memory[t], edit[t])
  /\ file[path[t]] = Edited(memory[t], edit[t])
  /\ kept' = [kept EXCEPT ![path[t]] =
                 IF edit[t].op = "delete" THEN @ \ {edit[t].name} ELSE @ \union {edit[t].name}]
  /\ Return(t)
  /\ UNCHANGED <<file, path, edits, history>>

\* A write fails, before or after it has truncated the file, and the edit with it.
SaveIsCut(t) ==
  /\ editor[t] = "saving"
  /\ \E left \in {file[path[t]], EmptyConfig} : file' = [file EXCEPT ![path[t]] = left]
  /\ history' = [history EXCEPT ![path[t]] = @ \union {"cut"}]
  /\ Return(t)
  /\ UNCHANGED <<path, edits, kept>>

\* The test ends and removes its temporary file, as its deferred os.Remove says.
RemoveTempConfig(t) ==
  /\ editor[t] = "ready"
  /\ editor' = [editor EXCEPT ![t] = "ended"]
  /\ file' = [file EXCEPT ![t] = NoFile]
  /\ UNCHANGED <<path, memory, edit, edits, kept, history>>

KubeConfigNext ==
  \E t \in Editors :
    \/ CopyHomeKubeConfigToTemp(t) \/ DeleteConfigContext(t)
    \/ AddConfigContextForServiceAccount(t)
    \/ NothingToDelete(t) \/ LastContext(t) \/ EditFails(t)
    \/ ModifyConfig(t) \/ Write(t) \/ NilIsLookedUp(t) \/ SaveEnds(t) \/ SaveIsCut(t)
    \/ RemoveTempConfig(t)

-----------------------------------------------------------------------------

KubeConfigTypeOK ==
  /\ \A p \in DOMAIN file : file[p] # NoFile => file[p] \in Configs
  /\ path \in [Editors -> {Home} \union Editors]
  /\ editor \in [Editors -> {"ready", "loaded", "saving", "failed", "ended", "dead"}]
  /\ kept \in [DOMAIN file -> SUBSET ToSet(Contexts)]
  /\ history \in [DOMAIN file -> SUBSET Mishaps]

\* Edits that overlap and lose each other's changes leave a file that can be used
\* once nobody writes it. It takes a save that ends half way, or an edit that
\* loads the file amid a save, to leave one that cannot, and without one of the
\* two no edit looks into a nil entry and ends the tests (config.go:63-87,
\* service_account.go:116-135).
ConfigIsSound ==
  /\ \A p \in DOMAIN file :
       file[p] # NoFile /\ ~BeingSaved(p) /\ history[p] \subseteq {"stale"} => Sound(file[p])
  /\ \A t \in Editors : ComesOnNil(t) => ~(history[path[t]] \subseteq {"stale"})

\* A context that a call has added is there until a call deletes it: it is lost
\* only to a save of what was loaded before another save, or to one that ends
\* half way. The former never happens to a copy of a test's own, which is what
\* CopyHomeKubeConfigToTemp is for; no temporary file outlasts its test.
OwnEditsLast ==
  /\ \A p \in DOMAIN file :
       file[p] # NoFile /\ ~BeingSaved(p) /\ history[p] \subseteq {"torn"} =>
         kept[p] \subseteq DOMAIN file[p].contexts
  /\ \A t \in Editors :
       /\ path[t] = t => "stale" \notin history[t]
       /\ editor[t] \in {"failed", "ended"} => file[t] = NoFile

=============================================================================
