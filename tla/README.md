# A TLA+ verification of the test harness (modules/)

The repository provisions infrastructure on three clouds with Terraform (`aws/`,
`gcp/`, `ibm/`, a CircleCI pipeline) and tests it with a Go library under
`modules/`, a fork of Terratest. The Terraform code is declarative and the CI
file is a list of jobs; the program that can be wrong is the library: it starts
processes, opens tunnels, serves ssh keys, retries, times out, cleans up and sorts
the interleaved output of parallel tests. This directory holds TLA+ models of
those parts, TLC runs that check them on small instances, and TLAPS proofs for
every instance. Paths are relative to `src/modules/` unless they start with
another directory.

Every module is written from the Go code, and `PROJECT.json` maps each of its
definitions to the lines it stands for, and lists the components, the runs, the
hazards and the theorems.

    cd tla
    tlc -workers 2 -config MCTunnel.cfg MCTunnel     # a run
    tlapm Kube_proofs.tla                            # the proofs of a module

A definition whose name has an underscore (`Store_AtTheEnd`) is a slip of the
definition after it: the mistake a programmer could make there. No
specification uses it; it is kept because a named property is known to fail when
it replaces the original, and so shows what the property is sensitive to.


## 1. Inventory

### 1.1 The parts, their state and their operations

| part | state | operations | modelled by |
|---|---|---|---|
| `retry/retry.go` | a loop counter, the last output and error; a channel and a context of a call with a timeout; the stop channel of a background loop | `DoWithRetry(E)`, `DoWithRetryableErrors(E)`, `DoWithTimeout(E)`, `DoInBackgroundUntilStopped`, `Done` | `RetryContract`, `Retry`, `Timeout`, `Background`, composed in `RetryHelpers` |
| `k8s/tunnel.go` | per tunnel its local port, `stopChan`, `readyChan`, `errChan`; one mutex for all; the ports of the host | `NewTunnel`, `ForwardPort(E)`, `Endpoint`, `Close`, `GetAvailablePort(E)` | `Tunnel` |
| `shell/command.go` | the child process, two pipes, the stored output, a mutex | `RunCommand*` with two reader goroutines | `ShellContract`, `Shell` |
| `terraform/` | the folder that terraform works in: initialised, workspaces, what is applied | `InitAndApply`, `InitAndPlan`, `InitAndPlanWithExitCode`, `Destroy`, `WorkspaceSelectOrNew`, `Output*`, the `Tg` forms | `Terraform` |
| `packer/` | a slice of errors and a map of ids that goroutines share | `BuildArtifact(s)E` | `Packer` |
| `ssh/ssh.go`, `session.go` | an `SshSession` with clients, connections and a session, the agents it dials | `CheckSshConnection`, `CheckSshCommand`, `CheckPrivateSshConnection`, `Scp*`, `FetchContentsOfFile(s)`, `Cleanup` | `SshSession` |
| `files/` | the folder and its copy | `CopyTerraformFolderToTemp`, `CopyTerragruntFolderToTemp` and the copying under them | `Folders` |
| `http-helper/` | `continuous.go`: a goroutine, a buffered channel, a stop channel, a wait group; `dummy_server.go`: a counter of ports, the `DefaultServeMux`, listeners | `ContinuouslyCheckUrl`, `RunDummyServer*`, the retried requests | `ContinuousCheck`, `DummyServer`; two kinds of `Waits` |
| `ssh/agent.go` | a listener, the goroutine that accepts, the connections, two channels, a temp folder | `SshAgentWithKeyPair(s)(E)`, `Stop` | `SshAgent` |
| `logger/parser/` | the stack of result markers, the name of the previous test, the open log files; a tee and a pipe between two goroutines | `SpawnParsers` | `LogParser`, `LogPipeline` |
| `test-structure/` | the files of `.test-data`, the copied folder, the `SKIP_` variables | `RunTestStage`, `CopyTerraformFolderToTemp`, `Save*`, `Load*` | `TestStages` |
| `k8s/config.go`, `service_account.go` | kubeconfig files | load, change, write back | `KubeConfig` |
| the waits of `k8s/`, `aws/`, `http-helper/` | none of their own: the world's | `WaitUntil...`, `WaitForCapacity`, `GetSyslogForInstance`, `HttpGetWithRetry...` | `Waits` |
| `aws/sqs.go` | a queue | create, send, wait, delete | `Queue` |
| `aws/s3.go` | a bucket, versioned or not | create, version, empty page by page, delete | `Bucket` |
| `aws/ami.go`, `ebs.go` | images and snapshots | `DeleteAmiAndAllSnapshots` | `Images` |
| `gcp/compute.go` | metadata and labels of an instance and their snapshots in structs; an instance group | `SetMetadata`, `AddSshKey`, `SetLabels`; `GetInstances`, `GetPublicIps`, `GetRandomInstance` | `Metadata`, `InstanceGroup` |
| `region.go` of three clouds, `collections`, `random` | none | picking at random with lists and overrides | `Regions` |
| other files of `aws/`, `gcp/`, `azure/`, `oci/`, `k8s/` rbac | none | one request, one returned or picked result | not modelled |
| `helm/`, `docker/`, `git/`, `k8s/kubectl.go` | temporary files | one shell command each | not modelled: see `Shell` |
| `.circleci/`, `aws/`, `gcp/`, `ibm/` | | declarative | not modelled |
| `examples/`, `test/`, `test-docker-images/` | fixtures and tests | | read as callers of the library |

### 1.2 How they interact

- Nearly every wait of the library is a call of `retry` with an action of its
  own. Its promise is a specification (`RetryContract`); `Retry` is shown to
  implement it, and `Waits` is built on the promise and not on the loop.
- Every external program is run through `shell`. Its promise is
  `ShellContract`, which `Shell` is shown to implement; `Terraform` and `Packer`
  take a command as one step with an outcome because of it.
- Tests run in parallel in one process and share what is package-wide or
  outside: the mutex of the tunnels, the counter of ports and the
  `DefaultServeMux`, the ports of the host, the kubeconfig of the home
  directory, a Terraform folder, a queue, a bucket, images, an instance.
  Goroutines outlive the calls that started them.
- The stages of a test talk to each other through files only, over several
  processes and through crashes.
- A cloud changes between any two requests of one call, and any request fails.
- The log parser runs after the tests, in a process of its own, on their output.

### 1.3 What is hard, and what makes each part correct

| part | hard because | correct when |
|---|---|---|
| retry | one loop serves three kinds of outcome and two filters; budgets of 0 and below; the deadline races the result; `Done` races the timer and a loop that is gone | an answer says what the attempts call for; calls and goroutines end; no action after `Done` |
| tunnel | a port is probed, given back and bound again while others look for one; a global lock is held during network I/O; a tunnel may be tried again after an error | no test reaches another's pod; every call returns; `Close` gives the port back |
| shell | two readers append to what may be one slice; a full pipe blocks the child; `Wait` closes the pipes | the output is complete and in order; the child is reaped; the call returns |
| terraform | several commands per call, each retried, in a folder others may use; an exit code that is no exit code; names taken as regular expressions | no error means that the call has done what it is for |
| packer | goroutines write a slice and a map without a lock | what the call answers is what the builds came to |
| ssh session | up to four things to open, any of which fails; one session reused for many files | what was opened is released; no error means that every file was tried |
| folders | the original holds state of earlier work and is in use while it is copied | the copy has all the code and nothing of another test |
| http helpers | a full buffer, a stop signal at any moment, deferred calls in reverse order; ports and handlers shared by the process | downtime is reported exactly when there was some; a test reaches its own server |
| ssh agent | `Accept` blocks, errors of it are retried, connections come while `Stop` runs | `Stop` returns and leaves nothing behind |
| log parser | nesting is known from indentation only; parallel tests interleave; any write to a log may fail; a pipe couples two goroutines | each log has its lines in order, and what it lacks an error has told; the pipe neither loses a line nor deadlocks |
| test stages | a crash between any two steps, failing saves, stages spread over processes | what is deployed can always be found and torn down again |
| kubeconfig | read without a lock, changed in memory, written back entry by entry; any write failing | edits that overlap leave a usable file; a test that copies loses nothing to others |
| waits | the world changes between checks, and after the last one | the answer is that of the last reading; what was waited for can be used |
| cloud calls | pages, cycles and snapshots of a resource that changes meanwhile | each answer is true of the resource; each call comes back |

`PROJECT.json` lists 40 hazards by line. Four have no property that would catch them:
the agent that an error leaves behind (agent.go:133), the dropped rest of a wait
(sqs.go:230), the fallback of stable regions (region.go:52) and the pairs that
`newMetadata` loses (compute.go:275). They are facts of the code that the models have,
that the properties take as given or except by name, and that section 6 lists.


## 2. The modules

Each module has the state of its part as VARIABLES, one action per step of the
code that others can observe, and its properties at the end. `MC...` modules give
the constants of a run. `RetryHelpers`, `Commands`, `Servers`, `Kube` and `Cloud` put
components side by side that one run checks: one variable (`helper`, `tool`, `used`,
`part`, `service`) says which of them a behaviour uses, the others stay as they began,
and each keeps its own fairness. `LogPipeline`, `Waits` and `RetryContract`/`Retry`
compose components that do share state.

The theorems stand in a module per group of components that run together:
`Retry_proofs`, `Commands_proofs`, `Servers_proofs`, `LogParser_proofs`,
`TestStages_proofs`, `Kube_proofs` (with the tunnels) and `Cloud_proofs`.
`OrderLemmas` has what several of them need of numbers.

### 2.1 Retrying

**`RetryContract`** is the abstract promise: the attempts so far (`tried`) and
one `answer`, which depends on the attempts alone. An attempt is `Conclusive`
when it succeeded, failed with a `FatalError`, or matches none of the
retryable patterns.

**`Retry`** (extends it) is the code: `CompileRegexps` and the closure of
`DoWithRetryableErrorsE` (`FilteredError`), the for loop of `DoWithRetryE` with
its type switch (`Attempt`, `Succeed`, `GiveUp`, `SleepAndRepeat`, `RunOut`). An
action may return any text with any error. Texts stand for outputs and error
messages alike, and a pattern for the set of texts it matches. The refinement is
the identity on `call`, `tried`, `answer`: the loop variables are hidden.

**`Timeout`** has for each call the caller in its select, the goroutine of the
action, the channel with its buffer of one (`Capacity`) and the deadline. An
action may never return. **`Background`** has for each test its loop and the
calls of `Done`; the select takes the timer or the stop, whichever it likes; an
action may end its goroutine by failing the test (`ActionExits`), as the action of
`test/terraform_redeploy_example_test.go:162-166` does through `t.Fatal`.

**`Waits`** (extends `RetryContract`) has ten kinds of waits: what a reading of the
world may give, the predicate of the code that decides it (`IsServiceAvailable`,
`AreAllNodesReady`, `CapacityIsMet`, ...), and an environment that changes the world
between any two readings. A check is one attempt of the contract (`TryOnce`, whose
result `CheckResult` fixes) and the answer is `Conclude` or `Exhaust` of the
contract. `ReadAgain` is the second reading of `GetServiceEndpointE` and
`GetServiceAccountAuthTokenE` (the host that `GetServiceEndpoint` gives is empty for a
node of AWS without a public address, as ec2.go:160-163 maps it, and for a load balancer
without a host name), `EndTest` the request in the wait for a token that
fails the test instead of the attempt.

### 2.2 Commands

**`ShellContract`** is the promise of a command: it returns all that the child wrote
and reaps it, or the beginning of each stream after a scanner error. **`Shell`** has the
caller, the two reader goroutines and the child. Appending to a slice is two steps
(read it, write the longer one back): that is what the mutex is for. A pipe is full at
`PipeSize` lines and blocks the child; a line may be longer than the scanner takes. Its
refinement forgets the readers, pipes and mutex, and counts the lines of each stream.

**`Terraform`** has the commands of each call as a sequence (`Program`), the folder, and
per command `Succeeds`, `Fails` (worth a retry or not; `apply` and `destroy` may have
done their work nevertheless), `PlanExitCode` and `ReadOutput`. `MatchedBy` is what a
workspace name means as a regular expression. `OtherTest` works in the same folder if
the test has not copied it. `init -upgrade`, variables and back ends are arguments, and so data.

**`Packer`** splits the unlocked `append` and the unlocked map write of the goroutines in
two, with the outcomes that a data race has in Go: an error that gets lost, a slice
whose words are mixed ("undefined"), a runtime that notices two map writers ("crashed").

**`SshSession`** opens in order what `setUpSSHClient` and `setUpSSHSession` open, and keeps apart
what is open (`open`, numbered) and what the session refers to (`refers`): that is
what `Cleanup` can close. Six calls share it, a directory opens a client per file.

**`Folders`** copies a tree entry by entry from the listing it has read, depth first,
while the original changes. The original may hold state, variables and hidden files at
any depth before the copy begins (`FoldersWithCode`): that is what the filters are for.

### 2.3 Goroutines that serve a test

**`Tunnel`** has the calls of `ForwardPortE` step by step (`Begin`, `Attach`, `Probe`,
`EndProbe`, `Lock`, `StartForwarder`, `TakeError`, `TakeReady`), the goroutine of
client-go's forwarder (external: `Dial`, `Listen`, `EndService`, as `tunnel.go` uses
it: it closes the ready channel when it listens and returns an error or nil), `Close`,
and the world: other processes take and leave ports, pods come and go. `defer
globalMutex.Unlock()` is part of `ReturnError` and `ReturnNil`.

**`ContinuousCheck`** has the goroutine, with the two deferred calls as steps of
their own in their order, and the test as `http_helper/dummy_server_test.go` and the
doc of `ContinuouslyCheckUrl` have it: read or not, signal, read to the end, wait, shut
the server down. **`DummyServer`** has the calls of parallel tests, the counter, the
`DefaultServeMux` and the listeners. Registering a path twice ends the process
(`dead`), as `http.HandleFunc` panics.

**`SshAgent`** has the caller's steps (`MakeDir`, `Listen`, `AddKeys`, then `Stop` as
`CloseStop`, `CloseListener`, `AwaitStopped`, `RemoveDir`), the loop of `run`, its
deferred calls in order, and the connections with their `ServeAgent` goroutines. A key
that does not parse is an error, one that is no PEM panics and ends the process with all
tests in it (`Running`).

### 2.4 Tests as a whole

**`LogParser`** reads one line per step. A line is what the regular expressions tell
apart: its kind, its indentation, the test it names. `Targets` is the switch of
`parseAndStoreTestOutput`, `RemoveDedented` the popping of markers, `WriteLogs` the
`LogWriter` with its `lookup` of open files. A log may be one that cannot be opened, and
any single write may fail: the code logs the error and goes on (`failed`). **`LogPipeline`** extends it by the
`TeeReader`, the `io.Pipe`, the junit goroutine (its parser is external) and the
deferred calls of both: each of its steps that stores a line *is* a `ReadLine`.

**`TestStages`** has a developer who starts up to `MaxRuns` processes, one after the
other, each with any stages skipped. The stages are those of
`test/terraform_ssh_example_test.go`; each call (`create`, `save`, `write`, `load`,
`apply`, `check`, `destroy`, `delete`) may fail, `save` and `write` are the truncation
and the write of one `WriteFile`, and the process may die between any two. A failed
call drops the rest of the test but not the deferred teardown (`Deferred`).

### 2.5 Resources that tests share

**`KubeConfig`** has a file per path, and tests that edit the one of the home directory
or a copy. An edit is `Load`, then one of `NothingToDelete`, `LastContext`, `EditFails`,
or a save of what `Edited` makes of the config in memory: another test's save in between
is overwritten. `clientcmd.ModifyConfig` of client-go is external, and modelled as it
writes: it takes a lock file, which only its callers look at (`ModifyConfig`,
`BeingSaved`), and brings the file to the new config one entry per write (`Write`): first
what is to be set (`Sets`: current context, clusters, contexts, users), then what is to go
(`Drops`: clusters *before* contexts, then users). Each write truncates the file. A reader
takes no lock, and so finds any state in between or an empty file (`Views`). A write
may fail and leaves the file as it is or empty (`SaveIsCut`). A nil entry, from
`RemoveOrphaned` in a config that lacks what its contexts name, or from an `add` whose
current context is not there, ends the process (`NilIsLookedUp`, `Panic`). `history` notes,
for the properties alone, what has befallen a file.

**`Queue`** cuts a timeout into cycles and counts the seconds waited; the service hides
what it hands out and may show it again. **`Bucket`** has versions and delete markers, listings in
pages that begin behind a key marker, and deletes that the service may refuse silently.
**`Images`** lists, deregisters and deletes in the order of the code, for
images that share a snapshot. **`Metadata`** has the service's metadata or labels with a fingerprint, and
structs that are old. **`InstanceGroup`** lists in pages while the group scales, compares with
the size of an old struct and fetches what it `wanted`: all, or one it has drawn. **`Regions`** is the choice of seven functions as sets to pick from.


## 3. What the runs show

Every run finishes without an error but the four marked as a violation.

| run | instance | distinct states | what it checks |
|---|---|---|---|
| `retry` | 2 texts, budgets -1..2, all patterns; 2 calls with a deadline; 2 loops, 2 `Done`s each | 4,610 | `HelpersTypeOK`, `AnswerIsEarned`, `AnswerIsTrue`, `QuietAfterDone`, `LoopKeepsContract`, `NobodyIsStuck` |
| `tunnel` | 2 tunnels (a service and a pod), 2 ports, 1 pod, 2 calls each | 67,956 | `TypeOK`, `EndpointIsMine`, `CallsReturn`, `CloseFreesPort` |
| `commands` | 2 lines per stream, pipes of 1 line, long lines; 1 retry, 3 workspaces; 3 builds; 3 remote files; a tree of depth 2 with any state in it | 73,006 | `TerraformIsDone`, `BuildsAreAnswered`, `SshCallsEndWell`, `CopyIsClean`, `KeepsContract`, `ReturnsUnlessTooLong` |
| `servers` | 3 servers, 2 paths, one shared; an agent with 2 connections, one with a bad key; 4 requests, a buffer of 2 | 22,045 | `OwnAddress`, `StopCleansUp`, `DowntimeIsTold`, `StopsEnd` |
| `log` | 2 tests (one log cannot be opened), any write failing, 3 indentations, outputs of up to 3 lines in chunks of up to 2 | 1,255,554 | `MarkersAreOpenBlocks`, `Routing`, `NoLineLost`, `Returns` |
| `test_stages` | 4 processes | 263,742 | `TypeOK`, `DeploymentIsRecorded`, `FailuresAreCleanedUp` |
| `kube` | 2 tests, one of which may copy, 3 edits in all, a home config of 2 contexts, 2 clusters and a user nobody needs; 10 kinds of waits, budgets -1, 0, 2 | 877,342 | `KubeTypeOK`, `ConfigIsSound`, `OwnEditsLast`, `WaitIsHonest`, `SecondReadingFinds` |
| `cloud` | 2 receivers and 2 messages; 3 keys, 3 writes, pages of 2; 2 images that share a snapshot; 2 tests on one instance; 3 instances in pages of 2; 3 regions and 3 zones | 118,201 | `CloudTypeOK`, `QueueAnswersAreTrue`, `EmptiedIsEmpty`, `ImagesAreDeleted`, `GroupAnswerIsWhole`, `PickIsAllowed`, `PairsAreKept`, `CloudCallsReturn` |
| `background_fatal` | 2 tests | violation | `DoneReturns` |
| `tunnel_ports` | 2 tunnels | violation | `SelectionsDiffer` |
| `s3_leftovers` | as `cloud` | violation | `AnyBucketIsEmptied` |
| `scp_errors` | as `commands` | violation | `CopyErrorsAreReturned` |

What the properties say, and why they may be doubted:

- `AnswerIsEarned`: `MaxRetriesExceeded` means that the whole budget was spent on
  errors worth a retry, any other answer reports the *first* attempt that was not.
  The two layers (filter and type switch) have to agree about a `FatalError` that
  matches a pattern, which they do: it is final. `LoopKeepsContract` is the refinement
  of `RetryContract`, with its termination.
- `AnswerIsTrue`, `NobodyIsStuck`: a late result meets a caller that is gone; the
  buffer of one (retry.go:38) is what keeps the goroutine from blocking forever. A
  `Done` meets its loop unless the loop is gone.
- `QuietAfterDone`: after `Done` the action neither runs nor will run, so a test may
  destroy what it talks to. It rests on the channel having no buffer.
- `EndpointIsMine`: the port is free between `EndProbe` and `Listen`, anybody may take
  it, and the tunnel may be called again with the port of a failed call. A call still
  never reports success on a listener that is not its own. `LockDiscipline`, which is
  proved, covers the *first* call of a tunnel only, on purpose: after a failed call
  `localPort` is no longer 0, so the next call skips the probe *and* the lock
  (tunnel.go:199). `CallsReturn` covers them all.
- `CloseFreesPort`: once closed, from some time on the tunnel owns no port, for good.
- `KeepsContract`: every line the child wrote is stored and printed once and in
  order, before the exit status is asked for, and the child is reaped.
- `TerraformIsDone`: no error means that every command of the program succeeded, the
  deployment is there (or gone), the exit code is that of the plan, and the workspace
  is the one asked for, although `isExistingWorkspace` may take another name for it.
  A plan that did not start is the exception, and another test in the folder.
- `BuildsAreAnswered`: `nil` exactly if no build failed, an answer that is one artifact or
  one error does not get lost. What a race can cost is the second error or the process.
- `SshCallsEndWell`: whatever step fails, no session and no connection to a jump host
  stays open. It names what does stay: sockets of agents, the local files of a
  directory, and all but the last client of its files.
- `CopyIsClean`: a copy of a folder in which Terraform has run before, made while another
  test works in it, has all the code and no state and no hidden file at any depth.
- `OwnAddress`, `DowntimeIsTold`: a test reaches its own server; it fails exactly if some
  request did not get a 200, also if its response was dropped; shutting the server down
  makes no downtime. `StopCleansUp`: nothing of an agent is left, also of a
  connection that arrives while `Stop` runs. `StopsEnd`: both handshakes end.
- `Routing`: each log that could be opened holds only lines that belong to it, in order
  and with nothing of an older run, and one is missing only if its write failed, which
  an error says, or if it is an `Orphan`. `Belongs` defines "its lines" from the whole
  output, without the parser's stack, and as the comments mean it: a line without a
  name is of the block it is in, or of the test whose output it continues
  (parser.go:152-153). An indented one in no block is written nowhere against that
  comment: the exception has a name and stands in section 6. `MarkersAreOpenBlocks`
  defines the stack from the whole output likewise.
- `NoLineLost`: the junit report and the logs are made from the same lines, and both
  are complete when the call returns.
- `DeploymentIsRecorded`: whatever died or failed in whatever process, what is deployed
  from the original folder has its options and key pair in `.test-data`. It rests on
  the order in the setup: saves come before apply, so that a setup whose save failed
  deploys nothing.
- `ConfigIsSound`: edits of a shared file get lost to stale saves, but these alone never
  leave a context without its cluster or user, or a current context that is gone, once
  nobody writes. Two events can: a save that ends half way ("cut"), and an edit that loads
  an unusable file amid a save ("torn"), which writes back what it has read. Only
  after one of them does an edit look into a nil entry and end the process. Both
  happen in the run; without the two exceptions TLC refutes the property.
- `OwnEditsLast`: a context that was added is there until somebody deletes it, but for a
  stale or a cut save; a copy of a test's own sees no stale one, and no temporary file
  outlasts its test. That nobody else writes the copy is given, since no other test knows
  its path; that the edits themselves, written entry by entry, lose nothing is not.
- `WaitIsHonest`: success means that the *last* reading was what the wait is named for
  (`WaitedFor`, stated without the code's predicates) and no earlier one was; an error,
  that every check of the budget was made. `SecondReadingFinds`: the call after the wait
  can use it if the world stood still. Five exceptions are named: three give an error, two
  an endpoint without a host and no error, against service.go:103-105 and 186-188.
- `QueueAnswersAreTrue`: what a sender was told is in the queue, and a wait gives up no
  earlier than one cycle before its timeout, and never later.
- `EmptiedIsEmpty`: a bucket with one version of each key is empty afterwards, however
  many pages it took. `AnyBucketIsEmptied` drops that condition and fails (section 6).
- `ImagesAreDeleted`: `nil` means that image and snapshots are gone, and an error is
  somebody else's: the order of the calls never makes the service refuse.
- `GroupAnswerIsWhole`: an instance that was in the group all the time is in the answer,
  whatever came and went between pages; a random one is drawn from a listing that is as
  whole and that has the expected size.
- `PickIsAllowed`: nothing forbidden is picked, but for the fallback of stable regions.
- `PairsAreKept`: adding metadata from a struct however old never takes a pair away, and
  setting labels none that the struct does not have, because of the fingerprint. `CloudCallsReturn`: no loop over pages or cycles is endless.

### 3.1 Bounds

- *Two of a kind* (calls, tests, tunnels, agents, receivers, cleaners) suffice for a
  race of a pair; the state they share is a lock, a port, a mux, a file, a channel or a
  resource, and the third would wait, or overwrite, where the second does. There are three
  dummy servers, to have both kinds of server and two that overlap, and three packer
  builds: two that race for one write while the third succeeds or fails. What the safety
  properties say is proved for any number of them (section 4).
- `MaxCalls = 2` lets a tunnel run again after an error, when its port is no longer 0:
  a third call starts from the same state as the second.
- Two ports for two tunnels: both can be free, taken by a tunnel or taken by others.
- Budgets -1..2 (-1, 0, 2 for waits): no attempt, one, and a loop that repeats twice.
  Proved for all.
- Two lines per stream through a pipe of one: a full pipe, an interleaving of both
  streams and an order within one.
- `TfRetries = 1`: a command fails for good at the first and at the last attempt.
  Workspaces `default`, `abc`, `a.c`: one that exists always, and one whose name matches
  another's but not conversely.
- `MaxRemoteFiles = 3`: a first, a middle and a last file, each with its own client.
- `Tree` and `Volatile`: code, variables, a link, a folder; state at the top and in a
  folder; a hidden folder with something in it.
- `MaxChecks = 4` over a buffer of 2: the buffer is full and responses are dropped.
- `MaxEdits = 3`: an edit that saves, one that loads amid or before that save, and one
  that works on what the two have left. One test copies, the other works in the home file.
  The home config has two clusters, so that a delete takes one away, and a user that no
  context names, so that it takes that one too.
- Three lines at indentations 0, 4, 8: a result, one nested in it and a line that
  closes either or both. The stack, the routing and the pipe are proved for all outputs.
- `MaxRuns = 4`: a setup, a validate, a teardown, and one process that dies between
  any two of them.
- `Timeouts = {0, 2, 39}`: no cycle, cycles of one second, one cycle of twenty and a rest.
- `MaxKey = 3`, `PageSize = 2`, `MaxWrites = 3`: two pages, and a page that ends within the
  versions of a key. `MaxSets = 3`, `MaxScalings = 2`: a struct that is two changes old; an
  instance that leaves and comes back.

`CHECK_DEADLOCK FALSE` stands where the code really stops: each of these programs is
a call or a test that returns. That it does not stop early is what the liveness
properties say.

### 3.2 Fairness

Weak fairness of a goroutine's step: Go's scheduler runs what can run, and the
operation it waits for (a timer, a dial or a request with a timeout) comes back. For
the calls on a cloud that is all: `Poll`, `Emptying`, `CleanerStep` and `GroupStep` are
"the request that was made returns, with an answer or an error".
Strong fairness stands in three kinds of place only: `Lock` and `LockOutput`, because
a `sync.Mutex` hands itself over to a waiter after a millisecond (its starvation
mode), and `Handover` and `TakeStop`, because `select` chooses at random among the
ready cases and so does not pass over one forever. No fairness makes an action of a
caller return, a test call `Done`, `Stop` or signal, or the clouds and the host do
anything. A child process is assumed to go on to its exit when its pipes let it
(`Shell`): a child that hangs makes `RunCommand` hang, by design. In a module that puts
components side by side the fairness of a component is assumed only of
behaviours that use it.


## 4. What is proved

Every safety invariant and every action property that a passing run checks is stated by a
theorem, proved for all values of the constants. What the runs contribute beside it are
the liveness properties, and the mutants that show what each property is sensitive to.

The assumptions are named in the modules (`RetryAssumption`, `TunnelAssumption`,
`FoldersAssumption`, ...), and TLC evaluates each of them in a run. They say that

- numbers are numbers and sizes are not zero, and that special values differ from
  ordinary ones;
- sets of builds, calls, instances and metadata items are finite (a goroutine, a port or a
  request is made for each);
- a tree to copy has its code outside of hidden folders and state files, each entry in a
  folder of it; what comes and goes there is state or hidden. That is what "the code" of a
  Terraform folder means;
- the kubeconfig of the home directory can be used before the tests start; it may hold
  clusters and users that no context names.

| theorem | states | along |
|---|---|---|
| **`Retry_proofs`** | | |
| `TypeCorrect` | `Safety => []TypeOK` | |
| `AnswersAreEarned` | `Safety => []AnswerIsEarned` | `IInv == TypeOK /\ LoopInv /\ AnswerIsEarned` |
| `AttemptsArePaced` | `Safety => Paced` | the same before each step |
| `ImplementsContract` | `Safety => ContractSafety` | a step of the contract or a stutter, under `IInv` |
| `HelpersTypeCorrect` | `HelpersSpec => []HelpersTypeOK` | the three invariants |
| `TimedAnswersAreTrue` | `HelpersSpec => []AnswerIsTrue` | `TimedIInv` with `ResultIsSomewhere` |
| `DoneMeansQuiet` | `HelpersSpec => []QuietAfterDone` | `BackgroundIInv` with `DoneStopsTheLoop` |
| `LoopIsNotDisturbed` | `HelpersSpec => ContractSafety /\ []AnswerIsEarned /\ Paced` | `HelpersSpec => Safety` |
| **`Commands_proofs`** | | |
| `CommandsKeepTheContract` | `CommandsSpec => KeepsContract` | `ShellIInv` with `PipesInOrder`, `OutputInOrder`, `LinesCounted`, `Locked`, `Phases` |
| `TerraformCallsAreDone` | `CommandsSpec => []TerraformIsDone` | `TfIInv` with `ProgramCounted`, `DoneLasts` |
| `RacingBuildsAreAnswered` | `CommandsSpec => []BuildsAreAnswered` | `PackerIInv` with `FailedSoFar`, `WritesAreTheirs` |
| `SshLeavesNothingOpen` | `CommandsSpec => []SshCallsEndWell` | `SshIInv` with `OpenIsReferred`, `NotYetOpen`, `CopyProgress` |
| `CopiesAreClean` | `CommandsSpec => []CopyIsClean` | `FoldersIInv` with `StillToCome` |
| **`Servers_proofs`** | | |
| `HttpTypeCorrect` | `Spec => []TypeOK` | `HttpIInv` with `CounterInv`, `MuxInv`, `OwnerInv` |
| `PortsAreUnique` | `Spec => []PortsUnique` | the same |
| `AddressesAreOwn` | `Spec => []OwnAddress` | the same |
| `AgentTypeCorrect` | `AgentSafety => []AgentTypeOK` | `AgentIInv` with `DirInv`, `PhaseInv`, `ConnInv` |
| `StoppedAgentsAreGone` | `AgentSafety => []StopCleansUp` | the same |
| `DowntimeIsNoticed` | `ServersSpec => []DowntimeIsTold` | `CheckIInv` with `FailedInv`, `SentInv`, `OrderInv` |
| `ServersTypeCorrect` | `ServersSpec =>` the three type invariants | |
| `ServersAndAgentsStayApart` | `ServersSpec => [](OwnAddress /\ StopCleansUp)` | `ServersSpec` implies each part's specification |
| **`LogParser_proofs`** | | |
| `TypeCorrect` | `Spec => []TypeOK` | |
| `StackIsOpenBlocks` | `Spec => []MarkersAreOpenBlocks` | `IInv == TypeOK /\ MarkersAreOpenBlocks` |
| `LinesReachTheirLogs` | `Spec => []Routing` | `IInv` and `RoutingIInv` |
| `PipelineRunsParser` | `PipelineSpec => Spec` | a step of the parser or a stutter |
| `NothingIsLost` | `PipelineSpec => []NoLineLost` | `PipelineIInv` with `Flow`, `SplitterIInv`, `ReporterIInv` |
| **`TestStages_proofs`** | | |
| `StagesTypeCorrect` | `Spec => []TypeOK` | `IInv` with `CallsInOrder`, `NextIsPrepared`, `CopyIsOwn`, `CleanSoFar` |
| `DeploymentsStayRecorded` | `Spec => []DeploymentIsRecorded` | the same |
| `TestsCleanUp` | `Spec => []FailuresAreCleanedUp` | the same |
| **`Kube_proofs`** | | |
| `TunnelTypeCorrect` | `Safety => []TypeOK` | |
| `EndpointsAreOwn` | `Safety => []EndpointIsMine` | `TunnelIInv` with `PhaseInv`, `ReadyInv`, `PortInv` |
| `LockIsDisciplined` | `Safety => []LockDiscipline` | the same |
| `FreedStaysFree` | the safety half of `CloseFreesPort` | the same and `StopInv` |
| `KubeTypeCorrect` | `KubeSpec => []KubeTypeOK` | `ConfigIInv` and `WaitsIInv` |
| `ConfigsStaySound` | `KubeSpec => []ConfigIsSound` | `ConfigIInv` with `FileIsSound`, `MemoryIsSound`, `EditIsGiven`, `LockIsExclusive` |
| `CopiesArePrivate` | `KubeSpec => []OwnEditsLast` | the same with `CopyIsPrivate`, `KeptIsThere` |
| `WaitsAreHonest` | `KubeSpec => []WaitIsHonest` | `WaitsIInv` with `ChecksAreReadings` |
| `SecondReadingsFind` | `KubeSpec => []SecondReadingFinds` | the same with `SecondReading` |
| `WaitsKeepTheContract` | `KubeSpec => ContractSafety` | a step of the contract or a stutter |
| **`Cloud_proofs`** | | |
| `CloudTypeCorrect` | `CloudSpec => []CloudTypeOK` | the invariants of the services |
| `QueueIsHonest` | `CloudSpec => []QueueAnswersAreTrue` | `QueueIInv` with `CyclesAreCounted` |
| `EmptyingWorks` | `CloudSpec => []EmptiedIsEmpty` | `BucketIInv` with `RestLiesBehind` |
| `CleaningWorks` | `CloudSpec => []ImagesAreDeleted` | `ImagesIInv` with `SnapshotsAreListed` |
| `GroupsAreWhole` | `CloudSpec => []GroupAnswerIsWhole` | `GroupIInv` with `GroupIsListed` |
| `PicksAreAllowed` | `CloudSpec => []PickIsAllowed` | `RegionsIInv` with `RequestIsKnown` |
| `SettingKeepsPairs` | `CloudSpec => PairsAreKept` | `HandlesAreSnapshots` before each step |

The theorems about `HelpersSpec`, `CommandsSpec`, `ServersSpec`, `KubeSpec` and `CloudSpec` are
about the specifications the runs check. Each rests on a lemma that a step of the whole is
a step of one part and leaves the others alone (`StepIsOfEachPart`,
`CommandsStepIsOnePart`, `KubeStepIsOnePart`, `CloudStepIsOneService`, ...), which carries the
invariant of a part over.

### 4.1 Why the invariants are what they are

**Retry.** `AnswerIsEarned` speaks of finished calls and is not inductive. `LoopInv` adds
what holds on the way: the counter counts the attempts and the sleeps, all earlier
attempts were worth a retry, `output` and `err` are those of the last one. The lemma
`SeenErrorAgrees` is where the filter and the type switch meet: together they find an
attempt final exactly if the contract calls it conclusive. For `Timeout`,
`ResultIsSomewhere` follows a result from the goroutine through the channel to the caller,
so that the caller cannot answer with one that nobody made. For `Background` it is
enough that a `Done` returns only by stopping its loop: the channel has no buffer.

**Shell.** The refinement counts lines, and so does the invariant: of each stream,
the lines written are those in the pipe, the one a reader holds and those stored, in this
order (`PipesInOrder`, `LinesCounted`). That the output has line k of a stream after line k-1
is a matter of places in a sequence, where two streams mix: `NumbersInOrder` says that
appending the next line keeps the numbering, whatever the other stream has stored in
between. `Locked` is why no line is overwritten: a reader between reading the slice and
writing it back holds the mutex, and the slice is still what it read.

**Terraform.** The commands that have succeeded are a beginning of the program, and what
they brought about lasts while later ones fail and are retried (`DoneLasts`); this needs
that the other test works in the folder only if it is shared, and never undoes an init.

**Packer.** However the unlocked reads and writes interleave, what is written are errors of
builds that failed and entries of builds that did not, and the last writer keeps at least
its own (`WritesAreTheirs`): an error can lose another one but never all.

**SshSession.** What is open and what the session refers to are two things; `OpenIsReferred`
says that they differ only in what the property names, and `NotYetOpen` that a call which
connects once never overwrites what it refers to.

**Folders.** `StillToCome`: code that is not in the copy yet is in a listing of the stack, or
below a folder that is itself still to come. When the stack is empty, a shortest missing
path would have a missing parent: hence all is there (`LeastNatural`).

**DummyServer.** That the counter stays in range is a matter of counting: `CounterInv` says
that it is `Base` plus the number of calls that are not new, and `StartOne` that this
number is below the number of calls while one of them is. Ports are unique because
all that were handed out are at most the counter. `MuxInv` says that what a call has
registered is its own: `Register` panics rather than replace a handler.

**SshAgent.** `PhaseInv` couples `Stop` and `run`, which wait for each other: the loop leaves
only after the stop channel is closed, and `Stop` goes on only when the loop is gone.
`ConnInv` says where a connection can be: one that waits needs an open listener, which
`Stop` closes before it waits, and one that was accepted a loop that has not left.

**ContinuousCheck.** `FailedInv` separates the moment between a bad response and its report;
`SentInv` says that what the test has got and what the channel holds are all responses, but
for the one to be sent, as long as they fit; `OrderInv` who waits for whom.

**LogParser.** `MarkersAreOpenBlocks` compares the stack with the whole output, so one line
must be shown to close and open the same blocks in both. `RemoveDedentedNested` gives
the stack's side (an ordered stack keeps the markers that are indented less, and
those only) and `OpenAfterLine` the output's. That popping from the top stops at the
right place needs the least index above which all are indented more. `Routing` adds to
it that the switch sends a line to those it belongs to, orphans apart (`GoesToOwners`, `TargetsAreOwners`), that `previousTestName` is the name that the output as a whole gives the next line
(`Current`), and that a file is open exactly if its log can be opened and a line was to go there.

**LogPipeline.** `Flow` counts lines: read and not yet stored, in the pipe, and not yet
read add up, wherever the two goroutines are; the wait group counts who is still to leave.

**TestStages.** The properties are about what several processes leave behind, the invariant
about the one that runs: the calls to come are in the order of the code (`CallsInOrder`,
with `Follows` from the texts of the stages), and the next of them finds what those before
it have prepared (`Prepared`: setup saves all before it applies, teardown gets to the key
pair only after destroy). `CleanSoFar` is what a process that skips nothing can rely
on until its end: its teardown finds all that it has made.

**Tunnel.** `EndpointIsMine` is not inductive, because it does not say that nobody else
listens on the port. `PortInv` says that a tunnel owns only the port it chose, and
only while it probes or serves; `PhaseInv` couples the call and its forwarder (a call
that is not waiting or open has no live forwarder, so a repeated call never has two);
`ReadyInv` says that a forwarder reports no error only once it was ready, which is
what makes `TakeError` with a nil error a success. `FreedStaysFree` needs besides that a
closed tunnel is not called again (`StopInv`).

**KubeConfig.** While a file is written it need not be usable, and `FileIsSound` does not
say so. What carries soundness over a save is the memory of the one that saves
(`MemoryIsSound`): the edit makes a usable config of a usable one, however old
(`WithoutIsConfig`, `WithContextIsConfig`, `EditedIsConfig`), and when nothing is left
to write the file is that config. The lock among writers is what makes one save end
before the next begins (`LockIsExclusive`). A load finds a usable config unless it is a torn
one (`ViewsAreSound`), which `history` notes, and a nil entry can only be met with an
unusable memory. In a copy the memory is what the file still holds (`CopyIsPrivate`),
as nobody else writes it; what was kept is in the file, or during a save in the memory of
the one that saves (`KeptIsThere`).

**Waits.** Built on the contract: `ChecksAreReadings` says that a failed attempt is the check of
a reading that was not what was waited for. `WaitedFor` is stated without the code's
predicates, so that for each kind the predicate has to be shown to decide it.

**Queue, bucket, images, metadata, group, regions.** A receiver has waited for the whole
length of each cycle behind it, and cycles fit into the timeout (`CyclesFit`). What is
left in the bucket lies behind the key marker, because a page is a beginning of what is left
in the order of keys (`NextKeyMarkerIsLast` and the lemmas on pages after it). A cleaner that is
about to deregister has listed every snapshot of its image. A struct with the current
fingerprint has the current items, so that what the service accepts was computed from
what it has; `SetToSeqHasAll` shows of the request that it has all of the pairs. The
instances that stay and lie before the marker are collected, and what is drawn at random
comes from the list of which the size was compared (`GroupIsListed`).

**Least elements.** Popping, pages, copying and routing need the first or the last of
some numbers. Induction over data is not available to the provers here, so `OrderLemmas`
derives least elements from the library's theorem that strict inclusion of finite sets
is well-founded.

Three modules were reshaped for the proofs without a change of what they say:
`TestStages` (`Unless`, `Deferred` instead of a filter of sequences), `Shell`
(`Own`, `Places` in the mapping) and `Metadata` (`TakesWhatItHasSeen` names the step
property). Types became exact where they had been loose (`Waits`, `Timeout`, `KubeConfig`).


## 5. What is only model-checked

- The liveness properties `NobodyIsStuck`, `CallsReturn`, `CloseFreesPort` (beyond
  `FreedStaysFree`), `ReturnsUnlessTooLong`, `StopsEnd`, `Returns`, `CloudCallsReturn`, and the
  liveness half of `LoopKeepsContract`, the refinement of `RetryContract`: its safety half is
  `LoopIsNotDisturbed`. The prover does not do liveness under fairness.
- The four violations are traces of TLC.
- Conversely `Paced` (retry), `LockDiscipline` and `FreedStaysFree` (tunnel), `PortsUnique`
  (dummy server), `WaitsKeepTheContract` (waits) and `PipelineRunsParser` (log) are stated by
  theorems alone.


## 6. Where the code and its words differ

Four runs end in a counterexample, and `PROJECT.json` has them as findings.

- **`Done` may never return** (`background_fatal`). retry.go:145 tells to stop the action
  by calling `Done`. An action that fails the test with `t.Fatal` ends the loop's
  goroutine through `runtime.Goexit`; `Done` then sends to a channel nobody receives
  from. `http_helper.HttpGetWithCustomValidation`, which the redeploy test runs in the
  background, does that. continuous.go:49 knows of the problem and uses `Errorf`.
- **Two tunnels may select the same port** (`tunnel_ports`). tunnel.go:196 takes the global
  lock "to avoid race conditions with concurrently selecting the same available
  port", but the port is selected at line 201 and the lock taken at 207. The second
  tunnel to listen gets an error; `EndpointIsMine` shows that it is an error and
  nothing worse.
- **Emptying leaves things in the bucket** (`s3_leftovers`). s3.go:194 says that
  `EmptyS3BucketE` removes the contents. It deletes versions only, takes a page of
  delete markers for the end, and continues a listing by the key marker without the version
  marker (s3.go:245), which skips what is left of a key. It returns nil.
- **A file that was not read counts as copied** (`scp_errors`). ssh.go:127-128 promise an
  error if the process fails; the error of the remote `dd` is printed and dropped
  (ssh.go:404-406), and the local file has what there was.

Met while modelling, in the models as they are, and no property hides them:

- `DoWithRetryE` sleeps once more after the last attempt (retry.go:85).
- A forwarder whose tunnel is closed stays blocked in its send on `errChan`
  (tunnel.go:223): it reports and nobody listens, `fwd = "reporting"` for good. The doc
  at line 93 calls `Close` enough to stop it; its port is free, its goroutine is not.
- `RunDummyServerWithHandlersE` registers with the `DefaultServeMux`: a second call for a path
  panics (dummy_server.go:67) instead of returning an error as lines 60-61 promise, also
  when the first server is closed; servers answer each other's paths.
- A line too long for the scanner makes one reader stop: the other waits for a child
  that may be blocked in its pipe, and if not, the child is never waited for
  (command.go:109). Hence `ReturnSome` of the contract and the exception in
  `ReturnsUnlessTooLong`.
- An error that is no exit status, of a binary that is not there or a line too long,
  has exit code 0 and no error (terraform/cmd.go:109): a plan that never ran looks
  like one without changes.
- A workspace name is matched as a regular expression (workspace.go:59): `a.c` selects
  where it should make. The command fails, so that the call answers an error.
- `OutputListE` of a key whose value is null panics: the value has no type
  (output.go, `ReadOutput`).
- `BuildArtifactsE` writes `errorsOccurred` and its map from goroutines without a lock
  (packer.go:67-73): errors get lost and the runtime may end the process.
- Listing an empty remote directory panics (ssh.go, `listFileInRemoteDir`), and the
  sockets dialled for `ssh-agent` authentication are never closed.
- Deleting the last context returns an error and leaves it in the file
  (config.go:78, `LastContext`). Edits of two tests on the home file overwrite each other.
- A kubeconfig that is shared can break. `RawConfig` (config.go:63, service_account.go:117)
  reads without the lock under which `ModifyConfig` writes one entry at a time, clusters
  before the contexts that name them; an edit that loads such a state, or the empty file of
  a truncation, writes it back. A write that fails leaves half an edit. In what is left
  `RemoveOrphanedClusterAndAuthInfoConfig` puts nil for a missing entry (config.go:120-121)
  and `AddConfigContextForServiceAccountE` looks into a missing context
  (service_account.go:123-124): both end the process (`NilIsLookedUp`).
- `GetServiceEndpointE` can return ":port" without an error (`"noHost"`). An AWS node without
  a public address has the entry "" in the map of addresses (aws/ec2.go:160-163), so that
  service.go:206-211 never comes to the host name that 186-188 promise; and a load
  balancer that has an address and no host name gives an empty host, against 103-105.
- A line whose write to its log fails is lost: the error is logged and the run goes on
  (logger/parser/store.go:55-59).
- A wait of 39 seconds for a queue message waits for 20, in spite of sqs.go:218-219.
- `newMetadata` sets one of several pairs, and clears everything when given none
  (gcp/compute.go:275); a second ssh key repeats a key of the list, which the service
  refuses. `SetLabels` "adds the tags" (206) and sends the given ones alone, so that
  they replace what was there; with a struct that was used once both setters fail.
- `FetchInstanceE` looks at one page of the project's instances (gcp/compute.go:72), and
  `getPublicIpsE` fails the test instead of returning an error (`GetPublicIps`).
- `GetRandomStableRegion` falls back to all regions when the forbidden ones cover
  the stable ones (region.go:52), the forbidden among them; other lists that come out empty panic.
- An indented line outside any result block goes nowhere (parser.go:141 with an empty
  stack), although 152-153 mean to keep lines of a multi-line log entry (`Orphan`).
- `SshAgentWithKeyPairsE` returns no agent when a key does not parse, and its
  goroutine, socket and folder stay (agent.go:133): `test = "failed"` keeps `dir`. A key
  that is no PEM at all panics, as `pem.Decode` gives no block (agent.go:130-131).
- The goroutine that serves a connection calls `t.Logf` when it ends (agent.go:68), which
  panics if the test is over by then. The model ends the goroutine and leaves out the
  logging.
- A file of `.test-data` that holds no JSON makes every later save fail until somebody
  deletes it (save_test_data.go:171 and 239): `Save` has no way out of `Corrupt`.
- A key pair that was created and not saved, because the process died or the save
  failed in a process that skips stages, stays in AWS; `DeploymentIsRecorded` is
  about deployments and the key pair they need only.


## 7. What the models leave out

- Formats: json, templates of command lines, log prefixes, colours, certificates.
  A text is one of a small set, a line what the parser's expressions tell apart. Lines
  that match two expressions at once (a test that prints a line which looks like a
  result) are left out of `LogParser`.
- Durations: a timer fires at some time. Only `Paced` counts sleeps, and `Queue` the
  seconds of its cycles.
- `TestStages` keeps to one process at a time and to a developer who does not set up
  again in a folder from which something is deployed. `SaveTestData` only warns in that
  case, and does overwrite: the library leaves that discipline to its user. The
  processes that skip nothing work in a copy, whose state is lost when they die;
  `FailuresAreCleanedUp` is about those that live. `CleanupTestData*` is not called by
  this test.
- `Shell`: the choice of the shell and its environment. `ContinuousCheck`: the request
  itself, which ends in one of three ways.
- `Terraform`: counting resources (count.go), `OutputMap`, `OutputForKeys` and the formatting
  of arguments. `SshSession`: generating keys and the kinds of authentication.
  `InstanceGroup`: everything of compute.go that is one request.
- Not modelled at all, because there is one shell command or one request and no state
  of the library's own: `helm`, `docker`, `git`, `k8s` RBAC, kubectl.go and client.go, most of
  `aws`, `gcp` (storage, OS login), `azure` and `oci`. What could go wrong there is the
  command or the request, which `Shell` and the environments of the other modules have.
- The pipeline (`.circleci`, Terraform code) is declarative: what it does is decided by
  services, and the repository has no program that runs it.


## 8. Plan

The order was: the loop everything waits in (`Retry`, with its contract first), its
goroutines, the tunnel with the most shared state, the child process, the http
helpers, the parser and its pipeline, the agent, the stages that hold a test together;
then what runs commands, what edits files that tests share, the waits, and the clouds.
The theorems about the safety properties followed the models.

What is left to say about the modelled parts:

1. Step properties that the invariants already give and that no theorem states: a lock
   that is released only by its holder (`Shell`, `Tunnel`), an answer that never changes once
   given (`RetryContract`, `Timeout`, `Queue`), a deployment that only `destroy` removes.
2. The safety halves of the liveness properties where they say something on their own,
   as `FreedStaysFree` does for `CloseFreesPort`: the states in which `NobodyIsStuck`
   and `Returns` could fail are those where every goroutine waits for another, which
   an invariant can exclude without fairness.
3. `GetServiceEndpointE` and the tunnel together: an endpoint that was waited for, reached
   through a tunnel whose pod goes away.
