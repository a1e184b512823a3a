----------------------------- MODULE SshSession -----------------------------
(***************************************************************************)
(* modules/ssh/ssh.go and session.go: a call connects to a host, maybe     *)
(* through a jump host, and runs a command or copies files from it. What   *)
(* it opens on the way it stores in an SshSession, which a deferred        *)
(* Cleanup closes. One call is modelled; each of its steps may fail.       *)
(***************************************************************************)
EXTENDS FiniteSets, Integers, Sequences

CONSTANT MaxRemoteFiles   \* bound: files of a remote directory, or to fetch

VARIABLES
  sshOp,      \* the call: "command", "upload", "download", "fetch" for commands
              \* one after another, "private" through a jump host, or "copyDir"
  agents,     \* the agents that the host's options ask for
  at,         \* what it does: "auth", "listing", "copying", what it opens,
              \* "running", "cleanup" or "done"
  hosts,      \* hosts whose authentication methods are still to be made
  open,       \* what is open: <<resource, number>>
  refers,     \* the numbers of those the SshSession refers to, 0 for nil
  remote,     \* the files of the directory, or left to fetch
  copied,     \* what became of each file
  sshResult   \* "none", "nil", "error" or "panic"

sshVars == <<sshOp, agents, at, hosts, open, refers, remote, copied, sshResult>>

\* What setUpSSHClient and setUpSSHSession open, in this order.
Opens(op) ==
  IF op = "private" THEN <<"jumpClient", "virtualConn", "hostConn", "session">>
                    ELSE <<"client", "session">>

After(op, x) ==
  LET i == CHOOSE j \in DOMAIN Opens(op) : Opens(op)[j] = x
  IN  IF i = Len(Opens(op)) THEN "running" ELSE Opens(op)[i + 1]

Nil == [x \in {"jumpClient", "virtualConn", "hostConn", "client", "session"} |-> 0]

HostsOf(op) == IF op = "private" THEN 2 ELSE 1

SshInit ==
  /\ sshOp \in {"command", "upload", "download", "fetch", "private", "copyDir"}
  /\ agents \in SUBSET {"overrideAgent", "sshAgent"}
  /\ at = "auth" /\ hosts = HostsOf(sshOp)
  /\ open = {} /\ refers = Nil
  /\ remote \in IF sshOp = "fetch" THEN 1 .. MaxRemoteFiles ELSE {0}
  /\ copied = <<>> /\ sshResult = "none"

\* createAuthMethodsForHost dials the agents in turn, up to one that does not
\* answer, and parses the key; its caller has no SshSession yet.
DialAgents(n) ==
  \E dialed \in {{}, agents \intersect {"overrideAgent"}, agents} :
    open' = open \union {<<a, n>> : a \in dialed}

CreateAuthMethods ==
  /\ at = "auth"
  /\ DialAgents(hosts)
  /\ \/ /\ \A a \in agents : <<a, hosts>> \in open'
        /\ hosts' = hosts - 1
        /\ at' = IF hosts' > 0 THEN "auth" ELSE IF sshOp = "copyDir" THEN "listing" ELSE Opens(sshOp)[1]
        /\ UNCHANGED sshResult
     \/ at' = "done" /\ sshResult' = "error" /\ UNCHANGED hosts
  /\ UNCHANGED <<sshOp, agents, refers, remote, copied>>

\* listFileInRemoteDir is a "command" of its own, after which the local
\* directory is made. When no file is listed, cutting the last newline panics.
ListFiles ==
  /\ at = "listing"
  /\ DialAgents(0)
  /\ \/ remote' \in 1 .. MaxRemoteFiles /\ at' = "copying" /\ UNCHANGED sshResult
     \/ sshResult' \in {"error", "panic"} /\ at' = "cleanup" /\ UNCHANGED remote
  /\ UNCHANGED <<sshOp, agents, hosts, refers, copied>>

\* The next file of the directory is created here, or there is none left.
NextFile ==
  /\ at = "copying"
  /\ \/ /\ Len(copied) < remote
        /\ open' = open \union {<<"localFile", Len(copied) + 1>>}
        /\ at' = Opens(sshOp)[1]
        /\ UNCHANGED sshResult
     \/ at' = "cleanup" /\ UNCHANGED open
        /\ sshResult' = IF Len(copied) < remote \/ \E i \in DOMAIN copied : copied[i] = "error"
                        THEN "error" ELSE "nil"
  /\ UNCHANGED <<sshOp, agents, hosts, refers, remote, copied>>

\* The call is over, or, in a directory, the file is.
EndFile(r, fileResult) ==
  /\ copied' = Append(copied, fileResult)
  /\ IF sshOp = "copyDir" THEN at' = "copying" /\ UNCHANGED sshResult
                          ELSE at' = "cleanup" /\ sshResult' = r

Store_AtTheEnd(new) ==
  IF new = {"session"} THEN [x \in DOMAIN refers |-> IF sshOp = "private" \/ x \in {"client", "session"}
                                                     THEN refers[x] + 1 ELSE refers[x]]
                       ELSE refers

\* Each is stored in the SshSession as soon as it is open.
Store(new) == [x \in DOMAIN refers |-> IF x \in new THEN refers[x] + 1 ELSE refers[x]]

\* Opening the connection to the private host makes its client, too.
OpenNext ==
  /\ at \in {Opens(sshOp)[i] : i \in DOMAIN Opens(sshOp)}
  /\ \/ LET new == IF at = "hostConn" THEN {"hostConn", "client"} ELSE {at}
        IN  /\ open' = open \union {<<x, refers[x] + 1>> : x \in new}
            /\ refers' = Store(new)
            /\ at' = After(sshOp, at)
            /\ UNCHANGED <<copied, sshResult>>
     \/ EndFile("error", "error") /\ UNCHANGED <<open, refers>>
  /\ UNCHANGED <<sshOp, agents, hosts, remote>>

\* runSSHCommand: the command ends, with exit code 0 or not.
RunCommand ==
  /\ at = "running" /\ sshOp \notin {"download", "copyDir"}
  /\ at' = "cleanup"
  /\ sshResult' \in {"nil", "error"}
  /\ UNCHANGED <<sshOp, agents, hosts, open, refers, remote, copied>>

\* copyFileFromRemote: an error of the remote dd is printed only, and what it
\* gave is written; a deferred call closes the session.
CopyFile ==
  /\ at = "running" /\ sshOp \in {"download", "copyDir"}
  /\ \/ EndFile("nil", "copied")
     \/ EndFile("nil", "notRead")
     \/ EndFile("error", "error")
  /\ open' = open \ {<<"session", refers["session"]>>}
  /\ UNCHANGED <<sshOp, agents, hosts, refers, remote>>

\* FetchContentsOfFilesE goes on with a new SshSession, unless there was an error.
FetchContentsOfFiles ==
  IF sshOp = "fetch" /\ sshResult = "nil" /\ remote > 1
  THEN at' = "auth" /\ hosts' = 1 /\ refers' = Nil /\ remote' = remote - 1 /\ sshResult' = "none"
  ELSE at' = "done" /\ UNCHANGED <<hosts, refers, remote, sshResult>>

\* Cleanup, deferred, closes what the SshSession refers to.
Cleanup ==
  /\ at = "cleanup"
  /\ open' = open \ {<<x, refers[x]>> : x \in DOMAIN refers}
  /\ FetchContentsOfFiles
  /\ UNCHANGED <<sshOp, agents, copied>>

SshNext ==
  CreateAuthMethods \/ ListFiles \/ NextFile \/ OpenNext \/ RunCommand \/ CopyFile \/ Cleanup

-----------------------------------------------------------------------------

\* "a single defer in a top-level method that calls the Cleanup method to go
\* through and ensure all of these resources are released" (session.go:30-32):
\* wherever a call failed, no session and no connection of a jump host stays
\* open, nor does the client; only what no SshSession ever refers to, or refers
\* to no more, does: sockets of agents, the local files of a directory, and the
\* clients of its files but the last one that was connected.
SessionIsReleased ==
  at = "done" =>
    \A r \in open : \/ r[1] \in {"overrideAgent", "sshAgent"}
                    \/ sshOp = "copyDir" /\ r[1] = "localFile"
                    \/ sshOp = "copyDir" /\ r[1] = "client" /\ r[2] < refers["client"]

\* A file that cannot be copied does not keep the others from being tried, and
\* a directory is copied without an error only if a connection was made for
\* every file that was listed and its content written (ssh.go:165-182).
EveryFileIsTried ==
  at = "done" /\ sshOp = "copyDir" /\ sshResult = "nil" =>
    /\ Len(copied) = remote /\ remote > 0
    /\ \A i \in DOMAIN copied : copied[i] # "error"

\* What a call leaves behind and what its answer says hold together.
SshCallsEndWell == SessionIsReleased /\ EveryFileIsTried

\* "downloads all the files from remotePath on the given host using SCP and
\* returns an error if the process fails" (ssh.go:127-128). The code does not
\* keep this: an error of reading a remote file is printed (lines 404-406).
CopyErrorsAreReturned ==
  sshOp = "copyDir" /\ sshResult = "nil" => \A i \in DOMAIN copied : copied[i] = "copied"

=============================================================================
