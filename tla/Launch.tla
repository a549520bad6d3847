-------------------------------- MODULE Launch --------------------------------
(***************************************************************************)
(* From an image or a request to a process in a guest: what krun-run asks  *)
(* for, what the API makes of it, the arguments and the environment as     *)
(* they pass through krun-vmm and libkrun's C interface to vminit, and the *)
(* command line of an exec session.  Each hand-over may fail.              *)
(***************************************************************************)
EXTENDS Integers, Sequences, SequencesExt

CONSTANTS
  Words,      \* what paths, arguments and variables are made of
  Volumes,    \* the calls that add one to a VM
  Images,     \* [entrypoint, cmd : arguments, env : pairs, workdir]
  Cpus,       \* what -cpus may say
  Memories,   \* what -memory may say
  Requests,   \* configurations that other clients post
  HostEnv,    \* krun-vmm's own environment, which libkrun falls back to
  ExecArgs,   \* krun-exec's arguments, each a sequence of words
  Users       \* the part before the @ of its target, a sequence of words

CONSTANTS
  Vminit, Shell, Hostname, Clone, Newline,
  Number      \* what strconv makes of the words that are unsigned numbers

ASSUME ImagesAssumption ==
  Images \subseteq [entrypoint : Seq(Words), cmd : Seq(Words),
                    env : Seq(Words \X Words), workdir : Words]

Bits8 == 256
Bits16 == 65536

(* Sizes of memory are ints of the server's, Bits16 * high + low: TLC's    *)
(* own integers end before 32 bits do.                                     *)
Sizes == [high : Int, low : 0..(Bits16 - 1)]
MiB(n) == [high |-> n \div Bits16, low |-> n % Bits16]

ASSUME NumbersAssumption == Cpus \subseteq Int /\ Memories \subseteq Sizes
ASSUME RequestsAssumption ==
  /\ Volumes \cap {"set_log_level", "failed"} = {}
  /\ \A r \in Requests :
       /\ DOMAIN r = {"vcpus", "memory", "rootfs", "path", "args", "env",
                      "workdir", "volumes"}
       /\ r.vcpus \in Int /\ r.memory \in Sizes
       /\ r.path \in Words /\ r.args \in Seq(Words)
       /\ r.volumes \in Seq(Volumes)
ASSUME WordsAssumption ==
  /\ {Shell, Vminit, Newline, "-l", "120", "40"} \subseteq Words
  /\ Newline \notin {"120", "40"}
  /\ Users \subseteq Seq(Words)
  /\ ExecArgs \subseteq Seq(Seq(Words))
ASSUME NumberAssumption ==
  /\ {"120", "40"} \subseteq DOMAIN Number
  /\ Number["120"] = 120 /\ Number["40"] = 40

VARIABLES
  client,   \* krun-run with its image and flags, or a request
  stage,    \* how far the launch has come
  config,   \* machine.Config, as it travels
  calls,    \* what krun-vmm has had libkrun do
  process,  \* what the guest's init, and then vminit, run
  line      \* what an exec session runs

vars == <<client, stage, config, calls, process, line>>

-----------------------------------------------------------------------------
(* krun-run                                                                *)

ExecPath(i) ==
  CASE i.entrypoint # <<>> -> Head(i.entrypoint)
    [] i.entrypoint = <<>> /\ i.cmd # <<>> -> Head(i.cmd)
    [] OTHER -> Shell

(* vminit is put into a rootfs; images do not come with it.                *)
ASSUME VminitAssumption == \A i \in Images : ExecPath(i) # Vminit

(* An entrypoint's own arguments only.                                     *)
ArgsWithoutCmd(i) ==
  IF i.entrypoint # <<>> THEN Tail(i.entrypoint) ELSE <<"-l">>

ImageArgs(i) ==
  CASE i.entrypoint # <<>> -> Tail(i.entrypoint) \o i.cmd
    [] i.entrypoint = <<>> /\ i.cmd # <<>> -> Tail(i.cmd)
    [] OTHER -> <<"-l">>

(* The first pair of a key counts.                                         *)
EnvMapFirst(pairs) ==
  [k \in {p[1] : p \in ToSet(pairs)} |->
     pairs[SelectInSeq(pairs, LAMBDA p : p[1] = k)][2]]

(* The last pair of a key counts.                                          *)
EnvMap(pairs) ==
  [k \in {p[1] : p \in ToSet(pairs)} |->
     pairs[SelectLastInSeq(pairs, LAMBDA p : p[1] = k)][2]]

Over(f, g) ==
  [k \in DOMAIN f \cup DOMAIN g |-> IF k \in DOMAIN f THEN f[k] ELSE g[k]]

InitEnv == [KRUN_INIT_PID1 |-> "1", KRUN_HOSTNAME |-> Hostname]

Request(c) ==
  LET path == ExecPath(c.image)
      args == ImageArgs(c.image)
      env == EnvMap(c.image.env)
  IN [vcpus |-> c.cpus, memory |-> c.memory, rootfs |-> "",
      path |-> IF c.init THEN Vminit ELSE path,
      args |-> IF c.init THEN <<path>> \o args ELSE args,
      env |-> IF c.init THEN Over(InitEnv, env) ELSE env,
      workdir |-> c.image.workdir, volumes |-> <<>>]

Post ==
  /\ stage = "client"
  /\ config' = IF client.kind = "run" THEN Request(client) ELSE client.config
  /\ stage' = "posted"
  /\ UNCHANGED <<client, calls, process, line>>

Refuse ==
  stage' = "refused" /\ UNCHANGED <<client, config, calls, process, line>>

InspectFails == stage = "client" /\ client.kind = "run" /\ Refuse

-----------------------------------------------------------------------------
(* The API server                                                          *)

Default(n, zero, d) == IF n = zero THEN d ELSE n

RejectRootfs == stage = "posted" /\ config.rootfs # "" /\ Refuse

(* The image cannot be had, or cloned.                                     *)
CreateFails == stage = "posted" /\ config.rootfs = "" /\ Refuse

CreateMachine ==
  /\ stage = "posted"
  /\ config.rootfs = ""
  /\ config' = [config EXCEPT !.vcpus = Default(@, 0, 1),
                              !.memory = Default(@, MiB(0), MiB(256)),
                              !.rootfs = Clone]
  /\ stage' = "created"
  /\ UNCHANGED <<client, calls, process, line>>

Uint8(n) == n % Bits8
Uint32(m) == [m EXCEPT !.high = @ % Bits16]

StartMachine ==
  /\ stage = "created"
  /\ config' = [config EXCEPT !.vcpus = Uint8(@), !.memory = Uint32(@)]
  /\ stage' = "configuring"
  /\ UNCHANGED <<client, calls, process, line>>

-----------------------------------------------------------------------------
(* krun-vmm                                                                *)

When(condition, call) == IF condition THEN <<call>> ELSE <<>>

(* The calls it makes, in this order.  Console, network and the two vsock  *)
(* ports have paths that the manager always sets.                          *)
Calls(c) ==
  <<"open", "set_log_level", "create_ctx", "set_vm_config">>
    \o When(c.rootfs # "", "set_root") \o When(c.path # "", "set_exec")
    \o When(c.workdir # "", "set_workdir")
    \o <<"set_console_output", "add_net_unixgram">>
    \o [i \in 1..Len(c.volumes) |-> c.volumes[i]]
    \o <<"add_vsock_port2 10000", "add_vsock_port2 10001">>

NextCall == Calls(config)[Len(calls) + 1]

CallLib ==
  /\ stage = "configuring"
  /\ Len(calls) < Len(Calls(config))
  /\ calls' = Append(calls, NextCall)
  /\ UNCHANGED <<client, stage, config, process, line>>

(* An error that is logged, and no more.                                   *)
GoOnAfterError ==
  /\ stage = "configuring"
  /\ Len(calls) < Len(Calls(config))
  /\ calls' = Append(calls, "failed")
  /\ UNCHANGED <<client, stage, config, process, line>>

(* Only an error of set_log_level lets krun-vmm go on.                     *)
CallFails ==
  /\ stage = "configuring"
  /\ Len(calls) < Len(Calls(config))
  /\ IF NextCall = "set_log_level"
       THEN calls' = Append(calls, "failed") /\ UNCHANGED stage
       ELSE stage' = "exited" /\ UNCHANGED calls
  /\ UNCHANGED <<client, config, process, line>>

Truncate(args, n) == SubSeq(args, 1, n - 1)

(* A C array ends at its first NULL, which is what "" becomes; an empty    *)
(* one is NULL itself.                                                     *)
CStringArray(args) ==
  LET n == SelectInSeq(args, LAMBDA a : a = "")
  IN IF n = 0 THEN args ELSE Truncate(args, n)

(* EnvSlice of no pairs is nil, for which libkrun takes krun-vmm's own.    *)
Environment(env) == IF env = <<>> THEN HostEnv ELSE env

SetExec(c) == [argv |-> <<c.path>> \o CStringArray(c.args),
               env |-> Environment(c.env)]

(* libkrun's init runs what set_exec said.                                 *)
StartEnter ==
  /\ stage = "configuring"
  /\ calls # <<>> /\ Len(calls) = Len(Calls(config))
  /\ config.path # ""
  /\ process' = SetExec(config)
  /\ stage' = "entered"
  /\ UNCHANGED <<client, config, calls, line>>

(* The VM is refused, or its init finds nothing to run.                    *)
StartEnterFails ==
  /\ stage = "configuring"
  /\ calls # <<>> /\ Len(calls) = Len(Calls(config))
  /\ stage' = "exited"
  /\ UNCHANGED <<client, config, calls, process, line>>

-----------------------------------------------------------------------------
(* The guest                                                               *)

Runs ==
  /\ stage = "entered"
  /\ Head(process.argv) # Vminit
  /\ stage' = "running"
  /\ UNCHANGED <<client, config, calls, process, line>>

IsPid1 == "KRUN_INIT_PID1" \in DOMAIN process.env

InitRuns ==
  /\ stage = "entered"
  /\ Head(process.argv) = Vminit
  /\ IsPid1 /\ Len(process.argv) > 1
  /\ process' = [process EXCEPT !.argv = Tail(@)]
  /\ stage' = "serving"
  /\ UNCHANGED <<client, config, calls, line>>

(* log.Fatal: not PID 1, no command, or one that cannot be started.        *)
InitFails ==
  /\ stage = "entered"
  /\ Head(process.argv) = Vminit
  /\ stage' = "exited"
  /\ UNCHANGED <<client, config, calls, process, line>>

-----------------------------------------------------------------------------
(* krun-exec and handleExecSession: one line of words                      *)

Handshake(user, cols, rows, args) ==
  user \o <<cols, rows>> \o FlattenSeq(args) \o <<Newline>>

(* ParseUint of a word that is no number, or needs more bits, fails.       *)
Uint16(word, default) ==
  IF word \in DOMAIN Number /\ Number[word] < Bits16
    THEN Number[word] ELSE default

UpToNewline(words) ==
  Truncate(words, SelectInSeq(words, LAMBDA w : w = Newline))

(* The command's words start where the size's end, however short the line. *)
ParseFromThird(words) ==
  LET f == UpToNewline(words)
  IN [user |-> f[1], cols |-> Uint16(f[2], 80), rows |-> Uint16(f[3], 24),
      cmd |-> SubSeq(f, 3, Len(f))]

ParseHandshake(words) ==
  LET f == UpToNewline(words)
  IN IF Len(f) < 3
       THEN [user |-> f[1], cols |-> 80, rows |-> 24, cmd |-> <<>>]
       ELSE [user |-> f[1], cols |-> Uint16(f[2], 80),
             rows |-> Uint16(f[3], 24), cmd |-> SubSeq(f, 4, Len(f))]

(* su -c gets the words joined again.                                      *)
Exec(user, args) ==
  /\ stage = "serving"
  /\ line' = [sent |-> [user |-> user, args |-> args],
              got |-> ParseHandshake(Handshake(user, "120", "40", args))]
  /\ stage' = "session"
  /\ UNCHANGED <<client, config, calls, process>>

-----------------------------------------------------------------------------

KrunRuns ==
  [kind : {"run"}, image : Images, cpus : Cpus, memory : Memories,
   init : BOOLEAN]

Init ==
  /\ client \in KrunRuns \cup [kind : {"api"}, config : Requests]
  /\ stage = "client"
  /\ config = <<>>
  /\ calls = <<>>
  /\ process = <<>>
  /\ line = <<>>

Next ==
  \/ Post \/ InspectFails \/ RejectRootfs \/ CreateFails \/ CreateMachine
  \/ StartMachine \/ CallLib \/ CallFails \/ StartEnter \/ StartEnterFails
  \/ Runs \/ InitRuns \/ InitFails
  \/ \E user \in Users, args \in ExecArgs : Exec(user, args)

Spec == Init /\ [][Next]_vars

-----------------------------------------------------------------------------

Started == {"running", "serving", "session"}

(* What Docker would run: entrypoint and command as one, or a shell.       *)
DockerCommand(i) ==
  IF i.entrypoint \o i.cmd = <<>>
    THEN <<Shell, "-l">> ELSE i.entrypoint \o i.cmd

(* What krun-run starts is the image's command, argument for argument,     *)
(* with and without vminit in front (image.go:13-40, krun-run main.go:90,  *)
(* vminit main.go:59) -- up to the first empty argument, which becomes the *)
(* NULL that ends the array (lib.go:975).                                  *)
GuestRunsTheImage ==
  stage \in Started /\ client.kind = "run" =>
    LET asked == DockerCommand(client.image)
        n == Len(process.argv)
    IN /\ IsPrefix(process.argv, asked) /\ "" \notin ToSet(process.argv)
       /\ n < Len(asked) => asked[n + 1] = ""

(* The environment is the image's, a key's last value counting, and a      *)
(* process gets krun-vmm's only where nobody asked for any (image.go:43,   *)
(* machine.go:74, lib.go:786-792).                                         *)
GuestHasItsEnvironment ==
  stage \in Started /\ client.kind = "run" =>
    LET asked == client.image.env
        own == IF client.init THEN DOMAIN InitEnv ELSE {}
        last(i) == \A j \in i + 1 .. Len(asked) : asked[j][1] # asked[i][1]
    IN IF asked = <<>> /\ ~client.init
         THEN process.env = HostEnv
         ELSE /\ DOMAIN process.env = {p[1] : p \in ToSet(asked)} \cup own
              /\ \A i \in DOMAIN asked :
                   last(i) /\ asked[i][1] \notin own =>
                     process.env[asked[i][1]] = asked[i][2]
              /\ \A k \in own : process.env[k] = InitEnv[k]

(* A VM that is entered has the CPUs and the memory that were asked for,   *)
(* or the defaults: the very number if it fits eight and 32 bits, else the *)
(* one it equals but for the bits that are lost, which for 256 CPUs is 0   *)
(* (handler.go:40-45, manager.go:166-167).  It has them in full: every     *)
(* call was made, and whatever libkrun refuses, but for the log level,     *)
(* ends krun-vmm (krun-vmm main.go:45-114).                                *)
VMHasWhatWasAsked ==
  stage \in {"entered"} \cup Started =>
    LET cpus == IF client.kind = "run" THEN client.cpus ELSE client.config.vcpus
        memory ==
          IF client.kind = "run" THEN client.memory ELSE client.config.memory
        has == config.memory
    IN /\ config.vcpus \in 0..(Bits8 - 1) /\ has.high \in 0..(Bits16 - 1)
       /\ IF cpus = 0 THEN config.vcpus = 1
                      ELSE (cpus - config.vcpus) % Bits8 = 0
       /\ IF memory = MiB(0)
            THEN has = MiB(256)
            ELSE /\ has.low = memory.low
                 /\ (memory.high - has.high) % Bits16 = 0
       /\ Len(calls) = Len(Calls(config))
       /\ \A i \in 1..Len(calls) : calls[i] = "failed" => i = 2

(* A session runs what krun-exec was given, its words in one line as a     *)
(* shell would see them, for a user of one word -- up to the first line    *)
(* break among them, where the line ends (krun-exec main.go:101-104,       *)
(* resize.go:21-38).                                                       *)
SessionRunsItsCommand ==
  stage = "session" =>
    LET user == line.sent.user
        words == FlattenSeq(line.sent.args)
        cmd == line.got.cmd
        n == Len(cmd)
    IN Len(user) = 1 /\ user[1] # Newline =>
         /\ line.got = [user |-> user[1], cols |-> 120, rows |-> 40, cmd |-> cmd]
         /\ IsPrefix(cmd, words) /\ Newline \notin ToSet(cmd)
         /\ n < Len(words) => words[n + 1] = Newline

=============================================================================
