-------------------------- MODULE AttachInvariant ---------------------------
(***************************************************************************)
(* The inductive invariant of Attach, of which every property of it that   *)
(* the proofs are about is a consequence.                                  *)
(***************************************************************************)
EXTENDS Attach

(* Main gives the hypervisor to the mmio thread and takes it back.         *)
Serving == {"wait", "recv", "join1", "terminate", "spin", "join"}
MainOwns == {"sockets", "devices", "poll", "stage1", "spawn1", "start", "disown",
             "drop1", "drop2", "drop3", "resume"}
BeforeMmio == {"stop", "sockets", "devices", "poll", "stage1", "spawn1", "start",
               "disown", "spawn"}
AfterStage1 == {"terminate", "spin", "join", "stop2", "adopt", "drop1", "drop2", "drop3",
                "resume"}
MmioActive == ipc \notin {"none", "exited", "panicked"}
Wrapped == {"ready", "resume", "reap", "notify", "unwrap"}

(* Where the threads can be, relative to one another. *)
StepsInv ==
    /\ MmioActive => mpc \in Serving
    /\ mpc \in BeforeMmio => ipc = "none"
    /\ mpc \in BeforeMmio \ {"start", "disown", "spawn"} => s1 = "none"
    /\ mpc \in AfterStage1 => s1 # "run"
    /\ spawnFailed => mpc \in {"unwind", "done"}
    /\ poisoned => ~Alive
    /\ walk.by = Main => mpc \in {"stop", "stop2", "adopt"}
    /\ walk.by = Main /\ mpc # "adopt" => ~proc.some
    /\ walk.by = Mmio => ipc = "adopt"
    /\ mode = "ioregion" => ~MmioActive /\ mpc \notin {"disown", "spawn", "adopt"}

(* Nothing is left of a hypervisor that has ended. *)
DeadInv ==
    ~Alive => \A t \in HvThreads : life[t] = "gone" /\ tracer[t] = Nobody

(* A thread that ended while it was being seized. *)
DeadThread(t) == deadKept /\ life[t] = "gone" /\ tracer[t] = Nobody

(* A thread that v has seized: it is stopped, or such a thread. *)
Caught(v, t) == (tracer[t] = v /\ life[t] = "stopped") \/ DeadThread(t)

(* A disown() that failed on such a thread has lost the Process. *)
Lost ==
    /\ deadKept
    /\ ~proc.held /\ proc.threads = {}
    /\ \/ proc.owner = Main /\ mpc = "unwind"
       \/ /\ proc.owner = Mmio /\ ipc \in {"exit", "exited"}
          /\ mpc \in Serving \cup {"stop2", "adopt", "unwind"}
          /\ mpc = "unwind" => s1 # "run"

(* Who holds a hypervisor that is alive. *)
ProcInv ==
    /\ proc.owner # Nobody => proc.some
    /\ proc.some => (proc.held /\ Leader \in proc.threads) \/ Lost
    /\ proc.owner # Nobody /\ proc.held =>
         /\ text = "patched" /\ proc.saved = "orig"
         /\ \A t \in proc.threads : Caught(proc.owner, t)
    /\ text = "patched" =>
         (proc.owner # Nobody /\ proc.held) \/ (spawnFailed /\ mpc = "done")
    /\ proc.owner = Main => mpc \in MainOwns \cup {"adopt", "unwind"}
    /\ proc.owner = Mmio /\ proc.held => ipc \in {"wrap", "disown"}
    /\ mpc \in MainOwns => proc.owner = Main /\ proc.held
    /\ mpc = "unwind" /\ ~spawnFailed =>
         (proc.owner = Main /\ proc.held /\ s1 # "run") \/ (proc.some /\ Lost)
    /\ mpc = "stop" => ~proc.some
    /\ mpc \in {"spawn", "adopt"} \/ ipc = "adopt" => proc.some
    /\ mpc = "spawn" \/ ipc = "adopt" => proc.held
    /\ mode = "ioregion" /\ mpc \in Serving \cup {"stop2"} => ~proc.some
    /\ ipc = "wrap" => proc.owner = Mmio /\ proc.held
    /\ ipc \in Wrapped \cup {"stuck"} => ~proc.some
    /\ wrapper.some <=> ipc \in Wrapped \cup {"stuck"}

(* The seize loop, and the wrapper: until the threads are let go for the   *)
(* first time it may have a dead one.                                      *)
LoopInv ==
    /\ walk.by # Nobody =>
         /\ proc.owner = Nobody
         /\ Leader \in walk.todo \cup walk.got \cup {walk.at}
         /\ walk.todo \cap walk.got = {} /\ walk.at \notin walk.todo \cup walk.got
         /\ \A t \in walk.got : Caught(walk.by, t)
         /\ walk.at # 0 => tracer[walk.at] = walk.by /\ life[walk.at] \in {"running", "zombie"}
    /\ walk.by = Nobody => walk.at = 0
    /\ ipc \in Wrapped =>
         /\ Leader \in wrapper.threads
         /\ wrapper.running \subseteq wrapper.threads
         /\ \A t \in wrapper.threads :
              \/ /\ tracer[t] = Mmio
                 /\ t \in wrapper.running <=> life[t] # "stopped"
              \/ /\ DeadThread(t) /\ t \notin wrapper.running
                 /\ ipc \in {"ready", "notify", "unwrap"}

(* Every trace relation has a reason, every stop a tracer. *)
TracerInv ==
    \A t \in HvThreads :
        /\ tracer[t] = Nobody => life[t] \notin Stops \cup {"zombie"}
        /\ tracer[t] = Main =>
             \/ proc.owner = Main /\ t \in proc.threads
             \/ walk.by = Main /\ t \in walk.got \cup {walk.at}
             \/ life[t] = "zombie"
        /\ tracer[t] = Mmio =>
             \/ proc.owner = Mmio /\ t \in proc.threads
             \/ walk.by = Mmio /\ t \in walk.got \cup {walk.at}
             \/ wrapper.some /\ t \in wrapper.threads
             \/ ipc \in {"disown", "exit"}
             \/ life[t] = "zombie" /\ MmioActive

LeaderInv == life[Leader] \notin {"unborn", "zombie"}

(* What main still has to take out. *)
ResInv ==
    /\ ~spawnFailed /\ ~deadKept => res \subseteq objs
    /\ mpc = "drop2" => "stage1" \notin res
    /\ mpc = "drop3" => res \subseteq {"sockets"}
    /\ mpc = "resume" => res = {}
    /\ mpc = "done" /\ ~spawnFailed /\ ~deadKept => res = {}

Inv ==
    /\ TypeOK
    /\ StepsInv
    /\ DeadInv
    /\ Alive => ProcInv /\ LoopInv /\ TracerInv /\ LeaderInv /\ ResInv

=============================================================================
