--------------------------- MODULE SecureMemory ---------------------------
(***************************************************************************)
(* Who owns the locked memory regions (securemem.Data) that carry keys and *)
(* texts through one process, and who destroys them.  Every routine of the *)
(* key path is written below as the sequence of its ownership steps; the   *)
(* machine runs those routines on a call stack, and any step that can      *)
(* return an error may do so (an allocation, a vault or remote call, a     *)
(* failed decryption, a cancelled context).  No routine recovers from an   *)
(* error of a callee, so an error unwinds the whole stack, and every frame *)
(* runs its deferred Destroys and the epilogue of securemem.Run.           *)
(* A pair of mirror routines (Seal and Unseal, Encrypt and Decrypt) treats *)
(* its regions alike and is one routine here.                              *)
(***************************************************************************)
EXTENDS Naturals, Sequences, FiniteSets

CONSTANTS
  Depth,      \* key kinds this process serves, one below the other
  Tops,       \* possible parents of the highest kind: "rpcSeal", "rootSeal"
  Entries,    \* the calls made to the process
  MaxCalls    \* how many of them

ASSUME SecureMemoryAssumption ==
  /\ Depth \in Nat \ {0} /\ MaxCalls \in Nat
  /\ Tops \subseteq {"rpcSeal", "rootSeal"}
  /\ Entries \subseteq {"createSecret", "Seal", "handleGet", "importSpec"}

VARIABLES
  conf,    \* the process's configuration: top, transport sealers, vault type
  mem,     \* the regions in the order of allocation: "rw", "ro" or "gone"
  stack,   \* the frames of the running call
  vault,   \* regions owned by the RPC's or the connection's vault
  entry,   \* the call made last
  calls    \* how many calls were made

vars == <<conf, mem, stack, vault, entry, calls>>

---------------------------------------------------------------------------
(* The steps of a routine.  A name stands for the variable of the routine  *)
(* that holds the region; "in" and "sec" are its parameters and "out" is   *)
(* what it returns.                                                        *)

Names == {"in", "sec", "gen", "exp", "par", "trans", "txt", "out"}

\* securemem.NewData
Alloc(x) == [op |-> "alloc", x |-> x]
\* NewData inside the persistent vault of the surrounding Run
Reserve(x) == [op |-> "reserve", x |-> x]
\* defer x.Destroy()
Defer(x) == [op |-> "defer", x |-> x]
\* the bytes are read by something that may fail
Use(x) == [op |-> "use", x |-> x]
\* PersistentVault().Import(x): the vault is new and x is not nil
Import(x) == [op |-> "import", x |-> x]
\* x becomes the vault's of the RPC or the connection, or is destroyed
Publish(x) == [op |-> "publish", x |-> x]
\* the transaction around the routine commits
Commit == [op |-> "commit"]
\* x := fn(a)
Call(fn, a, x) == [op |-> "call", fn |-> fn, arg |-> a, x |-> x]
\* fn(), the result is not a region
Do(fn) == [op |-> "call", fn |-> fn, arg |-> "none", x |-> "none"]

---------------------------------------------------------------------------
(* The routines.                                                           *)

createSecret ==
  << Call("generateSecret", "none", "gen"), Defer("gen"),
     Call("transport", "gen", "trans"),     Defer("trans"),
     Call("parent", "trans", "par"),        Defer("par"),
     Use("par") >>

\* without the copy: what the deferred Destroys of the handler would hit
resolveSecretUncopied ==
  << Call("exportKey", "none", "exp"),  Defer("exp"),
     Call("parent", "exp", "par"),      Defer("par"),
     Call("transport", "par", "out"),   Defer("out"),
     Import("out") >>

resolveSecret ==
  << Call("exportKey", "none", "exp"),  Defer("exp"),
     Call("parent", "exp", "par"),      Defer("par"),
     Call("transport", "par", "trans"), Defer("trans"),
     Use("trans"), Alloc("out"), Import("out") >>

\* encrypt and decrypt of the processor
encrypt == << Call("aes", "in", "out"), Import("out") >>

\* Encrypt and Decrypt: the output is reserved before the cipher runs
aes == << Use("sec"), Reserve("out"), Use("in") >>

\* the seals of a static secret loaded for the life of the process
transportSeal == << Call("aes", "in", "out") >>

\* generated into the persistent vault
generateSecret == << Reserve("out") >>

\* openbao: the additional data is decoded after the key was copied
exportOpenBao == << Reserve("out"), Use("out") >>

\* the key is only allocated once the row was read
exportSQLite == << Alloc("out") >>

\* Seal and Unseal of the Manager
managerSeal ==
  << Call("resolveSecret", "none", "sec"), Defer("sec"),
     Call("encrypt", "in", "out") >>

\* Seal and Unseal of the RPCManager: the request's text is consumed
rpcSeal == << Defer("in"), Use("in"), Alloc("out"), Import("out") >>

\* the provider's spec is read and unmarshalled
exportSpec == << Call("exportKey", "none", "exp"), Defer("exp"), Use("exp") >>

\* the provider's spec is written, by CreateProvider and RotateAuth
importSpec == << Alloc("exp"), Defer("exp"), Use("exp") >>

\* LoadSecret: the provider's secret, from its spec
loadSecret == << Reserve("out") >>

\* Seal and Unseal of the RootManager, in one transaction
rootSeal ==
  << Do("exportSpec"), Call("loadSecret", "none", "sec"), Use("sec"),
     Call("aes", "in", "out"), Commit >>

\* the handler that the sealer service runs in secure memory
sealHandler ==
  << Alloc("txt"), Defer("txt"), Call("manager", "txt", "out"), Import("out") >>

\* Seal and Unseal of the sealer service
Seal == << Call("sealHandler", "none", "out"), Publish("out") >>

\* the KMIP Get operation
handleGet == << Call("resolveSecret", "none", "out"), Publish("out") >>

Body == [createSecret |-> createSecret, resolveSecret |-> resolveSecret,
         encrypt |-> encrypt, aes |-> aes, transportSeal |-> transportSeal,
         generateSecret |-> generateSecret, exportOpenBao |-> exportOpenBao,
         exportSQLite |-> exportSQLite, managerSeal |-> managerSeal,
         rpcSeal |-> rpcSeal, rootSeal |-> rootSeal, exportSpec |-> exportSpec,
         importSpec |-> importSpec,
         loadSecret |-> loadSecret, sealHandler |-> sealHandler, Seal |-> Seal,
         handleGet |-> handleGet]

\* routines whose steps are a handler of securemem.Run
Handlers == {"createSecret", "resolveSecret", "encrypt", "aes", "rpcSeal",
             "generateSecret", "exportOpenBao", "loadSecret", "sealHandler"}

\* The routine behind an interface, for the kind at this level; the Manager is
\* the parent of every kind but the highest.
Resolve(fn, level) ==
  CASE fn = "parent"    -> IF level > 1 THEN "managerSeal" ELSE conf.top
    [] fn = "manager"   -> "managerSeal"
    [] fn = "transport" -> "transportSeal"
    [] fn = "exportKey" -> conf.vault
    [] OTHER            -> fn

\* above the highest kind of the process another sealer takes over
ParentLevel(level) == IF level > 1 THEN level - 1 ELSE level

---------------------------------------------------------------------------
(* The machine.                                                            *)

Frame(fn, level, in, sec, dst) ==
  [fn |-> fn, level |-> level, pc |-> 1, dst |-> dst, defers |-> {}, pers |-> {},
   reg |-> [x \in Names |-> CASE x = "in" -> in [] x = "sec" -> sec [] OTHER -> 0]]

top == stack[Len(stack)]
step == Body[top.fn][top.pc]
running == stack # <<>> /\ top.pc <= Len(Body[top.fn])
At(op) == running /\ step.op = op

\* 0 stands for no region, and for the secret of a transport sealer
Reg(f, x) == IF x = "none" THEN 0 ELSE f.reg[x]
With(f, x, r) == IF x = "none" THEN f ELSE [f EXCEPT !.reg[x] = r]
Advance(f) == [f EXCEPT !.pc = @ + 1]
SetTop(f) == [stack EXCEPT ![Len(stack)] = f]

\* Data.Destroy: idempotent, and a region never comes back
Destroyed(rs) == [r \in 1..Len(mem) |-> IF r \in rs THEN "gone" ELSE mem[r]]
\* MarkAllReadOnly skips what was destroyed
MarkedReadOnly(m, rs) ==
  [r \in 1..Len(m) |-> IF r \in rs /\ m[r] # "gone" THEN "ro" ELSE m[r]]

Live == {r \in 1..Len(mem) : mem[r] # "gone"}

Init ==
  /\ conf \in [top : Tops, transport : SUBSET (1..Depth),
               vault : {"exportOpenBao", "exportSQLite"}]
  /\ mem = <<>> /\ stack = <<>> /\ vault = {} /\ entry = "none" /\ calls = 0

\* Only the root binds providers and runs a KMIP server.
Serves(fn) == fn \in {"importSpec", "handleGet"} => conf.top = "rootSeal"

\* A call arrives.  An RPC has a vault of its own; the Gets of a KMIP
\* connection share the connection's.
Start(fn, level) ==
  /\ stack = <<>> /\ calls < MaxCalls /\ Serves(fn)
  /\ vault = {} \/ (fn = "handleGet" /\ entry = "handleGet")
  /\ stack' = <<Frame(fn, level, 0, 0, "none")>>
  /\ entry' = fn /\ calls' = calls + 1
  /\ UNCHANGED <<conf, mem, vault>>

NewData ==
  /\ At("alloc") \/ At("reserve")
  /\ mem' = Append(mem, "rw")
  /\ LET r == Len(mem) + 1
         f == Advance(With(top, step.x, r))
     IN stack' = SetTop(IF step.op = "reserve" THEN [f EXCEPT !.pers = @ \cup {r}] ELSE f)
  /\ UNCHANGED <<conf, vault, entry, calls>>

\* the receiver of a deferred Destroy is evaluated at the defer statement
DeferDestroy ==
  /\ At("defer")
  /\ stack' = SetTop([Advance(top) EXCEPT !.defers = @ \cup {Reg(top, step.x)}])
  /\ UNCHANGED <<conf, mem, vault, entry, calls>>

ImportData ==
  /\ At("import")
  /\ stack' = SetTop([Advance(top) EXCEPT !.pers = @ \cup {Reg(top, step.x)}])
  /\ UNCHANGED <<conf, mem, vault, entry, calls>>

Proceed ==
  /\ At("use") \/ At("commit")
  /\ stack' = SetTop(Advance(top))
  /\ UNCHANGED <<conf, mem, vault, entry, calls>>

\* Without a transport sealer the region itself is the result.
Enter ==
  /\ At("call")
  /\ LET a  == Reg(top, step.arg)
         fn == Resolve(step.fn, top.level)
         to == IF step.fn = "parent" THEN ParentLevel(top.level) ELSE top.level
     IN stack' = IF step.fn = "transport" /\ top.level \notin conf.transport
                 THEN SetTop(Advance(With(top, step.x, a)))
                 ELSE Append(stack, Frame(fn, to, a,
                        IF step.fn \in {"encrypt", "aes"} THEN Reg(top, "sec") ELSE 0, step.x))
  /\ UNCHANGED <<conf, mem, vault, entry, calls>>

\* addToContextVault, and the Import into the connection's vault
PublishData ==
  /\ At("publish")
  /\ vault' = vault \cup {Reg(top, step.x)}
  /\ stack' = SetTop(Advance(top))
  /\ UNCHANGED <<conf, mem, entry, calls>>

\* The caller takes the result up.
Resumed(f) ==
  LET rest == SubSeq(stack, 1, Len(stack) - 1)
      n    == Len(rest)
  IN IF n = 0 THEN <<>>
     ELSE [rest EXCEPT ![n] = Advance(With(@, f.dst, f.reg["out"]))]

\* without MarkAllReadOnly
ReturnWritable ==
  /\ stack # <<>> /\ ~running
  /\ mem' = Destroyed(top.defers)
  /\ stack' = Resumed(top)
  /\ UNCHANGED <<conf, vault, entry, calls>>

\* The end of a routine: its deferred Destroys run; Run then protects what is
\* in the persistent vault.
Return ==
  /\ stack # <<>> /\ ~running
  /\ mem' = MarkedReadOnly(Destroyed(top.defers), top.pers)
  /\ stack' = Resumed(top)
  /\ UNCHANGED <<conf, vault, entry, calls>>

\* Run's epilogue forgets the persistent vault
UnwoundKeepingVaults == UNION {stack[i].defers : i \in 1..Len(stack)}

\* What an error destroys on its way up: the deferred regions of every frame
\* and, since no frame's Run has a response, every persistent vault.
Unwound ==
  UNION {stack[i].defers \cup stack[i].pers : i \in 1..Len(stack)}

\* A step fails, or the context is found cancelled before or after a handler.
Fail ==
  /\ stack # <<>>
  /\ IF running THEN step.op \notin {"defer", "import"} ELSE top.fn \in Handlers
  /\ mem' = Destroyed(Unwound \cup
              IF At("publish") THEN {Reg(top, step.x)} ELSE {})
  /\ stack' = <<>>
  /\ UNCHANGED <<conf, vault, entry, calls>>

\* The RPC's stats.End, or the connection's TerminateHook: DestroyAll.
Terminate ==
  /\ stack = <<>> /\ vault # {}
  /\ mem' = Destroyed(vault)
  /\ vault' = {}
  /\ UNCHANGED <<conf, stack, entry, calls>>

Reachable ==
  vault \cup UNION {stack[i].defers \cup stack[i].pers
                      \cup {stack[i].reg[x] : x \in Names} : i \in 1..Len(stack)}

\* the cleanup was stopped with the allocation
CollectNothing(r) == FALSE /\ UNCHANGED vars

\* The garbage collector runs the cleanup of a region nobody refers to.
Collect(r) ==
  /\ r \in Live \ Reachable
  /\ mem' = Destroyed({r})
  /\ UNCHANGED <<conf, stack, vault, entry, calls>>

Step == NewData \/ DeferDestroy \/ ImportData \/ Proceed \/ Enter
          \/ PublishData \/ Return \/ Fail

Next ==
  \/ \E fn \in Entries, l \in 1..Depth : Start(fn, l)
  \/ Step
  \/ Terminate
  \/ \E r \in 1..Len(mem) : Collect(r)

Spec == Init /\ [][Next]_vars

\* A call goes on or fails, a finished RPC ends, the collector gets around;
\* a KMIP connection may stay open for ever.
FairSpec ==
  /\ Spec
  /\ WF_vars(Step) /\ WF_vars(entry # "handleGet" /\ Terminate)
  /\ WF_vars(\E r \in 1..Len(mem) : Collect(r))

---------------------------------------------------------------------------
(* Properties.                                                             *)

\* The regions that the next step hands to code that reads their bytes.
ReadNext ==
  CASE At("use") \/ At("import") \/ At("publish") -> {Reg(top, step.x)} \ {0}
    [] At("call") -> {Reg(top, step.arg)} \ {0}
    [] OTHER -> {}

\* Every region has a state; frames, vaults and deferred Destroys only name
\* regions that were allocated.
TypeOK ==
  /\ conf \in [top : Tops, transport : SUBSET (1..Depth),
               vault : {"exportOpenBao", "exportSQLite"}]
  /\ mem \in Seq({"rw", "ro", "gone"})
  /\ Reachable \subseteq 0..Len(mem) /\ vault \subseteq 1..Len(mem)
  /\ \A i \in 1..Len(stack) : stack[i].fn \in DOMAIN Body /\ stack[i].level \in 1..Depth
  /\ calls \in 0..MaxCalls

\* No routine reads a region that was destroyed, although the RPCManager
\* destroys the text it is given and createSecret and resolveSecret destroy
\* one region under two names when there is no transport sealer.
NoUseAfterDestroy == \A r \in ReadNext : mem[r] # "gone"

\* When a call has returned, by success or by an error at any depth, the only
\* regions left are those its RPC or connection vault will destroy; nothing
\* waits for the garbage collector. In the root's process this is not so: the
\* secret of a provider's sealer has no owner once the seal is over.
NothingLeftBehind == conf.top = "rpcSeal" /\ stack = <<>> => Live \subseteq vault

\* What the RPC or connection vault serves is alive and read-only until the
\* vault is destroyed: the response is serialised out of it.
ServedIsReadOnly == \A r \in vault : mem[r] = "ro"

\* Again and again there comes a moment when nothing is left but what an open
\* KMIP connection has been served: whatever calls failed where, every region is
\* destroyed, those without an owner by the cleanup the garbage collector runs.
EventuallyDestroyed ==
  []<>(Live \subseteq IF entry = "handleGet" THEN vault ELSE {})

=============================================================================
