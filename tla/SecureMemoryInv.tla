-------------------------- MODULE SecureMemoryInv --------------------------
(***************************************************************************)
(* The inductive invariant of SecureMemory: what the frames of the running *)
(* call own, in which order they came by it, and what they still read.     *)
(***************************************************************************)
EXTENDS SecureMemory

Routines == DOMAIN Body
Ops == {"alloc", "reserve", "defer", "use", "import", "publish", "commit", "call"}

\* the step writes the variable x, or hands its region to code that reads it
Assigns(s, x) == s.op \in {"alloc", "reserve", "call"} /\ s.x = x
Reads(s, x) ==
  \/ s.op \in {"use", "import", "publish"} /\ s.x = x
  \/ s.op = "call" /\ (s.arg = x \/ (x = "sec" /\ s.fn \in {"encrypt", "aes"}))

\* x was written by a step before pc; x is read from pc on, or returned
SetBefore(fn, pc, x) == \E i \in 1..(pc - 1) : Assigns(Body[fn][i], x)
Needs(fn, pc) ==
  {x \in Names : x = "out" \/ \E i \in pc..Len(Body[fn]) : Reads(Body[fn][i], x)}

\* The variables whose regions are the caller's. The RPCManager takes over
\* the text it is given.
Params(fn) ==
  IF fn \in {"aes", "encrypt"} THEN {"in", "sec"}
  ELSE IF fn = "rpcSeal" THEN {} ELSE {"in"}

Owned(f) == {f.reg[x] : x \in Names \ Params(f.fn)} \cup f.defers \cup f.pers
Named(f) == {f.reg[x] : x \in Names} \cup f.defers \cup f.pers

FrameType ==
  [fn : Routines, level : 1..Depth, pc : Nat \ {0}, dst : Names \cup {"none"},
   defers : SUBSET Nat, pers : SUBSET Nat, reg : [Names -> Nat]]

TypeInv ==
  /\ conf \in [top : Tops, transport : SUBSET (1..Depth),
               vault : {"exportOpenBao", "exportSQLite"}]
  /\ mem \in Seq({"rw", "ro", "gone"})
  /\ stack \in Seq(FrameType)
  /\ vault \subseteq 1..Len(mem)
  /\ calls \in 0..MaxCalls
  /\ \A i \in 1..Len(stack) :
       /\ stack[i].pc <= Len(Body[stack[i].fn]) + 1
       /\ Named(stack[i]) \subseteq 0..Len(mem)

\* The frame above i runs the call frame i stands at.
Linked(i) ==
  LET f == stack[i]
      g == stack[i + 1]
      s == Body[f.fn][f.pc]
  IN /\ f.pc <= Len(Body[f.fn]) /\ s.op = "call"
     /\ g.fn = Resolve(s.fn, f.level) /\ g.dst = s.x
     /\ g.fn = "rpcSeal" => s.fn = "parent" /\ g.reg["in"] = f.reg[s.arg]

\* A variable holds a region when a step has written it, and not before.
Written(f) ==
  /\ \A x \in Names \ Params(f.fn) :
       x # "in" /\ ~SetBefore(f.fn, f.pc, x) => f.reg[x] = 0
  /\ \A x \in Names : SetBefore(f.fn, f.pc, x) => f.reg[x] # 0

\* The result is the youngest region of a frame.
ResultLast(f) ==
  f.reg["out"] # 0 =>
    /\ \A x \in Names \ {"out"} : f.reg[x] < f.reg["out"]
    /\ \A r \in f.defers : r < f.reg["out"]

\* The persistent vault is for the result.
KeptForCaller(f) ==
  /\ f.pers \subseteq {0, f.reg["out"]}
  /\ f.pc > 1 /\ Body[f.fn][f.pc - 1].op = "import" => f.reg["out"] \in f.pers
  /\ f.fn \in {"Seal", "handleGet"} => f.defers = {} /\ f.pers = {}

FrameInv(f) == Written(f) /\ ResultLast(f) /\ KeptForCaller(f)

\* The step from which on frame i reads its variables again.
Cursor(i) == IF i = Len(stack) THEN stack[i].pc ELSE stack[i].pc + 1

\* What a frame still reads is alive.
Alive(i) ==
  \A x \in Needs(stack[i].fn, Cursor(i)) :
    stack[i].reg[x] # 0 => mem[stack[i].reg[x]] # "gone"

\* What a frame owns is younger than all its callers name, but for the text
\* the RPCManager was given.
Younger(i, j) ==
  \A r \in Owned(stack[j]) \ {0}, q \in Named(stack[i]) :
    r > q \/ (stack[j].fn = "rpcSeal" /\ j = i + 1 /\ r = stack[j].reg["in"])

\* The vault's regions are older, but for the one just published.
AboveVault(f) ==
  \/ f.fn \in {"Seal", "handleGet"} /\ f.pc > 2
  \/ \A r \in Owned(f) \ {0}, v \in vault : r > v

\* The result waiting to be published is protected.
ReadyToPublish(f) ==
  f.fn \in {"Seal", "handleGet"} /\ f.pc = 2 => mem[f.reg["out"]] = "ro"

StackInv ==
  /\ \A i \in 1..(Len(stack) - 1) : Linked(i)
  /\ stack # <<>> => stack[1].fn \in {"createSecret", "Seal", "handleGet", "importSpec"}
  /\ \A i \in 1..Len(stack) :
       /\ FrameInv(stack[i]) /\ Alive(i)
       /\ AboveVault(stack[i]) /\ ReadyToPublish(stack[i])
       /\ \A j \in (i + 1)..Len(stack) : Younger(i, j)
  /\ ServedIsReadOnly

\* The routines of a process whose highest kind is sealed by another process.
AgentRoutines ==
  Routines \ {"rootSeal", "exportSpec", "importSpec", "loadSecret", "handleGet"}

\* The region the running frame has got and not yet passed on.
Pending ==
  IF stack # <<>> /\ top.pc > 1 /\ Body[top.fn][top.pc - 1].op \in {"alloc", "call"}
  THEN {top.reg[Body[top.fn][top.pc - 1].x]} ELSE {}

\* Someone is going to destroy the region r.
Kept(r) ==
  \/ r \in vault \cup Pending
  \/ \E i \in 1..Len(stack) : r \in stack[i].defers \cup stack[i].pers

\* Every region has an owner at every moment of a call.
OwnedInv ==
  conf.top = "rpcSeal" =>
    /\ \A i \in 1..Len(stack) : stack[i].fn \in AgentRoutines
    /\ \A r \in Live : Kept(r)

MemInv == TypeInv /\ StackInv /\ OwnedInv

=============================================================================
