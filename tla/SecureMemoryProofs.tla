------------------------- MODULE SecureMemoryProofs -------------------------
(***************************************************************************)
(* The three invariants of SecureMemory, for every depth of the key        *)
(* hierarchy, every choice of transport sealers and every number of calls. *)
(***************************************************************************)
EXTENDS SecureMemoryInv, TLAPS

-----------------------------------------------------------------------------
(* The routines, one by one.                                               *)

Publishers == {"Seal", "handleGet"}
Writes == {"alloc", "reserve", "call"}
Interfaces == {"parent", "manager", "transport", "exportKey"}
Direct == {"generateSecret", "resolveSecret", "encrypt", "aes", "sealHandler",
           "exportSpec", "loadSecret"}

\* The fields of a step.
Fields(s) ==
  /\ s.op \in Ops
  /\ s.op \notin {"commit", "call"} => s.x \in Names
  /\ s.op = "call" => /\ s.x \in Names \cup {"none"}
                      /\ s.arg \in Names \cup {"none"}
                      /\ s.fn \in Interfaces \cup Direct
                      /\ s.x = "none" <=> s.fn = "exportSpec"

\* The result is written last, no parameter is written, only the result is
\* handed on through the persistent vault, and it is never deferred.
Frugal(fn, i, s) ==
  /\ s.op \in Writes =>
       /\ s.x # "in" /\ s.x \notin Params(fn)
       /\ ~SetBefore(fn, i, "out")
  /\ s.op = "defer" => s.x # "out" /\ s.x \notin Params(fn)
  /\ s.op \in {"import", "reserve"} => s.x = "out"
  /\ s.op = "import" => SetBefore(fn, i, "out")
  /\ s.op = "call" => fn # "rpcSeal"
  /\ s.op = "call" /\ fn \in AgentRoutines => s.fn \notin {"exportSpec", "loadSecret"}

\* The callers of the RPCManager forget the text they give it; without a
\* transport sealer a region of the routine's own gets a second name.
GivesAway(fn, i, s) ==
  /\ s.op = "call" /\ s.fn = "parent" =>
       /\ s.arg \in Names \ Params(fn)
       /\ \A x \in Needs(fn, i + 1) : /\ x # "in" /\ x \notin Params(fn)
                                      /\ ~SetBefore(fn, i, x)
  /\ s.op = "call" /\ s.fn = "transport" =>
       /\ s.arg \in Names \ Params(fn) /\ SetBefore(fn, i, s.arg)
       /\ s.x \in Names \ {"out"}

\* The routines that publish call one that imports its result, and publish it.
Publishes(fn, i, s) ==
  /\ s.op = "publish" => /\ fn \in Publishers /\ i = 2 /\ s.x = "out"
                         /\ SetBefore(fn, i, "out")
  /\ fn \in Publishers =>
       /\ s.op \in {"call", "publish"} /\ i <= 2
       /\ s.op = "call" => /\ i = 1 /\ s.x = "out"
                           /\ s.fn \in {"sealHandler", "resolveSecret"}

\* Where the root's routines play no part, a region got by a step is owned or
\* returned by the next.
PassesOn(fn, i, s) ==
  s.op \in {"alloc", "call"} /\ fn \in AgentRoutines =>
    /\ s.x # "none"
    /\ \/ /\ i < Len(Body[fn]) /\ Body[fn][i + 1].op \in {"defer", "import", "publish"}
          /\ Body[fn][i + 1].x = s.x
       \/ /\ i = Len(Body[fn]) /\ s.x = "out"
          /\ fn \notin Handlers \cup {"createSecret", "Seal"}

\* The routine behind a call: it returns a region where one is expected.
Reaches(fn, s) ==
  s.op = "call" => \A level \in 1..Depth :
    LET g == Resolve(s.fn, level)
    IN /\ g \in Routines \ Publishers
       /\ s.x # "none" => SetBefore(g, Len(Body[g]) + 1, "out")
       /\ conf.top = "rpcSeal" /\ fn \in AgentRoutines => g \in AgentRoutines
       /\ g = "rpcSeal" => s.fn = "parent"
       /\ s.fn \in {"encrypt", "aes", "sealHandler", "resolveSecret"} => g = s.fn

StepSound(fn, i) ==
  LET s == Body[fn][i]
  IN /\ Fields(s) /\ Frugal(fn, i, s) /\ GivesAway(fn, i, s)
     /\ Publishes(fn, i, s) /\ PassesOn(fn, i, s)

RoutineSound(fn) ==
  /\ Len(Body[fn]) \in Nat \ {0}
  /\ \A i \in 1..Len(Body[fn]) : StepSound(fn, i)

\* The routines by name.
LEMMA Table ==
  /\ Routines = {"createSecret", "resolveSecret", "encrypt", "aes",
                 "transportSeal", "generateSecret", "exportOpenBao",
                 "exportSQLite", "managerSeal", "rpcSeal", "rootSeal",
                 "exportSpec", "importSpec", "loadSecret", "sealHandler",
                 "Seal", "handleGet"}
  /\ Body["createSecret"] = createSecret
  /\ Body["resolveSecret"] = resolveSecret
  /\ Body["encrypt"] = encrypt
  /\ Body["aes"] = aes
  /\ Body["transportSeal"] = transportSeal
  /\ Body["generateSecret"] = generateSecret
  /\ Body["exportOpenBao"] = exportOpenBao
  /\ Body["exportSQLite"] = exportSQLite
  /\ Body["managerSeal"] = managerSeal
  /\ Body["rpcSeal"] = rpcSeal
  /\ Body["rootSeal"] = rootSeal
  /\ Body["exportSpec"] = exportSpec
  /\ Body["importSpec"] = importSpec
  /\ Body["loadSecret"] = loadSecret
  /\ Body["sealHandler"] = sealHandler
  /\ Body["Seal"] = Seal
  /\ Body["handleGet"] = handleGet
BY DEF Routines, Body

\* createSecret
LEMMA CreateSecretCode ==
  /\ Len(Body["createSecret"]) = 7
  /\ Body["createSecret"][1] = Call("generateSecret", "none", "gen")
  /\ Body["createSecret"][2] = Defer("gen")
  /\ Body["createSecret"][3] = Call("transport", "gen", "trans")
  /\ Body["createSecret"][4] = Defer("trans")
  /\ Body["createSecret"][5] = Call("parent", "trans", "par")
  /\ Body["createSecret"][6] = Defer("par")
  /\ Body["createSecret"][7] = Use("par")
BY Table DEF createSecret

\* resolveSecret
LEMMA ResolveSecretCode ==
  /\ Len(Body["resolveSecret"]) = 9
  /\ Body["resolveSecret"][1] = Call("exportKey", "none", "exp")
  /\ Body["resolveSecret"][2] = Defer("exp")
  /\ Body["resolveSecret"][3] = Call("parent", "exp", "par")
  /\ Body["resolveSecret"][4] = Defer("par")
  /\ Body["resolveSecret"][5] = Call("transport", "par", "trans")
  /\ Body["resolveSecret"][6] = Defer("trans")
  /\ Body["resolveSecret"][7] = Use("trans")
  /\ Body["resolveSecret"][8] = Alloc("out")
  /\ Body["resolveSecret"][9] = Import("out")
BY Table DEF resolveSecret

\* encrypt
LEMMA EncryptCode ==
  /\ Len(Body["encrypt"]) = 2
  /\ Body["encrypt"][1] = Call("aes", "in", "out")
  /\ Body["encrypt"][2] = Import("out")
BY Table DEF encrypt

\* aes
LEMMA AesCode ==
  /\ Len(Body["aes"]) = 3
  /\ Body["aes"][1] = Use("sec")
  /\ Body["aes"][2] = Reserve("out")
  /\ Body["aes"][3] = Use("in")
BY Table DEF aes

\* transportSeal
LEMMA TransportSealCode ==
  /\ Len(Body["transportSeal"]) = 1
  /\ Body["transportSeal"][1] = Call("aes", "in", "out")
BY Table DEF transportSeal

\* generateSecret
LEMMA GenerateSecretCode ==
  /\ Len(Body["generateSecret"]) = 1
  /\ Body["generateSecret"][1] = Reserve("out")
BY Table DEF generateSecret

\* exportOpenBao
LEMMA ExportOpenBaoCode ==
  /\ Len(Body["exportOpenBao"]) = 2
  /\ Body["exportOpenBao"][1] = Reserve("out")
  /\ Body["exportOpenBao"][2] = Use("out")
BY Table DEF exportOpenBao

\* exportSQLite
LEMMA ExportSQLiteCode ==
  /\ Len(Body["exportSQLite"]) = 1
  /\ Body["exportSQLite"][1] = Alloc("out")
BY Table DEF exportSQLite

\* managerSeal
LEMMA ManagerSealCode ==
  /\ Len(Body["managerSeal"]) = 3
  /\ Body["managerSeal"][1] = Call("resolveSecret", "none", "sec")
  /\ Body["managerSeal"][2] = Defer("sec")
  /\ Body["managerSeal"][3] = Call("encrypt", "in", "out")
BY Table DEF managerSeal

\* rpcSeal
LEMMA RpcSealCode ==
  /\ Len(Body["rpcSeal"]) = 4
  /\ Body["rpcSeal"][1] = Defer("in")
  /\ Body["rpcSeal"][2] = Use("in")
  /\ Body["rpcSeal"][3] = Alloc("out")
  /\ Body["rpcSeal"][4] = Import("out")
BY Table DEF rpcSeal

\* rootSeal
LEMMA RootSealCode ==
  /\ Len(Body["rootSeal"]) = 5
  /\ Body["rootSeal"][1] = Do("exportSpec")
  /\ Body["rootSeal"][2] = Call("loadSecret", "none", "sec")
  /\ Body["rootSeal"][3] = Use("sec")
  /\ Body["rootSeal"][4] = Call("aes", "in", "out")
  /\ Body["rootSeal"][5] = Commit
BY Table DEF rootSeal

\* exportSpec
LEMMA ExportSpecCode ==
  /\ Len(Body["exportSpec"]) = 3
  /\ Body["exportSpec"][1] = Call("exportKey", "none", "exp")
  /\ Body["exportSpec"][2] = Defer("exp")
  /\ Body["exportSpec"][3] = Use("exp")
BY Table DEF exportSpec

\* importSpec
LEMMA ImportSpecCode ==
  /\ Len(Body["importSpec"]) = 3
  /\ Body["importSpec"][1] = Alloc("exp")
  /\ Body["importSpec"][2] = Defer("exp")
  /\ Body["importSpec"][3] = Use("exp")
BY Table DEF importSpec

\* loadSecret
LEMMA LoadSecretCode ==
  /\ Len(Body["loadSecret"]) = 1
  /\ Body["loadSecret"][1] = Reserve("out")
BY Table DEF loadSecret

\* sealHandler
LEMMA SealHandlerCode ==
  /\ Len(Body["sealHandler"]) = 4
  /\ Body["sealHandler"][1] = Alloc("txt")
  /\ Body["sealHandler"][2] = Defer("txt")
  /\ Body["sealHandler"][3] = Call("manager", "txt", "out")
  /\ Body["sealHandler"][4] = Import("out")
BY Table DEF sealHandler

\* Seal
LEMMA SealCode ==
  /\ Len(Body["Seal"]) = 2
  /\ Body["Seal"][1] = Call("sealHandler", "none", "out")
  /\ Body["Seal"][2] = Publish("out")
BY Table DEF Seal

\* handleGet
LEMMA HandleGetCode ==
  /\ Len(Body["handleGet"]) = 2
  /\ Body["handleGet"][1] = Call("resolveSecret", "none", "out")
  /\ Body["handleGet"][2] = Publish("out")
BY Table DEF handleGet

\* Steps of createSecret
LEMMA CreateSecretSound == RoutineSound("createSecret")
<1> USE CreateSecretCode DEF StepSound, Fields, Frugal, GivesAway, Publishes, PassesOn,
            SetBefore, Needs, Assigns, Reads, Params, Names, Ops, Writes, Publishers,
            Interfaces, Direct, AgentRoutines, Handlers, Call, Defer, Use
<1>1. StepSound("createSecret", 1)
  OBVIOUS
<1>2. StepSound("createSecret", 2)
  OBVIOUS
<1>3. StepSound("createSecret", 3)
  OBVIOUS
<1>4. StepSound("createSecret", 4)
  OBVIOUS
<1>5. StepSound("createSecret", 5)
  OBVIOUS
<1>6. StepSound("createSecret", 6)
  OBVIOUS
<1>7. StepSound("createSecret", 7)
  OBVIOUS
<1> HIDE DEF StepSound
<1> QED
  BY <1>1, <1>2, <1>3, <1>4, <1>5, <1>6, <1>7 DEF RoutineSound

\* Steps of resolveSecret
LEMMA ResolveSecretSound == RoutineSound("resolveSecret")
<1> USE ResolveSecretCode DEF StepSound, Fields, Frugal, GivesAway, Publishes, PassesOn,
            SetBefore, Needs, Assigns, Reads, Params, Names, Ops, Writes, Publishers,
            Interfaces, Direct, AgentRoutines, Handlers, Alloc, Call, Defer, Import, Use
<1>1. StepSound("resolveSecret", 1)
  OBVIOUS
<1>2. StepSound("resolveSecret", 2)
  OBVIOUS
<1>3. StepSound("resolveSecret", 3)
  OBVIOUS
<1>4. StepSound("resolveSecret", 4)
  OBVIOUS
<1>5. StepSound("resolveSecret", 5)
  OBVIOUS
<1>6. StepSound("resolveSecret", 6)
  OBVIOUS
<1>7. StepSound("resolveSecret", 7)
  OBVIOUS
<1>8. StepSound("resolveSecret", 8)
  OBVIOUS
<1>9. StepSound("resolveSecret", 9)
  OBVIOUS
<1> HIDE DEF StepSound
<1> QED
  BY <1>1, <1>2, <1>3, <1>4, <1>5, <1>6, <1>7, <1>8, <1>9 DEF RoutineSound

\* Steps of encrypt
LEMMA EncryptSound == RoutineSound("encrypt")
<1> USE EncryptCode DEF StepSound, Fields, Frugal, GivesAway, Publishes, PassesOn,
            SetBefore, Needs, Assigns, Reads, Params, Names, Ops, Writes, Publishers,
            Interfaces, Direct, AgentRoutines, Handlers, Call, Import
<1>1. StepSound("encrypt", 1)
  OBVIOUS
<1>2. StepSound("encrypt", 2)
  OBVIOUS
<1> HIDE DEF StepSound
<1> QED
  BY <1>1, <1>2 DEF RoutineSound

\* Steps of aes
LEMMA AesSound == RoutineSound("aes")
<1> USE AesCode DEF StepSound, Fields, Frugal, GivesAway, Publishes, PassesOn,
            SetBefore, Needs, Assigns, Reads, Params, Names, Ops, Writes, Publishers,
            Interfaces, Direct, AgentRoutines, Handlers, Reserve, Use
<1>1. StepSound("aes", 1)
  OBVIOUS
<1>2. StepSound("aes", 2)
  OBVIOUS
<1>3. StepSound("aes", 3)
  OBVIOUS
<1> HIDE DEF StepSound
<1> QED
  BY <1>1, <1>2, <1>3 DEF RoutineSound

\* Steps of transportSeal
LEMMA TransportSealSound == RoutineSound("transportSeal")
<1> USE TransportSealCode DEF StepSound, Fields, Frugal, GivesAway, Publishes, PassesOn,
            SetBefore, Needs, Assigns, Reads, Params, Names, Ops, Writes, Publishers,
            Interfaces, Direct, AgentRoutines, Handlers, Call
<1>1. StepSound("transportSeal", 1)
  OBVIOUS
<1> HIDE DEF StepSound
<1> QED
  BY <1>1 DEF RoutineSound

\* Steps of generateSecret
LEMMA GenerateSecretSound == RoutineSound("generateSecret")
<1> USE GenerateSecretCode DEF StepSound, Fields, Frugal, GivesAway, Publishes, PassesOn,
            SetBefore, Needs, Assigns, Reads, Params, Names, Ops, Writes, Publishers,
            Interfaces, Direct, AgentRoutines, Handlers, Reserve
<1>1. StepSound("generateSecret", 1)
  OBVIOUS
<1> HIDE DEF StepSound
<1> QED
  BY <1>1 DEF RoutineSound

\* Steps of exportOpenBao
LEMMA ExportOpenBaoSound == RoutineSound("exportOpenBao")
<1> USE ExportOpenBaoCode DEF StepSound, Fields, Frugal, GivesAway, Publishes, PassesOn,
            SetBefore, Needs, Assigns, Reads, Params, Names, Ops, Writes, Publishers,
            Interfaces, Direct, AgentRoutines, Handlers, Reserve, Use
<1>1. StepSound("exportOpenBao", 1)
  OBVIOUS
<1>2. StepSound("exportOpenBao", 2)
  OBVIOUS
<1> HIDE DEF StepSound
<1> QED
  BY <1>1, <1>2 DEF RoutineSound

\* Steps of exportSQLite
LEMMA ExportSQLiteSound == RoutineSound("exportSQLite")
<1> USE ExportSQLiteCode DEF StepSound, Fields, Frugal, GivesAway, Publishes, PassesOn,
            SetBefore, Needs, Assigns, Reads, Params, Names, Ops, Writes, Publishers,
            Interfaces, Direct, AgentRoutines, Handlers, Alloc
<1>1. StepSound("exportSQLite", 1)
  OBVIOUS
<1> HIDE DEF StepSound
<1> QED
  BY <1>1 DEF RoutineSound

\* Steps of managerSeal
LEMMA ManagerSealSound == RoutineSound("managerSeal")
<1> USE ManagerSealCode DEF StepSound, Fields, Frugal, GivesAway, Publishes, PassesOn,
            SetBefore, Needs, Assigns, Reads, Params, Names, Ops, Writes, Publishers,
            Interfaces, Direct, AgentRoutines, Handlers, Call, Defer
<1>1. StepSound("managerSeal", 1)
  OBVIOUS
<1>2. StepSound("managerSeal", 2)
  OBVIOUS
<1>3. StepSound("managerSeal", 3)
  OBVIOUS
<1> HIDE DEF StepSound
<1> QED
  BY <1>1, <1>2, <1>3 DEF RoutineSound

\* Steps of rpcSeal
LEMMA RpcSealSound == RoutineSound("rpcSeal")
<1> USE RpcSealCode DEF StepSound, Fields, Frugal, GivesAway, Publishes, PassesOn,
            SetBefore, Needs, Assigns, Reads, Params, Names, Ops, Writes, Publishers,
            Interfaces, Direct, AgentRoutines, Handlers, Alloc, Defer, Import, Use
<1>1. StepSound("rpcSeal", 1)
  OBVIOUS
<1>2. StepSound("rpcSeal", 2)
  OBVIOUS
<1>3. StepSound("rpcSeal", 3)
  OBVIOUS
<1>4. StepSound("rpcSeal", 4)
  OBVIOUS
<1> HIDE DEF StepSound
<1> QED
  BY <1>1, <1>2, <1>3, <1>4 DEF RoutineSound

\* Steps of rootSeal
LEMMA RootSealSound == RoutineSound("rootSeal")
<1> USE RootSealCode DEF StepSound, Fields, Frugal, GivesAway, Publishes, PassesOn,
            SetBefore, Needs, Assigns, Reads, Params, Names, Ops, Writes, Publishers,
            Interfaces, Direct, AgentRoutines, Handlers, Call, Commit, Do, Use
<1>1. StepSound("rootSeal", 1)
  OBVIOUS
<1>2. StepSound("rootSeal", 2)
  OBVIOUS
<1>3. StepSound("rootSeal", 3)
  OBVIOUS
<1>4. StepSound("rootSeal", 4)
  OBVIOUS
<1>5. StepSound("rootSeal", 5)
  OBVIOUS
<1> HIDE DEF StepSound
<1> QED
  BY <1>1, <1>2, <1>3, <1>4, <1>5 DEF RoutineSound

\* Steps of exportSpec
LEMMA ExportSpecSound == RoutineSound("exportSpec")
<1> USE ExportSpecCode DEF StepSound, Fields, Frugal, GivesAway, Publishes, PassesOn,
            SetBefore, Needs, Assigns, Reads, Params, Names, Ops, Writes, Publishers,
            Interfaces, Direct, AgentRoutines, Handlers, Call, Defer, Use
<1>1. StepSound("exportSpec", 1)
  OBVIOUS
<1>2. StepSound("exportSpec", 2)
  OBVIOUS
<1>3. StepSound("exportSpec", 3)
  OBVIOUS
<1> HIDE DEF StepSound
<1> QED
  BY <1>1, <1>2, <1>3 DEF RoutineSound

\* Steps of importSpec
LEMMA ImportSpecSound == RoutineSound("importSpec")
<1> USE ImportSpecCode DEF StepSound, Fields, Frugal, GivesAway, Publishes, PassesOn,
            SetBefore, Needs, Assigns, Reads, Params, Names, Ops, Writes, Publishers,
            Interfaces, Direct, AgentRoutines, Handlers, Alloc, Defer, Use
<1>1. StepSound("importSpec", 1)
  OBVIOUS
<1>2. StepSound("importSpec", 2)
  OBVIOUS
<1>3. StepSound("importSpec", 3)
  OBVIOUS
<1> HIDE DEF StepSound
<1> QED
  BY <1>1, <1>2, <1>3 DEF RoutineSound

\* Steps of loadSecret
LEMMA LoadSecretSound == RoutineSound("loadSecret")
<1> USE LoadSecretCode DEF StepSound, Fields, Frugal, GivesAway, Publishes, PassesOn,
            SetBefore, Needs, Assigns, Reads, Params, Names, Ops, Writes, Publishers,
            Interfaces, Direct, AgentRoutines, Handlers, Reserve
<1>1. StepSound("loadSecret", 1)
  OBVIOUS
<1> HIDE DEF StepSound
<1> QED
  BY <1>1 DEF RoutineSound

\* Steps of sealHandler
LEMMA SealHandlerSound == RoutineSound("sealHandler")
<1> USE SealHandlerCode DEF StepSound, Fields, Frugal, GivesAway, Publishes, PassesOn,
            SetBefore, Needs, Assigns, Reads, Params, Names, Ops, Writes, Publishers,
            Interfaces, Direct, AgentRoutines, Handlers, Alloc, Call, Defer, Import
<1>1. StepSound("sealHandler", 1)
  OBVIOUS
<1>2. StepSound("sealHandler", 2)
  OBVIOUS
<1>3. StepSound("sealHandler", 3)
  OBVIOUS
<1>4. StepSound("sealHandler", 4)
  OBVIOUS
<1> HIDE DEF StepSound
<1> QED
  BY <1>1, <1>2, <1>3, <1>4 DEF RoutineSound

\* Steps of Seal
LEMMA SealSound == RoutineSound("Seal")
<1> USE SealCode DEF StepSound, Fields, Frugal, GivesAway, Publishes, PassesOn,
            SetBefore, Needs, Assigns, Reads, Params, Names, Ops, Writes, Publishers,
            Interfaces, Direct, AgentRoutines, Handlers, Call, Publish
<1>1. StepSound("Seal", 1)
  OBVIOUS
<1>2. StepSound("Seal", 2)
  OBVIOUS
<1> HIDE DEF StepSound
<1> QED
  BY <1>1, <1>2 DEF RoutineSound

\* Steps of handleGet
LEMMA HandleGetSound == RoutineSound("handleGet")
<1> USE HandleGetCode DEF StepSound, Fields, Frugal, GivesAway, Publishes, PassesOn,
            SetBefore, Needs, Assigns, Reads, Params, Names, Ops, Writes, Publishers,
            Interfaces, Direct, AgentRoutines, Handlers, Call, Publish
<1>1. StepSound("handleGet", 1)
  OBVIOUS
<1>2. StepSound("handleGet", 2)
  OBVIOUS
<1> HIDE DEF StepSound
<1> QED
  BY <1>1, <1>2 DEF RoutineSound

\* Every step of every routine.
LEMMA AllSound == \A fn \in Routines : RoutineSound(fn)
BY Table, Zenon, CreateSecretSound, ResolveSecretSound, EncryptSound, AesSound,
     TransportSealSound, GenerateSecretSound, ExportOpenBaoSound,
     ExportSQLiteSound, ManagerSealSound, RpcSealSound, RootSealSound,
     ExportSpecSound, ImportSpecSound, LoadSecretSound, SealHandlerSound,
     SealSound, HandleGetSound

\* The routines that are called for a region return one.
LEMMA Results ==
  \A fn \in {"managerSeal", "rpcSeal", "rootSeal", "transportSeal", "exportOpenBao",
             "exportSQLite"} \cup (Direct \ {"exportSpec"}) :
    SetBefore(fn, Len(Body[fn]) + 1, "out")
<1>1. SetBefore("managerSeal", Len(Body["managerSeal"]) + 1, "out")
  BY ManagerSealCode DEF SetBefore, Assigns, Call
<1>2. SetBefore("rpcSeal", Len(Body["rpcSeal"]) + 1, "out")
  BY RpcSealCode DEF SetBefore, Assigns, Alloc
<1>3. SetBefore("rootSeal", Len(Body["rootSeal"]) + 1, "out")
  BY RootSealCode DEF SetBefore, Assigns, Call
<1>4. SetBefore("transportSeal", Len(Body["transportSeal"]) + 1, "out")
  BY TransportSealCode DEF SetBefore, Assigns, Call
<1>5. SetBefore("exportOpenBao", Len(Body["exportOpenBao"]) + 1, "out")
  BY ExportOpenBaoCode DEF SetBefore, Assigns, Reserve
<1>6. SetBefore("exportSQLite", Len(Body["exportSQLite"]) + 1, "out")
  BY ExportSQLiteCode DEF SetBefore, Assigns, Alloc
<1>7. SetBefore("generateSecret", Len(Body["generateSecret"]) + 1, "out")
  BY GenerateSecretCode DEF SetBefore, Assigns, Reserve
<1>8. SetBefore("resolveSecret", Len(Body["resolveSecret"]) + 1, "out")
  BY ResolveSecretCode DEF SetBefore, Assigns, Alloc
<1>9. SetBefore("encrypt", Len(Body["encrypt"]) + 1, "out")
  BY EncryptCode DEF SetBefore, Assigns, Call
<1>10. SetBefore("aes", Len(Body["aes"]) + 1, "out")
  BY AesCode DEF SetBefore, Assigns, Reserve
<1>11. SetBefore("sealHandler", Len(Body["sealHandler"]) + 1, "out")
  BY SealHandlerCode DEF SetBefore, Assigns, Call
<1>12. SetBefore("loadSecret", Len(Body["loadSecret"]) + 1, "out")
  BY LoadSecretCode DEF SetBefore, Assigns, Reserve
<1> QED
  BY <1>1, <1>2, <1>3, <1>4, <1>5, <1>6, <1>7, <1>8, <1>9, <1>10, <1>11, <1>12, Zenon DEF Direct

\* The routines that end by importing their result.
LEMMA Importers ==
  \A fn \in {"sealHandler", "resolveSecret"} : Body[fn][Len(Body[fn])].op = "import"
<1>1. Body["sealHandler"][Len(Body["sealHandler"])].op = "import"
  BY SealHandlerCode DEF Import
<1>2. Body["resolveSecret"][Len(Body["resolveSecret"])].op = "import"
  BY ResolveSecretCode DEF Import
<1> QED
  BY <1>1, <1>2, Zenon

\* A call leads to a routine that does what its caller expects.
LEMMA AllReach ==
  ASSUME conf.top \in {"rpcSeal", "rootSeal"},
         conf.vault \in {"exportOpenBao", "exportSQLite"},
         NEW fn \in Routines, NEW i \in 1..Len(Body[fn])
  PROVE  Reaches(fn, Body[fn][i])
<1> SUFFICES ASSUME Body[fn][i].op = "call", NEW level \in 1..Depth
             PROVE  LET s == Body[fn][i]
                        g == Resolve(s.fn, level)
                    IN /\ g \in Routines \ Publishers
                       /\ s.x # "none" => SetBefore(g, Len(Body[g]) + 1, "out")
                       /\ conf.top = "rpcSeal" /\ fn \in AgentRoutines => g \in AgentRoutines
                       /\ g = "rpcSeal" => s.fn = "parent"
                       /\ s.fn \in {"encrypt", "aes", "sealHandler", "resolveSecret"} => g = s.fn
  BY Zenon DEF Reaches
<1> DEFINE s == Body[fn][i]
           g == Resolve(s.fn, level)
<1>1. /\ s.fn \in Interfaces \cup Direct /\ (s.x = "none" <=> s.fn = "exportSpec")
      /\ fn \in AgentRoutines => s.fn \notin {"exportSpec", "loadSecret"}
  BY AllSound, Zenon DEF RoutineSound, StepSound, Fields, Frugal
<1>2. /\ s.fn = "parent" => g \in {"managerSeal", conf.top}
      /\ s.fn = "manager" => g = "managerSeal"
      /\ s.fn = "transport" => g = "transportSeal"
      /\ s.fn = "exportKey" => g = conf.vault
      /\ s.fn \in Direct => g = s.fn
  BY DEF Resolve, Direct
<1> HIDE DEF s, g
<1>3. g \in {"managerSeal", conf.top, "transportSeal", conf.vault} \cup Direct
  BY <1>1, <1>2, Zenon DEF Interfaces
<1>4. g \in Routines \ Publishers
  BY <1>3, Table DEF Publishers, Direct
<1>5. s.x # "none" => SetBefore(g, Len(Body[g]) + 1, "out")
  BY <1>1, <1>2, Results DEF Interfaces, Direct
<1>6. conf.top = "rpcSeal" /\ fn \in AgentRoutines => g \in AgentRoutines
  BY <1>1, <1>2, Table DEF Interfaces, Direct, AgentRoutines
<1>7. g = "rpcSeal" => s.fn = "parent"
  BY <1>1, <1>2 DEF Interfaces, Direct
<1>8. s.fn \in {"encrypt", "aes", "sealHandler", "resolveSecret"} => g = s.fn
  BY <1>2 DEF Direct
<1> QED
  BY <1>4, <1>5, <1>6, <1>7, <1>8, Zenon DEF s, g

-----------------------------------------------------------------------------
(* Frames.                                                                 *)

\* One step further on in a routine.
LEMMA SetNext ==
  ASSUME NEW fn, NEW pc \in Nat \ {0}, NEW x
  PROVE  SetBefore(fn, pc + 1, x) <=> SetBefore(fn, pc, x) \/ Assigns(Body[fn][pc], x)
<1>1. 1..((pc + 1) - 1) = 1..(pc - 1) \cup {pc}
  OBVIOUS
<1> QED
  BY <1>1, Zenon DEF SetBefore

\* What is read later on is read from here on.
LEMMA NeedsNext ==
  ASSUME NEW fn \in Routines, NEW pc \in Nat \ {0}, pc <= Len(Body[fn])
  PROVE  /\ Needs(fn, pc + 1) \subseteq Needs(fn, pc)
         /\ \A x \in Names : Reads(Body[fn][pc], x) => x \in Needs(fn, pc)
<1>1. pc \in pc..Len(Body[fn]) /\ (pc + 1)..Len(Body[fn]) \subseteq pc..Len(Body[fn])
  BY AllSound DEF RoutineSound
<1> QED
  BY <1>1, Zenon DEF Needs

\* The step a frame stands at.
LEMMA StepAt ==
  ASSUME NEW f \in FrameType, f.pc <= Len(Body[f.fn])
  PROVE  /\ StepSound(f.fn, f.pc) /\ f.fn \in Routines /\ f.pc \in Nat \ {0}
         /\ f.pc \in 1..Len(Body[f.fn]) /\ Len(Body[f.fn]) \in Nat \ {0}
<1>1. f.fn \in Routines /\ f.pc \in Nat \ {0}
  BY DEF FrameType
<1>2. Len(Body[f.fn]) \in Nat \ {0}
  BY <1>1, AllSound, Zenon DEF RoutineSound
<1>3. f.pc \in 1..Len(Body[f.fn])
  BY <1>1, <1>2
<1> QED
  BY <1>1, <1>2, <1>3, AllSound, Zenon DEF RoutineSound

\* The result is never a parameter.
LEMMA OutIsLocal == \A fn : "out" \in Names \ Params(fn) /\ "out" # "in"
BY DEF Names, Params

\* A frame that writes a variable keeps its invariant: the result must be
\* younger than all the frame names.
LEMMA WriteInv ==
  ASSUME NEW f \in FrameType, NEW g \in FrameType, FrameInv(f), f.pc <= Len(Body[f.fn]),
         NEW x \in Names, Assigns(Body[f.fn][f.pc], x), NEW r \in Nat \ {0},
         x = "out" => \A q \in Named(f) : q < r,
         g.fn = f.fn, g.pc = f.pc + 1, g.defers = f.defers,
         g.reg = [f.reg EXCEPT ![x] = r],
         \/ g.pers = f.pers
         \/ Body[f.fn][f.pc].op = "reserve" /\ g.pers = f.pers \cup {r}
  PROVE  FrameInv(g)
<1> DEFINE s == Body[f.fn][f.pc]
<1>1. /\ s.op \in Writes /\ x # "in" /\ x \notin Params(f.fn) /\ ~SetBefore(f.fn, f.pc, "out")
      /\ s.op = "reserve" => x = "out" /\ f.fn \notin {"Seal", "handleGet"}
  BY StepAt, Zenon DEF StepSound, Frugal, Publishes, Publishers, Assigns, Writes
<1>2. f.reg["out"] = 0
  BY <1>1, OutIsLocal, Zenon DEF FrameInv, Written
<1>3. \A y \in Names : SetBefore(g.fn, g.pc, y) <=> SetBefore(f.fn, f.pc, y) \/ y = x
  <2>1. \A y : Assigns(s, y) <=> y = x
    BY Zenon DEF Assigns
  <2>2. \A y : SetBefore(f.fn, f.pc + 1, y) <=> SetBefore(f.fn, f.pc, y) \/ Assigns(s, y)
    BY StepAt, SetNext, Zenon
  <2> QED
    BY <2>1, <2>2, Zenon
<1>4. /\ f.reg \in [Names -> Nat] /\ g.reg[x] = r
      /\ \A y \in Names \ {x} : g.reg[y] = f.reg[y]
  BY Zenon DEF FrameType
<1>5. Written(g)
  BY <1>1, <1>3, <1>4, Zenon DEF FrameInv, Written
<1>6. ResultLast(g)
  <2>1. CASE x = "out"
    <3>1. \A y \in Names \ {"out"} : g.reg[y] < r
      BY <1>4, <2>1, Zenon DEF Named
    <3>2. \A q \in g.defers : q < r
      BY <2>1, Zenon DEF Named
    <3> QED
      BY <1>4, <2>1, <3>1, <3>2, Zenon DEF ResultLast
  <2>2. CASE x # "out"
    BY <1>2, <1>4, <2>2, OutIsLocal, Zenon DEF ResultLast
  <2> QED
    BY <2>1, <2>2, Zenon
<1>7. KeptForCaller(g)
  <2>1. g.pers \subseteq {0, g.reg["out"]}
    BY <1>1, <1>2, <1>4, OutIsLocal, Zenon DEF FrameInv, KeptForCaller
  <2>2. Body[g.fn][g.pc - 1].op # "import"
    <3>1. g.pc - 1 = f.pc
      BY DEF FrameType
    <3> QED
      BY <1>1, <3>1, Zenon DEF Writes
  <2>3. g.fn \in {"Seal", "handleGet"} => g.defers = {} /\ g.pers = {}
    BY <1>1, Zenon DEF FrameInv, KeptForCaller
  <2> QED
    BY <2>1, <2>2, <2>3, Zenon DEF KeptForCaller
<1> QED
  BY <1>5, <1>6, <1>7, Zenon DEF FrameInv

\* A frame that defers a Destroy, imports its result or only goes on keeps its
\* invariant.
LEMMA GoOnInv ==
  ASSUME NEW f \in FrameType, NEW g \in FrameType, FrameInv(f), f.pc <= Len(Body[f.fn]),
         \A x \in Names : ~Assigns(Body[f.fn][f.pc], x),
         g.fn = f.fn, g.pc = f.pc + 1, g.reg = f.reg,
         \/ g.defers = f.defers
         \/ /\ Body[f.fn][f.pc].op = "defer"
            /\ g.defers = f.defers \cup {f.reg[Body[f.fn][f.pc].x]},
         \/ g.pers = f.pers /\ Body[f.fn][f.pc].op # "import"
         \/ /\ Body[f.fn][f.pc].op = "import"
            /\ g.pers = f.pers \cup {f.reg["out"]}
  PROVE  FrameInv(g)
<1> DEFINE s == Body[f.fn][f.pc]
<1>1. /\ s.op = "defer" => s.x \in Names \ {"out"} /\ f.fn \notin {"Seal", "handleGet"}
      /\ s.op = "import" => f.fn \notin {"Seal", "handleGet"}
  BY StepAt, Zenon DEF StepSound, Fields, Frugal, Publishes, Publishers, Ops
<1>2. \A y \in Names : SetBefore(g.fn, g.pc, y) <=> SetBefore(f.fn, f.pc, y)
  <2>1. \A y : SetBefore(f.fn, f.pc + 1, y) <=> SetBefore(f.fn, f.pc, y) \/ Assigns(s, y)
    BY StepAt, SetNext, Zenon
  <2> QED
    BY <2>1, Zenon
<1>3. Written(g)
  BY <1>2, Zenon DEF FrameInv, Written
<1>4. ResultLast(g)
  BY <1>1, Zenon DEF FrameInv, ResultLast
<1>5. KeptForCaller(g)
  <2>1. g.pc - 1 = f.pc
    BY DEF FrameType
  <2> QED
    BY <1>1, <2>1, Zenon DEF FrameInv, KeptForCaller
<1> QED
  BY <1>3, <1>4, <1>5, Zenon DEF FrameInv

-----------------------------------------------------------------------------
(* The stack.                                                              *)

\* The frames of the stack, and the top one.
LEMMA Frames ==
  ASSUME TypeInv
  PROVE  /\ Len(stack) \in Nat /\ Len(mem) \in Nat
         /\ \A i \in 1..Len(stack) : /\ stack[i] \in FrameType
                                     /\ stack[i].reg \in [Names -> Nat]
                                     /\ Named(stack[i]) \subseteq 0..Len(mem)
         /\ stack # <<>> => Len(stack) \in 1..Len(stack)
<1>1. stack \in Seq(FrameType) /\ mem \in Seq({"rw", "ro", "gone"})
  BY Zenon DEF TypeInv
<1>2. Len(stack) \in Nat /\ Len(mem) \in Nat /\ \A i \in 1..Len(stack) : stack[i] \in FrameType
  BY <1>1
<1>3. stack # <<>> => Len(stack) \in 1..Len(stack)
  BY <1>1
<1>4. \A i \in 1..Len(stack) : stack[i].reg \in [Names -> Nat]
  BY <1>2, Zenon DEF FrameType
<1> QED
  BY <1>2, <1>3, <1>4, Zenon DEF TypeInv

\* The running frame.
LEMMA TopFrame ==
  ASSUME TypeInv, stack # <<>>
  PROVE  /\ top = stack[Len(stack)] /\ Len(stack) \in 1..Len(stack)
         /\ top \in FrameType /\ top.fn \in Routines /\ top.pc \in Nat \ {0}
         /\ top.reg \in [Names -> Nat] /\ Named(top) \subseteq 0..Len(mem)
<1>1. top = stack[Len(stack)] /\ Len(stack) \in 1..Len(stack)
  BY Frames, Zenon DEF top
<1>2. top \in FrameType /\ top.reg \in [Names -> Nat] /\ Named(top) \subseteq 0..Len(mem)
  BY <1>1, Frames, Zenon
<1> QED
  BY <1>1, <1>2, Zenon DEF FrameType

\* Only the top frame changes.
LEMMA SetTopFacts ==
  ASSUME TypeInv, stack # <<>>, NEW g \in FrameType, stack' = SetTop(g)
  PROVE  /\ stack' \in Seq(FrameType) /\ Len(stack') = Len(stack) /\ stack' # <<>>
         /\ \A i \in 1..Len(stack) : i # Len(stack) => stack'[i] = stack[i]
         /\ stack'[Len(stack)] = g
BY DEF TypeInv, SetTop

\* A step of the top frame that writes at most a region nobody names yet, and
\* destroys nothing.
LEMMA TopStep ==
  ASSUME TypeInv, StackInv, stack # <<>>, running, NEW g \in FrameType, stack' = SetTop(g),
         g.fn = top.fn, g.dst = top.dst, g.pc = top.pc + 1, g.reg["in"] = top.reg["in"],
         UNCHANGED <<conf, vault, calls>>,
         mem' \in Seq({"rw", "ro", "gone"}), Len(mem') >= Len(mem),
         \A r \in 1..Len(mem) : mem'[r] = mem[r],
         Named(g) \subseteq 0..Len(mem'),
         \A r \in Owned(g) : r \in Owned(top) \/ r > Len(mem),
         FrameInv(g),
         \A x \in Needs(g.fn, g.pc) : g.reg[x] # 0 => mem'[g.reg[x]] # "gone",
         top.fn \notin Publishers
  PROVE  TypeInv' /\ StackInv'
<1>0. PICK n : n = Len(stack)
  BY Zenon
<1>1. /\ stack' \in Seq(FrameType) /\ Len(stack') = n /\ stack' # <<>>
      /\ \A i \in 1..n : i # n => stack'[i] = stack[i]
      /\ stack'[n] = g
      /\ conf' = conf /\ vault' = vault /\ calls' = calls
  BY <1>0, SetTopFacts, Zenon
<1>2. /\ n \in Nat /\ n \in 1..n /\ top = stack[n] /\ top \in FrameType
      /\ top.pc <= Len(Body[top.fn])
  BY <1>0, Frames, TopFrame, Zenon DEF running
<1>3. /\ Len(mem) \in Nat /\ Len(mem') \in Nat /\ n \in 1..n
      /\ \A i \in 1..n : /\ stack[i].reg \in [Names -> Nat]
                         /\ Named(stack[i]) \subseteq 0..Len(mem)
  <2>1. Len(mem') \in Nat
    OBVIOUS
  <2> QED
    BY <1>0, <1>2, <2>1, Frames, Zenon
<1>4. TypeInv'
  <2>1. \A i \in 1..n : Named(stack'[i]) \subseteq 0..Len(mem')
    <3>1. 0..Len(mem) \subseteq 0..Len(mem')
      BY <1>3
    <3> QED
      BY <1>1, <1>3, <3>1, Zenon
  <2>2. \A i \in 1..n : stack'[i].pc <= Len(Body[stack'[i].fn]) + 1
    <3>1. g.pc <= Len(Body[g.fn]) + 1
      <4>1. top.pc \in Nat /\ Len(Body[top.fn]) \in Nat
        BY <1>2, StepAt, Zenon
      <4> QED
        BY <1>2, <4>1
    <3> QED
      BY <1>0, <1>1, <3>1, Zenon DEF TypeInv
  <2>3. vault' \subseteq 1..Len(mem')
    BY <1>3 DEF TypeInv
  <2> QED
    BY <1>0, <1>1, <2>1, <2>2, <2>3, Zenon DEF TypeInv
<1>5. \A i \in 1..(n - 1) : i \in 1..n /\ i # n /\ i + 1 \in 1..n
  BY <1>2
<1>6. \A i \in 1..(n - 1) : Linked(i)'
  <2>1. \A i \in 1..n : stack'[i].fn = stack[i].fn /\ stack'[i].dst = stack[i].dst
                        /\ stack'[i].reg["in"] = stack[i].reg["in"]
    BY <1>1, <1>2, ZenonT(30)
  <2>2. ASSUME NEW i \in 1..(n - 1) PROVE Linked(i)'
    <3>1. /\ Linked(i) /\ stack'[i] = stack[i] /\ stack'[i + 1].fn = stack[i + 1].fn
          /\ stack'[i + 1].dst = stack[i + 1].dst
          /\ stack'[i + 1].reg["in"] = stack[i + 1].reg["in"]
      BY <1>0, <1>1, <1>5, <2>1, Zenon DEF StackInv
    <3> QED
      BY <1>1, <3>1, Zenon DEF Linked, Resolve
  <2> QED
    BY <2>2, Zenon
<1>7. stack'[1].fn \in {"createSecret", "Seal", "handleGet", "importSpec"}
  <2>1. 1 \in 1..n
    BY <1>2
  <2> QED
    BY <1>0, <1>1, <1>2, <2>1, Zenon DEF StackInv
<1>8. \A i \in 1..n : FrameInv(stack[i])'
  BY <1>0, <1>1, Zenon DEF StackInv
<1>9. \A i \in 1..n : Alive(i)'
  <2>1. Alive(n)'
    BY <1>0, <1>1, Zenon DEF Alive, Cursor
  <2>2. ASSUME NEW i \in 1..n, i # n PROVE Alive(i)'
    <3>1. Alive(i) /\ stack'[i] = stack[i] /\ Cursor(i)' = Cursor(i)
      BY <1>0, <1>1, <2>2, Zenon DEF StackInv, Cursor
    <3>2. \A x \in Names : stack[i].reg[x] # 0 => stack[i].reg[x] \in 1..Len(mem)
      BY <1>3 DEF Named
    <3>3. Needs(stack[i].fn, Cursor(i)) \subseteq Names
      BY Zenon DEF Needs
    <3> QED
      BY <3>1, <3>2, <3>3, ZenonT(30) DEF Alive
  <2> QED
    BY <2>1, <2>2, Zenon
<1>10. \A i \in 1..n : AboveVault(stack[i])'
  <2>1. \A r \in Owned(top) \ {0}, v \in vault : r > v
    BY <1>0, <1>2, Zenon DEF StackInv, AboveVault, Publishers
  <2>2. \A r \in Owned(g) \ {0}, v \in vault : r > v
    <3>1. \A v \in vault : v \in Nat /\ v <= Len(mem)
      BY <1>3 DEF TypeInv
    <3>2. \A r \in Owned(g) : r \in Nat
      BY <1>3 DEF Owned, Named
    <3>3. \A r \in Owned(g) \ {0}, v \in vault : r > Len(mem) => r > v
      BY <1>3, <3>1, <3>2
    <3> QED
      BY <2>1, <3>3, Zenon
  <2>3. \A i \in 1..n : AboveVault(stack[i])
    BY <1>0, Zenon DEF StackInv
  <2>4. \A i \in 1..n : i # n => AboveVault(stack[i])'
    BY <1>1, <2>3, Zenon DEF AboveVault
  <2>5. AboveVault(stack[n])'
    BY <1>1, <2>2, Zenon DEF AboveVault
  <2> QED
    BY <2>4, <2>5, Zenon
<1>11. \A i \in 1..n : ReadyToPublish(stack[i])'
  <2>1. ReadyToPublish(g)'
    BY <1>1, Zenon DEF ReadyToPublish, Publishers
  <2>2. ASSUME NEW i \in 1..n, i # n PROVE ReadyToPublish(stack[i])'
    <3>1. i \in 1..(n - 1)
      BY <1>2, <2>2
    <3>2. /\ stack[i] \in FrameType /\ stack[i].pc <= Len(Body[stack[i].fn])
          /\ Body[stack[i].fn][stack[i].pc].op = "call"
      BY <1>0, <1>5, <3>1, Frames, Zenon DEF StackInv, Linked
    <3>3. stack[i].fn \in Publishers => stack[i].pc # 2
      <4>1. stack[i].fn \in Publishers => stack[i].pc = 1
        BY <3>2, StepAt, Zenon DEF StepSound, Publishes
      <4> QED
        BY <4>1
    <3> QED
      BY <1>1, <2>2, <3>3, Zenon DEF ReadyToPublish, Publishers
  <2> QED
    BY <1>1, <2>1, <2>2, Zenon
<1>12. \A i \in 1..n : \A j \in (i + 1)..n : Younger(i, j)'
  <2> SUFFICES ASSUME NEW i \in 1..n, NEW j \in (i + 1)..n PROVE Younger(i, j)'
    OBVIOUS
  <2>1. j \in 1..n /\ i # n /\ Younger(i, j) /\ stack'[i] = stack[i]
    <3>1. j \in 1..n /\ i # n
      BY <1>2
    <3> QED
      BY <1>0, <1>1, <3>1, Zenon DEF StackInv
  <2>2. CASE j # n
    BY <1>1, <2>1, <2>2, Zenon DEF Younger
  <2>3. CASE j = n
    <3>1. \A q \in Named(stack[i]) : q \in Nat /\ q <= Len(mem)
      BY <1>3
    <3>2. \A r \in Owned(g) : r \in Nat
      BY <1>3 DEF Owned, Named
    <3>3. \A r \in Owned(g), q \in Named(stack[i]) : r > Len(mem) => r > q
      BY <1>3, <3>1, <3>2
    <3> QED
      BY <1>1, <1>2, <2>1, <2>3, <3>3, Zenon DEF Younger
  <2> QED
    BY <2>2, <2>3, Zenon
<1>13. ServedIsReadOnly'
  <2>1. \A v \in vault : v \in 1..Len(mem)
    BY Zenon DEF TypeInv
  <2> QED
    BY <1>0, <2>1, Zenon DEF StackInv, ServedIsReadOnly
<1> QED
  BY <1>0, <1>1, <1>4, <1>6, <1>7, <1>8, <1>9, <1>10, <1>11, <1>12, <1>13, <1>0, Zenon DEF StackInv

\* The frame f, one step further.
Moved(f, g, reg, defers, pers) ==
  /\ g \in FrameType /\ g.fn = f.fn /\ g.level = f.level /\ g.dst = f.dst
  /\ g.pc = f.pc + 1 /\ g.reg = reg /\ g.defers = defers /\ g.pers = pers

\* Setting one field of a frame.
LEMMA Edits ==
  ASSUME NEW f \in FrameType, NEW d \in SUBSET Nat
  PROVE  /\ LET g == [f EXCEPT !.defers = d]
            IN /\ g \in FrameType /\ g.fn = f.fn /\ g.level = f.level /\ g.dst = f.dst
               /\ g.pc = f.pc /\ g.reg = f.reg /\ g.defers = d /\ g.pers = f.pers
         /\ LET g == [f EXCEPT !.pers = d]
            IN /\ g \in FrameType /\ g.fn = f.fn /\ g.level = f.level /\ g.dst = f.dst
               /\ g.pc = f.pc /\ g.reg = f.reg /\ g.defers = f.defers /\ g.pers = d
BY DEF FrameType

\* The moves the actions make.
LEMMA Moves ==
  ASSUME NEW f \in FrameType, NEW r \in Nat
  PROVE  /\ Moved(f, Advance(f), f.reg, f.defers, f.pers)
         /\ Moved(f, Advance(With(f, "none", r)), f.reg, f.defers, f.pers)
         /\ Moved(f, [Advance(f) EXCEPT !.defers = @ \cup {r}], f.reg, f.defers \cup {r}, f.pers)
         /\ Moved(f, [Advance(f) EXCEPT !.pers = @ \cup {r}], f.reg, f.defers, f.pers \cup {r})
         /\ \A x \in Names :
              LET reg == [f.reg EXCEPT ![x] = r]
                  g   == Advance(With(f, x, r))
              IN /\ Moved(f, g, reg, f.defers, f.pers)
                 /\ Moved(f, [g EXCEPT !.pers = @ \cup {r}], reg, f.defers, f.pers \cup {r})
<1> USE DEF Moved, Advance, With, FrameType
<1>1. Moved(f, Advance(f), f.reg, f.defers, f.pers)
  OBVIOUS
<1>2. Moved(f, Advance(With(f, "none", r)), f.reg, f.defers, f.pers)
  OBVIOUS
<1> HIDE DEF Advance, With
<1>3. \A g \in FrameType : Moved(f, g, g.reg, f.defers, f.pers) =>
        Moved(f, [g EXCEPT !.defers = @ \cup {r}], g.reg, f.defers \cup {r}, f.pers)
  <2> SUFFICES ASSUME NEW g \in FrameType, Moved(f, g, g.reg, f.defers, f.pers)
               PROVE  Moved(f, [g EXCEPT !.defers = @ \cup {r}], g.reg, f.defers \cup {r}, f.pers)
    BY Zenon
  <2>1. g.defers \cup {r} \in SUBSET Nat
    OBVIOUS
  <2> HIDE DEF FrameType
  <2>2. PICK d \in SUBSET Nat : d = g.defers \cup {r}
    BY <2>1, Zenon
  <2>3. Moved(f, [g EXCEPT !.defers = d], g.reg, d, f.pers)
    BY Edits, ZenonT(30)
  <2> QED
    BY <2>2, <2>3, Zenon
<1>4. \A g \in FrameType : Moved(f, g, g.reg, f.defers, f.pers) =>
        Moved(f, [g EXCEPT !.pers = @ \cup {r}], g.reg, f.defers, f.pers \cup {r})
  <2> SUFFICES ASSUME NEW g \in FrameType, Moved(f, g, g.reg, f.defers, f.pers)
               PROVE  Moved(f, [g EXCEPT !.pers = @ \cup {r}], g.reg, f.defers, f.pers \cup {r})
    BY Zenon
  <2>1. g.pers \cup {r} \in SUBSET Nat
    OBVIOUS
  <2> HIDE DEF FrameType
  <2>2. PICK d \in SUBSET Nat : d = g.pers \cup {r}
    BY <2>1, Zenon
  <2>3. Moved(f, [g EXCEPT !.pers = d], g.reg, f.defers, d)
    BY Edits, ZenonT(30)
  <2> QED
    BY <2>2, <2>3, Zenon
<1>5. ASSUME NEW x \in Names
      PROVE  /\ Moved(f, Advance(With(f, x, r)), [f.reg EXCEPT ![x] = r], f.defers, f.pers)
             /\ Moved(f, [Advance(With(f, x, r)) EXCEPT !.pers = @ \cup {r}],
                      [f.reg EXCEPT ![x] = r], f.defers, f.pers \cup {r})
  <2>1. x # "none"
    BY DEF Names
  <2>2. PICK h \in FrameType : h = [f EXCEPT !.reg = [f.reg EXCEPT ![x] = r]]
    BY Zenon
  <2>3. With(f, x, r) = h
    BY <2>1, <2>2 DEF With
  <2>4. /\ h.fn = f.fn /\ h.level = f.level /\ h.dst = f.dst /\ h.pc = f.pc
        /\ h.reg = [f.reg EXCEPT ![x] = r] /\ h.defers = f.defers /\ h.pers = f.pers
    BY <2>2
  <2>5. Moved(h, Advance(h), h.reg, h.defers, h.pers)
    BY DEF Advance
  <2> HIDE DEF FrameType
  <2>6. Moved(f, Advance(h), [f.reg EXCEPT ![x] = r], f.defers, f.pers)
    BY <2>4, <2>5, Zenon
  <2> QED
    BY <1>4, <2>3, <2>6, Zenon
<1>6. /\ Moved(f, [Advance(f) EXCEPT !.defers = @ \cup {r}], f.reg, f.defers \cup {r}, f.pers)
      /\ Moved(f, [Advance(f) EXCEPT !.pers = @ \cup {r}], f.reg, f.defers, f.pers \cup {r})
  BY <1>1, <1>3, <1>4, Zenon
<1> HIDE DEF Moved, FrameType
<1> QED
  BY <1>1, <1>2, <1>5, <1>6, Zenon

\* What a frame names and owns after it has written r.
LEMMA NamesMore ==
  ASSUME NEW f \in FrameType, NEW g \in FrameType, NEW x \in Names, NEW r,
         g.fn = f.fn, g.reg = [f.reg EXCEPT ![x] = r], g.defers = f.defers,
         g.pers = f.pers \/ g.pers = f.pers \cup {r}
  PROVE  Named(g) \subseteq Named(f) \cup {r} /\ Owned(g) \subseteq Owned(f) \cup {r}
<1>1. \A y \in Names : g.reg[y] = r \/ g.reg[y] = f.reg[y]
  BY Zenon DEF FrameType
<1>2. Named(g) \subseteq Named(f) \cup {r}
  BY <1>1, ZenonT(30) DEF Named
<1>3. Owned(g) \subseteq Owned(f) \cup {r}
  BY <1>1, ZenonT(30) DEF Owned
<1> QED
  BY <1>2, <1>3, Zenon

\* What the running step and the later ones read is alive.
LEMMA NeedsAlive ==
  ASSUME TypeInv, StackInv, stack # <<>>, running
  PROVE  /\ top.pc <= Len(Body[top.fn])
         /\ \A x \in Needs(top.fn, top.pc) :
              x \in Names /\ (top.reg[x] # 0 => top.reg[x] \in 1..Len(mem)
                                                /\ mem[top.reg[x]] # "gone")
         /\ Needs(top.fn, top.pc + 1) \subseteq Needs(top.fn, top.pc)
         /\ \A x \in Names : Reads(step, x) => x \in Needs(top.fn, top.pc)
<1>1. top.pc <= Len(Body[top.fn])
  BY Zenon DEF running
<1>2. \A x \in Names : top.reg[x] # 0 => top.reg[x] \in 1..Len(mem)
  BY TopFrame, Frames DEF Named
<1>3. \A x \in Needs(top.fn, top.pc) : top.reg[x] # 0 => mem[top.reg[x]] # "gone"
  BY TopFrame, Zenon DEF StackInv, Alive, Cursor
<1>4. \A x \in Needs(top.fn, top.pc) : x \in Names
  BY Zenon DEF Needs
<1> QED
  BY <1>1, <1>2, <1>3, <1>4, TopFrame, NeedsNext, Zenon DEF step

\* The step that runs.
LEMMA StepTop ==
  ASSUME TypeInv, stack # <<>>, running
  PROVE  /\ Fields(step) /\ Frugal(top.fn, top.pc, step) /\ GivesAway(top.fn, top.pc, step)
         /\ Publishes(top.fn, top.pc, step) /\ PassesOn(top.fn, top.pc, step)
BY TopFrame, StepAt, Zenon DEF running, step, StepSound

\* A new region.
LEMMA NewDataInv ==
  ASSUME TypeInv, StackInv, NewData
  PROVE  TypeInv' /\ StackInv'
<1>1. /\ stack # <<>> /\ running /\ step.op \in {"alloc", "reserve"}
      /\ mem' = Append(mem, "rw") /\ UNCHANGED <<conf, vault, calls>>
  BY Zenon DEF NewData, At, running
<1>2. PICK x \in Names : x = step.x /\ Assigns(step, x) /\ x # "in" /\ x \notin Params(top.fn)
                         /\ top.fn \notin Publishers
  BY <1>1, StepTop, Zenon DEF Fields, Frugal, Publishes, Assigns, Writes
<1>3. PICK r \in Nat \ {0} : r = Len(mem) + 1
  BY Frames
<1>4. top \in FrameType /\ top.reg \in [Names -> Nat] /\ Named(top) \subseteq 0..Len(mem)
  BY <1>1, TopFrame, Zenon
<1>5. PICK g \in FrameType :
        /\ stack' = SetTop(g) /\ g.fn = top.fn /\ g.dst = top.dst /\ g.pc = top.pc + 1
        /\ g.reg = [top.reg EXCEPT ![x] = r] /\ g.defers = top.defers
        /\ \/ g.pers = top.pers
           \/ step.op = "reserve" /\ g.pers = top.pers \cup {r}
  <2> DEFINE f == Advance(With(top, x, r))
             h == [f EXCEPT !.pers = @ \cup {r}]
             reg == [top.reg EXCEPT ![x] = r]
  <2>1. Moved(top, f, reg, top.defers, top.pers)
    BY <1>2, <1>3, <1>4, Moves, Zenon
  <2>2. Moved(top, h, reg, top.defers, top.pers \cup {r})
    BY <1>2, <1>3, <1>4, Moves, Zenon
  <2>3. stack' = SetTop(IF step.op = "reserve" THEN h ELSE f)
    BY <1>2, <1>3, Zenon DEF NewData
  <2> HIDE DEF f, h
  <2>4. CASE step.op = "reserve"
    BY <2>2, <2>3, <2>4, Zenon DEF Moved
  <2>5. CASE step.op # "reserve"
    BY <2>1, <2>3, <2>5, Zenon DEF Moved
  <2> QED
    BY <2>4, <2>5, Zenon
<1>6. /\ mem' \in Seq({"rw", "ro", "gone"}) /\ Len(mem') = r /\ mem'[r] = "rw"
      /\ \A q \in 1..Len(mem) : mem'[q] = mem[q]
  <2>1. mem \in Seq({"rw", "ro", "gone"})
    BY Zenon DEF TypeInv
  <2> QED
    BY <1>1, <1>3, <2>1
<1>7. Named(g) \subseteq Named(top) \cup {r} /\ Owned(g) \subseteq Owned(top) \cup {r}
  BY <1>4, <1>5, NamesMore, Zenon
<1>8. /\ Len(mem') >= Len(mem) /\ r > Len(mem)
      /\ \A q \in Named(top) : q < r
      /\ Named(top) \cup {r} \subseteq 0..Len(mem')
  BY <1>3, <1>4, <1>6, Frames
<1>9. FrameInv(g)
  <2>1. FrameInv(top) /\ top.pc <= Len(Body[top.fn])
    BY <1>1, TopFrame, NeedsAlive, Zenon DEF StackInv
  <2> QED
    BY <1>2, <1>3, <1>4, <1>5, <1>8, <2>1, WriteInv, Zenon DEF step
<1>10. g.reg["in"] = top.reg["in"] /\ g.reg[x] = r /\ \A y \in Names \ {x} : g.reg[y] = top.reg[y]
  <2>1. "in" \in Names
    BY DEF Names
  <2> QED
    BY <1>2, <1>4, <1>5, <2>1, Zenon
<1>11. \A y \in Needs(g.fn, g.pc) : g.reg[y] # 0 => mem'[g.reg[y]] # "gone"
  <2>1. \A y \in Needs(g.fn, g.pc) :
          y \in Names /\ (top.reg[y] # 0 => top.reg[y] \in 1..Len(mem) /\ mem[top.reg[y]] # "gone")
    BY <1>1, <1>5, NeedsAlive, Zenon
  <2> QED
    BY <1>6, <1>10, <2>1, Zenon
<1> QED
  BY <1>1, <1>2, <1>5, <1>6, <1>7, <1>8, <1>9, <1>10, <1>11, TopStep, Zenon

\* A step that only changes what the frame defers or keeps.
LEMMA GoOnTop ==
  ASSUME TypeInv, StackInv, stack # <<>>, running, top.fn \notin Publishers,
         NEW g, NEW d, NEW k, Moved(top, g, top.reg, d, k), stack' = SetTop(g),
         d \subseteq Owned(top), k \subseteq Owned(top), FrameInv(g),
         UNCHANGED <<conf, mem, vault, calls>>
  PROVE  TypeInv' /\ StackInv'
<1>1. /\ g \in FrameType /\ g.fn = top.fn /\ g.dst = top.dst /\ g.pc = top.pc + 1
      /\ g.reg = top.reg /\ g.defers = d /\ g.pers = k /\ mem' = mem
  BY Zenon DEF Moved
<1>2. Named(g) \subseteq Named(top) /\ Owned(g) \subseteq Owned(top)
  <2>1. Owned(top) \subseteq Named(top)
    BY Zenon DEF Owned, Named
  <2>2. Owned(g) \subseteq Owned(top)
    BY <1>1, Zenon DEF Owned
  <2>3. {g.reg[x] : x \in Names} \subseteq Named(top)
    BY <1>1, Zenon DEF Named
  <2> QED
    BY <1>1, <2>1, <2>2, <2>3, Zenon DEF Named
<1>3. Named(g) \subseteq 0..Len(mem')
  BY <1>1, <1>2, TopFrame, Zenon
<1>4. mem' \in Seq({"rw", "ro", "gone"}) /\ \A r \in 1..Len(mem) : mem'[r] = mem[r]
  BY <1>1, Zenon DEF TypeInv
<1>5. Len(mem') >= Len(mem)
  BY <1>1, Frames
<1>6. \A x \in Needs(g.fn, g.pc) : g.reg[x] # 0 => mem'[g.reg[x]] # "gone"
  BY <1>1, NeedsAlive, Zenon
<1>7. UNCHANGED <<conf, vault, calls>>
  BY Zenon
<1> QED
  BY <1>1, <1>2, <1>3, <1>4, <1>5, <1>6, <1>7, TopStep, Zenon

\* A deferred Destroy, an import, and steps that change no frame's regions.
LEMMA QuietInv ==
  ASSUME TypeInv, StackInv, DeferDestroy \/ ImportData \/ Proceed
  PROVE  TypeInv' /\ StackInv'
<1>1. /\ stack # <<>> /\ running /\ step.op \in {"defer", "import", "use", "commit"}
      /\ UNCHANGED <<conf, mem, vault, calls>>
  BY Zenon DEF DeferDestroy, ImportData, Proceed, At, running
<1>2. /\ top.fn \notin Publishers /\ \A x \in Names : ~Assigns(step, x)
      /\ step.op \in {"defer", "import"} => /\ step.x \in Names \ Params(top.fn)
                                            /\ Reg(top, step.x) = top.reg[step.x]
      /\ step.op = "import" => step.x = "out"
  <2>1. "none" \notin Names
    BY DEF Names
  <2> QED
    BY <1>1, <2>1, StepTop, OutIsLocal, Zenon
       DEF Fields, Frugal, Publishes, Publishers, Assigns, Reg
<1>3. /\ top \in FrameType /\ top.reg \in [Names -> Nat] /\ FrameInv(top)
      /\ top.pc <= Len(Body[top.fn]) /\ Body[top.fn][top.pc] = step
  BY <1>1, TopFrame, NeedsAlive, Zenon DEF StackInv, step
<1>4. /\ top.defers \subseteq Owned(top) /\ top.pers \subseteq Owned(top)
      /\ \A x \in Names \ Params(top.fn) : top.reg[x] \in Owned(top)
  BY Zenon DEF Owned
<1>5. CASE DeferDestroy
  <2>1. PICK r \in Nat : r = top.reg[step.x] /\ r \in Owned(top)
    BY <1>2, <1>3, <1>4, <1>5, Zenon DEF DeferDestroy, At
  <2>2. PICK g : g = [Advance(top) EXCEPT !.defers = @ \cup {r}]
    BY Zenon
  <2>3. /\ step.op = "defer" /\ stack' = SetTop(g)
        /\ Moved(top, g, top.reg, top.defers \cup {r}, top.pers)
    BY <1>2, <1>3, <1>5, <2>1, <2>2, Moves, Zenon DEF DeferDestroy, At
  <2>4. FrameInv(g)
    BY <1>2, <1>3, <2>1, <2>3, GoOnInv, Zenon DEF Moved
  <2>5. PICK d : d = top.defers \cup {r} /\ d \subseteq Owned(top)
    BY <1>4, <2>1, Zenon
  <2>6. Moved(top, g, top.reg, d, top.pers)
    BY <2>3, <2>5, Zenon
  <2> QED
    BY <1>1, <1>2, <1>4, <2>3, <2>4, <2>5, <2>6, GoOnTop, Zenon
<1>6. CASE ImportData
  <2>1. PICK r \in Nat : r = top.reg["out"] /\ r \in Owned(top) /\ r = Reg(top, step.x)
    BY <1>2, <1>3, <1>4, <1>6, Zenon DEF ImportData, At
  <2>2. PICK g : g = [Advance(top) EXCEPT !.pers = @ \cup {r}]
    BY Zenon
  <2>3. /\ step.op = "import" /\ stack' = SetTop(g)
        /\ Moved(top, g, top.reg, top.defers, top.pers \cup {r})
    BY <1>2, <1>3, <1>6, <2>1, <2>2, Moves, Zenon DEF ImportData, At
  <2>4. FrameInv(g)
    BY <1>2, <1>3, <2>1, <2>3, GoOnInv, Zenon DEF Moved
  <2>5. PICK d : d = top.pers \cup {r} /\ d \subseteq Owned(top)
    BY <1>4, <2>1, Zenon
  <2>6. Moved(top, g, top.reg, top.defers, d)
    BY <2>3, <2>5, Zenon
  <2> QED
    BY <1>1, <1>2, <1>4, <2>3, <2>4, <2>5, <2>6, GoOnTop, Zenon
<1>7. CASE Proceed
  <2>1. PICK g : g = Advance(top)
    BY Zenon
  <2>2. /\ step.op # "import" /\ stack' = SetTop(g)
        /\ Moved(top, g, top.reg, top.defers, top.pers)
    <3>1. 0 \in Nat
      OBVIOUS
    <3> QED
      BY <1>3, <1>7, <2>1, <3>1, Moves, Zenon DEF Proceed, At
  <2>3. FrameInv(g)
    BY <1>2, <1>3, <2>2, GoOnInv, Zenon DEF Moved
  <2> QED
    BY <1>1, <1>2, <1>4, <2>2, <2>3, GoOnTop, Zenon
<1> QED
  BY <1>5, <1>6, <1>7, Zenon

\* Without a transport sealer a region of the frame gets a second name.
LEMMA PassInv ==
  ASSUME TypeInv, StackInv, stack # <<>>, running, step.op = "call", step.fn = "transport",
         stack' = SetTop(Advance(With(top, step.x, Reg(top, step.arg)))),
         UNCHANGED <<conf, mem, vault, calls>>
  PROVE  TypeInv' /\ StackInv'
<1>1. PICK x \in Names : x = step.x /\ x # "out" /\ x # "in" /\ x \notin Params(top.fn)
  BY StepTop, Zenon DEF Frugal, GivesAway, Writes
<1>2. PICK a \in Names : /\ a = step.arg /\ a \notin Params(top.fn)
                         /\ SetBefore(top.fn, top.pc, a)
  BY StepTop, Zenon DEF GivesAway
<1>3. /\ top \in FrameType /\ top.reg \in [Names -> Nat] /\ FrameInv(top)
      /\ top.pc <= Len(Body[top.fn]) /\ Body[top.fn][top.pc] = step
  BY TopFrame, NeedsAlive, Zenon DEF StackInv, step
<1>4. PICK r \in Nat \ {0} : r = top.reg[a] /\ r = Reg(top, step.arg) /\ r \in Owned(top)
  <2>1. top.reg[a] \in Nat \ {0} /\ top.reg[a] \in Owned(top)
    BY <1>2, <1>3, Zenon DEF FrameInv, Written, Owned
  <2>2. a # "none"
    BY <1>2 DEF Names
  <2> QED
    BY <1>2, <2>1, <2>2, Zenon DEF Reg
<1>5. PICK g : g = Advance(With(top, x, r))
  BY Zenon
<1>6. stack' = SetTop(g) /\ Moved(top, g, [top.reg EXCEPT ![x] = r], top.defers, top.pers)
  BY <1>1, <1>3, <1>4, <1>5, Moves, Zenon
<1>7. /\ g \in FrameType /\ g.fn = top.fn /\ g.dst = top.dst /\ g.pc = top.pc + 1
      /\ g.reg = [top.reg EXCEPT ![x] = r] /\ g.defers = top.defers /\ g.pers = top.pers
  BY <1>6, Zenon DEF Moved
<1>8. FrameInv(g)
  <2>1. Assigns(step, x)
    BY <1>1, Zenon DEF Assigns
  <2> QED
    BY <1>1, <1>3, <1>4, <1>7, <2>1, WriteInv, Zenon
<1>9. Owned(g) \subseteq Owned(top) /\ Named(g) \subseteq Named(top)
  <2>1. Named(g) \subseteq Named(top) \cup {r} /\ Owned(g) \subseteq Owned(top) \cup {r}
    BY <1>3, <1>7, NamesMore, Zenon
  <2>2. r \in Named(top)
    BY <1>4, <1>2, Zenon DEF Named
  <2> QED
    BY <1>4, <2>1, <2>2, Zenon
<1>10. /\ mem' = mem /\ mem' \in Seq({"rw", "ro", "gone"})
       /\ \A q \in 1..Len(mem) : mem'[q] = mem[q]
       /\ Named(g) \subseteq 0..Len(mem') /\ UNCHANGED <<conf, vault, calls>>
  BY <1>9, TopFrame, Zenon DEF TypeInv
<1>11. Len(mem') >= Len(mem)
  BY <1>10, Frames
<1>12. g.reg["in"] = top.reg["in"] /\ g.reg[x] = r /\ \A y \in Names \ {x} : g.reg[y] = top.reg[y]
  <2>1. "in" \in Names
    BY DEF Names
  <2> QED
    BY <1>1, <1>3, <1>7, <2>1, Zenon
<1>13. \A y \in Needs(g.fn, g.pc) : g.reg[y] # 0 => mem'[g.reg[y]] # "gone"
  <2>1. mem[r] # "gone"
    <3>1. a \in Needs(top.fn, top.pc)
      BY <1>2, NeedsAlive, Zenon DEF Reads
    <3> QED
      BY <1>4, <3>1, NeedsAlive, Zenon
  <2>2. \A y \in Needs(g.fn, g.pc) : y \in Names /\ (top.reg[y] # 0 => mem[top.reg[y]] # "gone")
    BY <1>7, NeedsAlive, Zenon
  <2> QED
    BY <1>10, <1>12, <2>1, <2>2, Zenon
<1>14. top.fn \notin Publishers
  <2>1. "transport" \notin {"sealHandler", "resolveSecret"}
    BY Zenon
  <2> QED
    BY <2>1, StepTop, Zenon DEF Publishes
<1> QED
  BY <1>6, <1>7, <1>8, <1>9, <1>10, <1>11, <1>12, <1>13, <1>14, TopStep, Zenon

\* A frame that is entered.
LEMMA NewFrame ==
  ASSUME NEW fn \in Routines, NEW l \in 1..Depth, NEW a \in Nat, NEW b \in Nat,
         NEW d \in Names \cup {"none"}, fn \notin {"aes", "encrypt"} => b = 0,
         NEW h, h = Frame(fn, l, a, b, d)
  PROVE  /\ h \in FrameType /\ h.fn = fn /\ h.level = l /\ h.dst = d /\ h.pc = 1
         /\ h.defers = {} /\ h.pers = {} /\ h.reg["in"] = a
         /\ \A x \in Names : h.reg[x] \in {0, a, b}
         /\ FrameInv(h)
         /\ Named(h) \subseteq {0, a, b}
         /\ Owned(h) \subseteq IF fn = "rpcSeal" THEN {0, a} ELSE {0}
<1>1. /\ h \in FrameType /\ h.fn = fn /\ h.level = l /\ h.dst = d /\ h.pc = 1
      /\ h.defers = {} /\ h.pers = {}
      /\ h.reg = [x \in Names |-> CASE x = "in" -> a [] x = "sec" -> b [] OTHER -> 0]
  BY DEF Frame, FrameType
<1>2. /\ "in" \in Names /\ "out" \in Names /\ "out" \notin {"in", "sec"} /\ "in" # "sec"
  BY DEF Names
<1>3. /\ h.reg["in"] = a /\ \A x \in Names : h.reg[x] \in {0, a, b}
      /\ \A x \in Names : x \notin {"in", "sec"} => h.reg[x] = 0
      /\ "sec" \in Names => h.reg["sec"] = b
  BY <1>1, <1>2
<1>4. \A x : ~SetBefore(h.fn, h.pc, x)
  BY <1>1 DEF SetBefore
<1>5. \A x \in Names \ Params(fn) : x # "in" => h.reg[x] = 0
  BY <1>3, Zenon DEF Params
<1>6. FrameInv(h)
  <2>1. ~(h.pc > 1) /\ h.reg["out"] = 0
    BY <1>1, <1>2, <1>3
  <2> QED
    BY <1>1, <1>4, <1>5, <2>1, Zenon DEF FrameInv, Written, ResultLast, KeptForCaller
<1>7. Named(h) \subseteq {0, a, b}
  BY <1>1, <1>3, Zenon DEF Named
<1>8. Owned(h) \subseteq IF fn = "rpcSeal" THEN {0, a} ELSE {0}
  <2>1. fn # "rpcSeal" => "in" \in Params(fn)
    BY Zenon DEF Params
  <2>2. \A x \in Names \ Params(fn) : h.reg[x] \in IF fn = "rpcSeal" THEN {0, a} ELSE {0}
    BY <1>3, <1>5, <2>1, Zenon
  <2>3. h.defers = {} /\ h.pers = {} /\ h.fn = fn
    BY <1>1
  <2>4. Owned(h) = {h.reg[x] : x \in Names \ Params(fn)}
    BY <2>3 DEF Owned
  <2> QED
    BY <2>2, <2>4, Zenon
<1> QED
  BY <1>1, <1>3, <1>6, <1>7, <1>8, Zenon

\* A frame is put on the stack.
LEMMA PushStack ==
  ASSUME TypeInv, StackInv, NEW n \in Nat, NEW m \in Nat, NEW h \in FrameType, NEW c,
         Len(stack) = n, n \in 1..n, top = stack[n], m = n + 1,
         stack' \in Seq(FrameType), Len(stack') = m, stack' # <<>>, stack'[m] = h,
         \A i \in 1..n : stack'[i] = stack[i],
         conf' = conf, mem' = mem, vault' = vault, calls' = calls,
         Linked(n)', FrameInv(h), h.fn \notin Publishers, h.pc <= Len(Body[h.fn]) + 1,
         Named(h) \subseteq 0..Len(mem),
         \A x \in Names : h.reg[x] # 0 => mem[h.reg[x]] # "gone",
         \A x \in Needs(top.fn, top.pc + 1) : top.reg[x] # 0 => mem[top.reg[x]] # "gone",
         Owned(h) \subseteq {0, c},
         c # 0 => c \in Owned(top) /\ h.fn = "rpcSeal" /\ c = h.reg["in"],
         top.fn # "rpcSeal", top.fn \in Publishers => top.pc = 1
  PROVE  TypeInv' /\ StackInv'
<1>1. /\ \A i \in 1..m : i \in 1..n \/ i = m
      /\ m \in 1..m /\ m \notin 1..n /\ m - 1 = n /\ m # n
      /\ \A i \in 1..n : i # n => i \in 1..(n - 1) /\ i + 1 \in 1..n
      /\ 1 \in 1..n
  OBVIOUS
<1>2. \A i \in 1..n : /\ Named(stack[i]) \subseteq 0..Len(mem)
                      /\ stack[i].pc <= Len(Body[stack[i].fn]) + 1
  BY Zenon DEF TypeInv
<1>3. \A i \in 1..n : /\ FrameInv(stack[i]) /\ Alive(i)
                      /\ AboveVault(stack[i]) /\ ReadyToPublish(stack[i])
                      /\ \A j \in (i + 1)..n : Younger(i, j)
  BY Zenon DEF StackInv
<1>4. /\ \A i \in 1..(n - 1) : Linked(i)
      /\ stack # <<>> => stack[1].fn \in {"createSecret", "Seal", "handleGet", "importSpec"}
      /\ ServedIsReadOnly
  BY Zenon DEF StackInv
<1>10. TypeInv'
  <2>1. \A i \in 1..m : Named(stack'[i]) \subseteq 0..Len(mem)
    BY <1>1, <1>2, Zenon
  <2>2. \A i \in 1..m : stack'[i].pc <= Len(Body[stack'[i].fn]) + 1
    BY <1>1, <1>2, Zenon
  <2>3. /\ conf \in [top : Tops, transport : SUBSET (1..Depth),
                     vault : {"exportOpenBao", "exportSQLite"}]
        /\ mem \in Seq({"rw", "ro", "gone"}) /\ vault \subseteq 1..Len(mem)
        /\ calls \in 0..MaxCalls
    BY Zenon DEF TypeInv
  <2> QED
    BY <2>1, <2>2, <2>3, Zenon DEF TypeInv
<1>11. \A i \in 1..n : Linked(i)'
  <2>2. ASSUME NEW i \in 1..n, i # n PROVE Linked(i)'
    <3>1. Linked(i) /\ stack'[i] = stack[i] /\ stack'[i + 1] = stack[i + 1]
      BY <1>1, <1>4, <2>2, Zenon
    <3> QED
      BY <3>1, ZenonT(30) DEF Linked, Resolve
  <2> QED
    BY <2>2, Zenon
<1>12. stack'[1].fn \in {"createSecret", "Seal", "handleGet", "importSpec"}
  <2>1. stack # <<>>
    OBVIOUS
  <2> QED
    BY <1>1, <1>4, <2>1, Zenon
<1>13. \A i \in 1..m : FrameInv(stack[i])'
  BY <1>1, <1>3, Zenon
<1>14. \A i \in 1..m : Alive(i)'
  <2>1. Alive(m)'
    <3>1. \A k : Needs(h.fn, k) \subseteq Names
      BY Zenon DEF Needs
    <3> QED
      BY <3>1, Zenon DEF Alive
  <2>2. Alive(n)'
    <3>1. Cursor(n)' = top.pc + 1 /\ stack'[n] = top
      BY <1>1, Zenon DEF Cursor
    <3> QED
      BY <3>1, ZenonT(30) DEF Alive
  <2>3. ASSUME NEW i \in 1..n, i # n PROVE Alive(i)'
    <3>1. Alive(i) /\ stack'[i] = stack[i]
      BY <1>3, Zenon
    <3>2. Cursor(i)' = Cursor(i)
      BY <1>1, <2>3, <3>1, ZenonT(30) DEF Cursor
    <3> QED
      BY <3>1, <3>2, ZenonT(30) DEF Alive
  <2> QED
    BY <1>1, <2>1, <2>2, <2>3, Zenon
<1>15. \A i \in 1..m : AboveVault(stack[i])' /\ ReadyToPublish(stack[i])'
  <2>1. \A i \in 1..n : AboveVault(stack[i])' /\ ReadyToPublish(stack[i])'
    BY <1>3, ZenonT(30) DEF AboveVault, ReadyToPublish
  <2>2. ReadyToPublish(stack[m])'
    BY Zenon DEF ReadyToPublish, Publishers
  <2>3. \A r \in Owned(h) \ {0}, v \in vault : r > v
    <3>1. ~(top.fn \in Publishers /\ top.pc > 2)
      OBVIOUS
    <3>2. \A r \in Owned(top) \ {0}, v \in vault : r > v
      BY <1>3, <3>1, Zenon DEF AboveVault, Publishers
    <3> QED
      BY <3>2, Zenon
  <2>4. AboveVault(stack[m])'
    BY <2>3, Zenon DEF AboveVault
  <2> QED
    BY <1>1, <2>1, <2>2, <2>4, Zenon
<1>16. \A i \in 1..m : \A j \in (i + 1)..m : Younger(i, j)'
  <2> SUFFICES ASSUME NEW i \in 1..m, NEW j \in (i + 1)..m PROVE Younger(i, j)'
    BY Zenon
  <2>0. i \in 1..n
    OBVIOUS
  <2>1. stack'[i] = stack[i]
    BY <2>0, Zenon
  <2>2. CASE j # m
    <3>1. j \in 1..n /\ j \in (i + 1)..n
      BY <2>2
    <3>2. Younger(i, j) /\ stack'[j] = stack[j]
      BY <1>3, <2>0, <3>1, Zenon
    <3> QED
      BY <2>1, <3>2, Zenon DEF Younger
  <2>3. CASE j = m /\ i # n
    <3>1. n \in (i + 1)..n /\ j # i + 1
      BY <2>0, <2>3
    <3>2. Younger(i, n)
      BY <1>3, <2>0, <3>1, Zenon
    <3>3. \A r \in Owned(top) \ {0}, q \in Named(stack[i]) : r > q
      BY <3>2, Zenon DEF Younger
    <3>4. \A r \in Owned(h) \ {0}, q \in Named(stack[i]) : r > q
      BY <3>3, Zenon
    <3> QED
      BY <2>1, <2>3, <3>4, Zenon DEF Younger
  <2>4. CASE j = m /\ i = n
    <3>1. \A r \in Owned(h) \ {0} : h.fn = "rpcSeal" /\ r = h.reg["in"]
      BY Zenon
    <3> QED
      BY <2>4, <3>1, Zenon DEF Younger
  <2> QED
    BY <2>2, <2>3, <2>4, Zenon
<1>17. ServedIsReadOnly'
  BY <1>4, Zenon DEF ServedIsReadOnly
<1> QED
  BY <1>1, <1>10, <1>11, <1>12, <1>13, <1>14, <1>15, <1>16, <1>17, Zenon DEF StackInv

\* The frame that a call puts on the stack belongs there.
LEMMA LinkPush ==
  ASSUME NEW n, NEW f, NEW h, NEW s, stack'[n] = f, stack'[n + 1] = h, conf' = conf,
         s = Body[f.fn][f.pc], f.pc <= Len(Body[f.fn]), s.op = "call",
         h.fn = Resolve(s.fn, f.level), h.dst = s.x,
         h.fn = "rpcSeal" => s.fn = "parent" /\ h.reg["in"] = f.reg[s.arg]
  PROVE  Linked(n)'
BY Zenon DEF Linked, Resolve

\* A call puts a frame on the stack.
LEMMA PushInv ==
  ASSUME TypeInv, StackInv, Enter, ~(step.fn = "transport" /\ top.level \notin conf.transport)
  PROVE  TypeInv' /\ StackInv'
<1>a. stack # <<>> /\ running /\ step.op = "call"
  BY Zenon DEF Enter, At, running
<1>b. conf' = conf /\ mem' = mem /\ vault' = vault /\ calls' = calls
  BY Zenon DEF Enter
<1>c. PICK l, a, b, d, fn :
        /\ l = IF step.fn = "parent" THEN ParentLevel(top.level) ELSE top.level
        /\ a = Reg(top, step.arg) /\ d = step.x /\ fn = Resolve(step.fn, top.level)
        /\ b = IF step.fn \in {"encrypt", "aes"} THEN Reg(top, "sec") ELSE 0
  BY Zenon
<1>d. PICK h : h = Frame(fn, l, a, b, d)
  BY Zenon
<1>e. stack' = Append(stack, h)
  BY <1>c, <1>d, Zenon DEF Enter
<1>0. PICK n : n = Len(stack)
  BY Zenon
<1>m. PICK m : m = n + 1
  BY Zenon
<1>1. /\ n \in Nat /\ n \in 1..n /\ top = stack[n] /\ top \in FrameType /\ top.level \in 1..Depth
      /\ top.reg \in [Names -> Nat] /\ top.pc <= Len(Body[top.fn])
      /\ Body[top.fn][top.pc] = step
  BY <1>0, <1>a, TopFrame, Frames, NeedsAlive, Zenon DEF step, FrameType
<1>4. /\ fn \in Routines \ Publishers /\ (fn = "rpcSeal" => step.fn = "parent")
      /\ step.fn \in {"encrypt", "aes"} => fn = step.fn
  <2>1. conf.top \in {"rpcSeal", "rootSeal"} /\ conf.vault \in {"exportOpenBao", "exportSQLite"}
    BY SecureMemoryAssumption, Zenon DEF TypeInv
  <2>2. top.fn \in Routines /\ top.pc \in 1..Len(Body[top.fn])
    BY <1>1, <1>a, StepAt, Zenon
  <2>3. Reaches(top.fn, step)
    BY <1>1, <2>1, <2>2, AllReach, Zenon
  <2> QED
    BY <1>1, <1>a, <1>c, <2>3, Zenon DEF Reaches
<1>5. /\ step.arg \in Names \cup {"none"} /\ d \in Names \cup {"none"} /\ top.fn # "rpcSeal"
      /\ step.fn = "parent" => step.arg \in Names \ Params(top.fn)
      /\ top.fn \in Publishers => top.pc = 1
  BY <1>a, <1>c, StepTop, Zenon DEF Fields, Frugal, GivesAway, Publishes
<1>6. /\ a \in Nat /\ a <= Len(mem) /\ (a # 0 => mem[a] # "gone")
      /\ b \in Nat /\ b <= Len(mem) /\ (b # 0 => mem[b] # "gone")
      /\ step.fn = "parent" => a = top.reg[step.arg] /\ a \in Owned(top)
  <2>1. \A x \in Names : /\ x # "none" /\ Reg(top, x) = top.reg[x] /\ top.reg[x] \in Nat
                         /\ top.reg[x] <= Len(mem)
    <3>1. \A x \in Names : x # "none"
      BY DEF Names
    <3>2. \A x \in Names : top.reg[x] \in Nat /\ top.reg[x] \in 0..Len(mem)
      BY <1>1, <1>a, TopFrame, Zenon DEF Named
    <3>3. \A x \in Names : top.reg[x] <= Len(mem)
      BY <3>2, Frames
    <3> QED
      BY <3>1, <3>2, <3>3, Zenon DEF Reg
  <2>2. \A x \in Names : Reads(step, x) /\ top.reg[x] # 0 => mem[top.reg[x]] # "gone"
    BY <1>a, NeedsAlive, Zenon
  <2>3. Reg(top, "none") = 0 /\ 0 \in Nat /\ 0 <= Len(mem) /\ "sec" \in Names
    BY Frames DEF Reg, Names
  <2>4. a \in Nat /\ a <= Len(mem) /\ (a # 0 => mem[a] # "gone")
    BY <1>a, <1>c, <1>5, <2>1, <2>2, <2>3, Zenon DEF Reads
  <2>5. b \in Nat /\ b <= Len(mem) /\ (b # 0 => mem[b] # "gone")
    BY <1>a, <1>c, <2>1, <2>2, <2>3, Zenon DEF Reads
  <2>6. step.fn = "parent" => a = top.reg[step.arg] /\ a \in Owned(top)
    BY <1>c, <1>5, <2>1, Zenon DEF Owned
  <2> QED
    BY <2>4, <2>5, <2>6, Zenon
<1>7. /\ h \in FrameType /\ h.fn = fn /\ h.dst = d /\ h.pc = 1 /\ h.reg["in"] = a
      /\ \A x \in Names : h.reg[x] \in {0, a, b}
      /\ FrameInv(h) /\ Named(h) \subseteq {0, a, b}
      /\ Owned(h) \subseteq IF fn = "rpcSeal" THEN {0, a} ELSE {0}
  <2>1. l \in 1..Depth
    <3>1. Depth \in Nat \ {0}
      BY SecureMemoryAssumption
    <3> QED
      BY <1>1, <1>c, <3>1 DEF ParentLevel
  <2>2. fn \in Routines /\ (fn \notin {"aes", "encrypt"} => b = 0)
    BY <1>4, <1>c, Zenon
  <2>3. a \in Nat /\ b \in Nat /\ d \in Names \cup {"none"}
    BY <1>5, <1>6, Zenon
  <2> QED
    BY <1>d, <2>1, <2>2, <2>3, NewFrame, SMTT(30)
<1>8. /\ stack' \in Seq(FrameType) /\ Len(stack') = m /\ stack'[m] = h /\ stack' # <<>>
      /\ \A i \in 1..n : stack'[i] = stack[i]
  <2>1. stack \in Seq(FrameType)
    BY Zenon DEF TypeInv
  <2> QED
    BY <1>0, <1>e, <1>m, <1>7, <2>1
<1>10. Linked(n)'
  <2>1. stack'[n] = top /\ stack'[n + 1] = h
    BY <1>1, <1>m, <1>8, Zenon
  <2>2. PICK s : s = step
    BY Zenon
  <2>3. /\ s = Body[top.fn][top.pc] /\ s.op = "call"
        /\ h.fn = Resolve(s.fn, top.level) /\ h.dst = s.x
        /\ h.fn = "rpcSeal" => s.fn = "parent" /\ h.reg["in"] = top.reg[s.arg]
    BY <1>1, <1>a, <1>c, <1>4, <1>6, <1>7, <2>2, Zenon
  <2> QED
    BY <1>1, <1>b, <2>1, <2>3, LinkPush, Zenon
<1>11. h.pc <= Len(Body[h.fn]) + 1
  <2>1. Len(Body[fn]) \in Nat
    BY <1>4, AllSound, Zenon DEF RoutineSound
  <2> QED
    BY <1>7, <2>1
<1>12. Named(h) \subseteq 0..Len(mem)
  <2>1. {0, a, b} \subseteq 0..Len(mem)
    BY <1>6, Frames
  <2> QED
    BY <1>7, <2>1, Zenon
<1>13. \A x \in Names : h.reg[x] # 0 => mem[h.reg[x]] # "gone"
  BY <1>6, <1>7, Zenon
<1>14. \A x \in Needs(top.fn, top.pc + 1) : top.reg[x] # 0 => mem[top.reg[x]] # "gone"
  BY <1>a, NeedsAlive, Zenon
<1>15. PICK c : /\ Owned(h) \subseteq {0, c}
                /\ c # 0 => c \in Owned(top) /\ h.fn = "rpcSeal" /\ c = h.reg["in"]
  <2>1. CASE fn = "rpcSeal"
    BY <1>4, <1>6, <1>7, <2>1, Zenon
  <2>2. CASE fn # "rpcSeal"
    BY <1>7, <2>2, Zenon
  <2> QED
    BY <2>1, <2>2, Zenon
<1>16. m \in Nat /\ Len(stack) = n
  BY <1>0, <1>1, <1>m
<1>17. h.fn \notin Publishers
  BY <1>4, <1>7, Zenon
<1> QED
  BY <1>1, <1>b, <1>m, <1>5, <1>7, <1>8, <1>10, <1>11, <1>12, <1>13, <1>14, <1>15, <1>16, <1>17,
     PushStack, Zenon

\* Frame f stands at s, a call that runs in frame g.
Waits(f, g, s) ==
  /\ f \in FrameType /\ g \in FrameType /\ f.pc <= Len(Body[f.fn])
  /\ s.op = "call" /\ g.dst = s.x /\ g.fn \in Routines \ Publishers
  /\ s.x # "none" => SetBefore(g.fn, Len(Body[g.fn]) + 1, "out")
  /\ conf.top = "rpcSeal" /\ f.fn \in AgentRoutines => g.fn \in AgentRoutines
  /\ g.fn = "rpcSeal" => s.fn = "parent" /\ g.reg["in"] = f.reg[s.arg]
  /\ s.fn \in {"sealHandler", "resolveSecret"} => g.fn = s.fn
  /\ Fields(s) /\ Frugal(f.fn, f.pc, s) /\ GivesAway(f.fn, f.pc, s)
  /\ Publishes(f.fn, f.pc, s) /\ PassesOn(f.fn, f.pc, s)

\* A frame that waits for the frame above it.
LEMMA Callee ==
  ASSUME TypeInv, StackInv, NEW i \in 1..(Len(stack) - 1), NEW f, NEW g, NEW s,
         f = stack[i], g = stack[i + 1], s = Body[f.fn][f.pc]
  PROVE  Waits(f, g, s)
<1>1. i \in 1..Len(stack) /\ i + 1 \in 1..Len(stack)
  BY Frames
<1>2. /\ f \in FrameType /\ g \in FrameType /\ f.level \in 1..Depth
  BY <1>1, Frames, Zenon DEF FrameType
<1>3. /\ f.pc <= Len(Body[f.fn]) /\ s.op = "call" /\ g.dst = s.x
      /\ g.fn = Resolve(s.fn, f.level)
      /\ g.fn = "rpcSeal" => s.fn = "parent" /\ g.reg["in"] = f.reg[s.arg]
  BY Zenon DEF StackInv, Linked
<1>4. f.fn \in Routines /\ f.pc \in 1..Len(Body[f.fn]) /\ StepSound(f.fn, f.pc)
  BY <1>2, <1>3, StepAt, Zenon
<1>5. conf.top \in {"rpcSeal", "rootSeal"} /\ conf.vault \in {"exportOpenBao", "exportSQLite"}
  BY SecureMemoryAssumption, Zenon DEF TypeInv
<1>6. Reaches(f.fn, s)
  BY <1>4, <1>5, AllReach, Zenon
<1>7. /\ g.fn \in Routines \ Publishers
      /\ s.x # "none" => SetBefore(g.fn, Len(Body[g.fn]) + 1, "out")
      /\ conf.top = "rpcSeal" /\ f.fn \in AgentRoutines => g.fn \in AgentRoutines
      /\ s.fn \in {"sealHandler", "resolveSecret"} => g.fn = s.fn
  BY <1>2, <1>3, <1>6, Zenon DEF Reaches
<1> QED
  BY <1>2, <1>3, <1>4, <1>7, Zenon DEF StepSound, Waits

\* The result is published: it is the only region of a call that is over.
LEMMA PublishInv ==
  ASSUME TypeInv, StackInv, PublishData
  PROVE  TypeInv' /\ StackInv'
<1>1. stack # <<>> /\ running /\ step.op = "publish" /\ stack' = SetTop(Advance(top))
  BY Zenon DEF PublishData, At, running
<1>2. /\ conf' = conf /\ mem' = mem /\ calls' = calls /\ vault' = vault \cup {Reg(top, step.x)}
  BY Zenon DEF PublishData
<1>3. /\ top.fn \in Publishers /\ top.pc = 2 /\ step.x = "out" /\ SetBefore(top.fn, top.pc, "out")
  BY <1>1, StepTop, Zenon DEF Publishes
<1>4. Len(stack) = 1 /\ top = stack[1] /\ 1 \in 1..Len(stack)
  <2>1. Len(stack) \in Nat /\ Len(stack) \in 1..Len(stack) /\ top = stack[Len(stack)]
    BY <1>1, TopFrame, Frames, Zenon
  <2>2. PICK i : i = Len(stack) - 1
    BY Zenon
  <2>3. Len(stack) # 1 => i \in 1..(Len(stack) - 1) /\ i + 1 = Len(stack)
    BY <2>1, <2>2
  <2>4. PICK f, g, s : f = stack[i] /\ g = stack[i + 1] /\ s = Body[f.fn][f.pc]
    BY Zenon
  <2>5. Len(stack) = 1
    BY <1>3, <2>1, <2>3, <2>4, Callee, Zenon DEF Waits
  <2> QED
    BY <2>1, <2>5, Zenon
<1>5. /\ top \in FrameType /\ top.reg \in [Names -> Nat] /\ Named(top) \subseteq 0..Len(mem)
      /\ FrameInv(top) /\ top.pc <= Len(Body[top.fn]) /\ Body[top.fn][top.pc] = step
      /\ ReadyToPublish(top)
  BY <1>1, <1>4, TopFrame, NeedsAlive, Zenon DEF StackInv, step
<1>6. PICK r \in Nat \ {0} : r = top.reg["out"] /\ r = Reg(top, step.x) /\ r \in 1..Len(mem)
                             /\ mem[r] = "ro"
  <2>1. "out" \in Names /\ "out" # "none"
    BY DEF Names
  <2>2. top.reg["out"] \in Nat \ {0} /\ top.reg["out"] \in Named(top)
    BY <1>3, <1>5, <2>1, Zenon DEF FrameInv, Written, Named
  <2>3. top.reg["out"] \in 1..Len(mem)
    BY <1>5, <2>2
  <2>4. mem[top.reg["out"]] = "ro"
    BY <1>3, <1>5, Zenon DEF ReadyToPublish, Publishers
  <2> QED
    BY <1>3, <2>1, <2>2, <2>3, <2>4, Zenon DEF Reg
<1>7. PICK g : g = Advance(top)
  BY Zenon
<1>8. /\ g \in FrameType /\ g.fn = top.fn /\ g.pc = top.pc + 1 /\ g.reg = top.reg
      /\ g.defers = top.defers /\ g.pers = top.pers
  BY <1>5, <1>7, Moves, Zenon DEF Moved
<1>9. /\ stack' \in Seq(FrameType) /\ Len(stack') = 1 /\ stack' # <<>> /\ stack'[1] = g
  BY <1>1, <1>4, <1>7, <1>8, SetTopFacts, Zenon
<1>10. /\ \A i \in 1..1 : i = 1
       /\ 1..(1 - 1) = {} /\ \A i \in 1..1 : (i + 1)..1 = {} /\ 1 \in 1..1
  OBVIOUS
<1>11. FrameInv(g)
  <2>1. \A x \in Names : ~Assigns(step, x)
    BY <1>1, Zenon DEF Assigns
  <2> QED
    BY <1>1, <1>5, <1>8, <2>1, GoOnInv, Zenon
<1>12. TypeInv'
  <2>1. Named(g) = Named(top)
    BY <1>8, Zenon DEF Named
  <2>2. g.pc <= Len(Body[g.fn]) + 1
    <3>1. Len(Body[top.fn]) \in Nat
      BY <1>5, StepAt, Zenon
    <3> QED
      BY <1>5, <1>8, <3>1 DEF FrameType
  <2>3. \A i \in 1..1 : /\ stack'[i].pc <= Len(Body[stack'[i].fn]) + 1
                        /\ Named(stack'[i]) \subseteq 0..Len(mem')
    BY <1>2, <1>5, <1>9, <1>10, <2>1, <2>2, Zenon
  <2>4. /\ conf \in [top : Tops, transport : SUBSET (1..Depth),
                     vault : {"exportOpenBao", "exportSQLite"}]
        /\ mem \in Seq({"rw", "ro", "gone"}) /\ vault \subseteq 1..Len(mem)
        /\ calls \in 0..MaxCalls
    BY Zenon DEF TypeInv
  <2>5. vault' \subseteq 1..Len(mem')
    BY <1>2, <1>6, <2>4, Zenon
  <2> QED
    BY <1>2, <1>9, <2>3, <2>4, <2>5, Zenon DEF TypeInv
<1>13. Alive(1)'
  <2>1. Cursor(1)' = g.pc
    BY <1>9, Zenon DEF Cursor
  <2>2. \A x \in Needs(g.fn, g.pc) : g.reg[x] # 0 => mem[g.reg[x]] # "gone"
    BY <1>1, <1>8, NeedsAlive, Zenon
  <2> QED
    BY <1>2, <1>9, <2>1, <2>2, Zenon DEF Alive
<1>14. AboveVault(stack[1])' /\ ReadyToPublish(stack[1])'
  <2>1. g.pc > 2 /\ g.pc # 2
    BY <1>3, <1>8
  <2> QED
    BY <1>3, <1>8, <1>9, <2>1, Zenon DEF AboveVault, ReadyToPublish, Publishers
<1>15. ServedIsReadOnly'
  BY <1>2, <1>6, Zenon DEF StackInv, ServedIsReadOnly
<1>16. stack'[1].fn \in {"createSecret", "Seal", "handleGet", "importSpec"}
  BY <1>3, <1>8, <1>9, Zenon DEF Publishers
<1> QED
  BY <1>9, <1>10, <1>11, <1>12, <1>13, <1>14, <1>15, <1>16, Zenon DEF StackInv

\* The frame on top is taken off the stack, and the one below resumes with o,
\* which is younger than all the frames below it name.
LEMMA PopStack ==
  ASSUME TypeInv, StackInv, NEW n \in Nat, NEW k \in Nat, NEW f, NEW h \in FrameType, NEW o,
         Len(stack) = n, n = k + 1, k \in 1..k, f = stack[k],
         stack' \in Seq(FrameType), Len(stack') = k, stack' # <<>>, stack'[k] = h,
         \A i \in 1..k : i # k => stack'[i] = stack[i],
         conf' = conf, vault' = vault, calls' = calls,
         mem' \in Seq({"rw", "ro", "gone"}), Len(mem') = Len(mem),
         h.fn = f.fn, h.dst = f.dst, h.reg["in"] = f.reg["in"],
         h.pc <= Len(Body[h.fn]) + 1, FrameInv(h), ReadyToPublish(h)',
         Owned(h) \subseteq Owned(f) \cup {o}, Named(h) \subseteq 0..Len(mem),
         o # 0 => /\ \A i \in 1..k : \A q \in Named(stack[i]) : o > q
                  /\ \A v \in vault : o > v,
         \A x \in Needs(h.fn, h.pc) : h.reg[x] # 0 => mem'[h.reg[x]] # "gone",
         \A i \in 1..k : stack[i].fn \in Publishers => stack[i].pc = 1,
         \A i \in 1..k : i # k => \A q \in Named(stack[i]) \ {0} :
           mem[q] # "gone" => mem'[q] # "gone",
         ServedIsReadOnly'
  PROVE  TypeInv' /\ StackInv'
<1>1. /\ \A i \in 1..(k - 1) : /\ i \in 1..(n - 1) /\ i \in 1..k /\ i # k
                               /\ i + 1 \in 1..k
      /\ \A i \in 1..k : i \in 1..n /\ i # n /\ (i # k => i \in 1..(k - 1))
      /\ 1 \in 1..k
  OBVIOUS
<1>2. \A i \in 1..k : /\ Named(stack[i]) \subseteq 0..Len(mem)
                      /\ stack[i].pc <= Len(Body[stack[i].fn]) + 1
  BY <1>1, Zenon DEF TypeInv
<1>3. \A i \in 1..k : /\ FrameInv(stack[i]) /\ Alive(i)
                      /\ AboveVault(stack[i]) /\ ReadyToPublish(stack[i])
                      /\ \A j \in (i + 1)..n : Younger(i, j)
  BY <1>1, Zenon DEF StackInv
<1>4. /\ \A i \in 1..(n - 1) : Linked(i)
      /\ stack # <<>> => stack[1].fn \in {"createSecret", "Seal", "handleGet", "importSpec"}
  BY Zenon DEF StackInv
<1>10. TypeInv'
  <2>1. \A i \in 1..k : Named(stack'[i]) \subseteq 0..Len(mem')
    BY <1>1, <1>2, Zenon
  <2>2. \A i \in 1..k : stack'[i].pc <= Len(Body[stack'[i].fn]) + 1
    BY <1>1, <1>2, Zenon
  <2>3. /\ conf \in [top : Tops, transport : SUBSET (1..Depth),
                     vault : {"exportOpenBao", "exportSQLite"}]
        /\ vault \subseteq 1..Len(mem) /\ calls \in 0..MaxCalls
    BY Zenon DEF TypeInv
  <2> QED
    BY <2>1, <2>2, <2>3, Zenon DEF TypeInv
<1>11. \A i \in 1..(k - 1) : Linked(i)'
  <2> SUFFICES ASSUME NEW i \in 1..(k - 1) PROVE Linked(i)'
    BY Zenon
  <2>1. /\ Linked(i) /\ stack'[i] = stack[i] /\ stack'[i + 1].fn = stack[i + 1].fn
        /\ stack'[i + 1].dst = stack[i + 1].dst
        /\ stack'[i + 1].reg["in"] = stack[i + 1].reg["in"]
    BY <1>1, <1>4, Zenon
  <2> QED
    BY <2>1, Zenon DEF Linked, Resolve
<1>12. stack'[1].fn \in {"createSecret", "Seal", "handleGet", "importSpec"}
  <2>1. stack # <<>>
    OBVIOUS
  <2> QED
    BY <1>1, <1>4, <2>1, Zenon
<1>13. \A i \in 1..k : FrameInv(stack[i])'
  BY <1>1, <1>3, Zenon
<1>14. \A i \in 1..k : Alive(i)'
  <2>1. Alive(k)'
    <3>1. Cursor(k)' = h.pc
      BY Zenon DEF Cursor
    <3> QED
      BY <3>1, Zenon DEF Alive
  <2>2. ASSUME NEW i \in 1..k, i # k PROVE Alive(i)'
    <3>1. Alive(i) /\ stack'[i] = stack[i]
      BY <1>3, <2>2, Zenon
    <3>2. Cursor(i)' = Cursor(i)
      BY <1>1, <2>2, <3>1, Zenon DEF Cursor
    <3>3. \A x \in Needs(stack[i].fn, Cursor(i)) : stack[i].reg[x] \in Named(stack[i])
      BY Zenon DEF Needs, Named
    <3>4. \A x \in Needs(stack[i].fn, Cursor(i)) :
            stack[i].reg[x] # 0 => mem'[stack[i].reg[x]] # "gone"
      <4>1. \A q \in Named(stack[i]) \ {0} : mem[q] # "gone" => mem'[q] # "gone"
        BY <2>2, Zenon
      <4>2. \A x \in Needs(stack[i].fn, Cursor(i)) :
              stack[i].reg[x] # 0 => mem[stack[i].reg[x]] # "gone"
        BY <3>1, Zenon DEF Alive
      <4> QED
        BY <3>3, <4>1, <4>2, Zenon
    <3> QED
      BY <3>1, <3>2, <3>4, ZenonT(30) DEF Alive
  <2> QED
    BY <2>1, <2>2, Zenon
<1>15. \A i \in 1..k : AboveVault(stack[i])' /\ ReadyToPublish(stack[i])'
  <2>1. \A i \in 1..k : ~(stack[i].fn \in Publishers /\ (stack[i].pc > 2 \/ stack[i].pc = 2))
    OBVIOUS
  <2>2. \A i \in 1..k : i # k => AboveVault(stack[i])' /\ ReadyToPublish(stack[i])'
    <3> SUFFICES ASSUME NEW i \in 1..k, i # k
                 PROVE  AboveVault(stack[i])' /\ ReadyToPublish(stack[i])'
      BY Zenon
    <3>1. AboveVault(stack[i]) /\ stack'[i] = stack[i]
      BY <1>3, Zenon
    <3>2. AboveVault(stack[i])'
      BY <3>1, Zenon DEF AboveVault
    <3>3. ReadyToPublish(stack[i])'
      BY <2>1, <3>1, Zenon DEF ReadyToPublish, Publishers
    <3> QED
      BY <3>2, <3>3, Zenon
  <2>3. \A r \in Owned(f) \ {0}, v \in vault : r > v
    BY <1>1, <1>3, <2>1, Zenon DEF AboveVault, Publishers
  <2>4. AboveVault(stack[k])'
    <3>1. \A r \in Owned(h) \ {0}, v \in vault : r > v
      BY <2>3, ZenonT(30)
    <3> QED
      BY <3>1, Zenon DEF AboveVault
  <2>5. ReadyToPublish(stack[k])'
    BY Zenon DEF ReadyToPublish
  <2> QED
    BY <2>2, <2>4, <2>5, Zenon
<1>16. \A i \in 1..k : \A j \in (i + 1)..k : Younger(i, j)'
  <2> SUFFICES ASSUME NEW i \in 1..k, NEW j \in (i + 1)..k PROVE Younger(i, j)'
    BY Zenon
  <2>1. j \in 1..k /\ j \in (i + 1)..n /\ i # k
    OBVIOUS
  <2>2. Younger(i, j) /\ stack'[i] = stack[i]
    BY <1>3, <2>1, Zenon
  <2>3. CASE j # k
    <3>1. stack'[j] = stack[j]
      BY <2>1, <2>3, Zenon
    <3> QED
      BY <2>2, <3>1, ZenonT(30) DEF Younger
  <2>4. CASE j = k
    <3>1. \A r \in Owned(h) \ {0} : r \in Owned(f) \ {0} \/ (r = o /\ o # 0)
      BY Zenon
    <3>2. \A q \in Named(stack[i]) : o # 0 => o > q
      BY Zenon
    <3> QED
      BY <2>2, <2>4, <3>1, <3>2, ZenonT(30) DEF Younger
  <2> QED
    BY <2>3, <2>4, Zenon
<1> QED
  BY <1>10, <1>11, <1>12, <1>13, <1>14, <1>15, <1>16, Zenon DEF StackInv

\* What is destroyed is gone, and what is protected read-only; the rest stays.
LEMMA MemFacts ==
  ASSUME TypeInv, NEW d, NEW p, mem' = MarkedReadOnly(Destroyed(d), p) \/ mem' = Destroyed(d)
  PROVE  /\ mem' \in Seq({"rw", "ro", "gone"}) /\ Len(mem') = Len(mem)
         /\ \A r \in 1..Len(mem) :
              /\ mem'[r] = "gone" <=> mem[r] = "gone" \/ r \in d
              /\ mem[r] = "ro" /\ r \notin d => mem'[r] = "ro"
              /\ /\ mem' = MarkedReadOnly(Destroyed(d), p)
                 /\ r \in p /\ r \notin d /\ mem[r] # "gone"
                 => mem'[r] = "ro"
<1>1. mem \in Seq({"rw", "ro", "gone"}) /\ Len(mem) \in Nat
  BY Frames, Zenon DEF TypeInv
<1>2. PICK m : m = Destroyed(d)
  BY Zenon
<1>3. /\ m \in Seq({"rw", "ro", "gone"}) /\ Len(m) = Len(mem)
      /\ \A r \in 1..Len(mem) : m[r] = IF r \in d THEN "gone" ELSE mem[r]
  BY <1>1, <1>2 DEF Destroyed
<1>4. CASE mem' = Destroyed(d) /\ mem' # MarkedReadOnly(Destroyed(d), p)
  <2>1. mem' = m
    BY <1>2, <1>4, Zenon
  <2> QED
    BY <1>3, <1>4, <2>1, Zenon
<1>5. CASE mem' = MarkedReadOnly(Destroyed(d), p)
  <2>1. mem' = MarkedReadOnly(m, p)
    BY <1>2, <1>5, Zenon
  <2>2. /\ mem' \in Seq({"rw", "ro", "gone"}) /\ Len(mem') = Len(mem)
        /\ \A r \in 1..Len(mem) : mem'[r] = IF r \in p /\ m[r] # "gone" THEN "ro" ELSE m[r]
    BY <1>1, <1>3, <2>1 DEF MarkedReadOnly
  <2> QED
    BY <1>3, <2>2, Zenon
<1> QED
  BY <1>4, <1>5, Zenon

\* The frame that returns: its result is younger than all that its callers
\* name, and alive; what it destroys no caller but its own may name.
LEMMA Returned ==
  ASSUME TypeInv, StackInv, stack # <<>>, ~running, NEW n, n = Len(stack), NEW o,
         o = top.reg["out"]
  PROVE  /\ top.pc = Len(Body[top.fn]) + 1
         /\ o \in Nat /\ o \in Owned(top) /\ o \in Named(top)
         /\ SetBefore(top.fn, Len(Body[top.fn]) + 1, "out") => o # 0
         /\ o # 0 => /\ mem[o] # "gone" /\ o \in 1..Len(mem) /\ o \notin top.defers
                     /\ \A i \in 1..(n - 1) : \A q \in Named(stack[i]) : o > q
         /\ \A i \in 1..(n - 1) : \A q \in Named(stack[i]) :
              q # 0 /\ q \in top.defers => /\ top.fn = "rpcSeal" /\ n = i + 1
                                           /\ q = top.reg["in"]
<1>1. /\ top \in FrameType /\ top = stack[n] /\ n \in 1..n /\ n \in Nat
      /\ top.reg \in [Names -> Nat]
      /\ top.fn \in Routines /\ top.pc \in Nat \ {0} /\ Named(top) \subseteq 0..Len(mem)
  BY TopFrame, Frames, Zenon
<1>2. top.pc = Len(Body[top.fn]) + 1
  <2>1. Len(Body[top.fn]) \in Nat
    BY <1>1, AllSound, Zenon DEF RoutineSound
  <2>2. top.pc <= Len(Body[top.fn]) + 1 /\ ~(top.pc <= Len(Body[top.fn]))
    BY <1>1, Zenon DEF TypeInv, running
  <2> QED
    BY <1>1, <2>1, <2>2
<1>3. /\ FrameInv(top) /\ Alive(n) /\ Cursor(n) = top.pc
  BY <1>1, Zenon DEF StackInv, Cursor
<1>4. /\ o \in Nat /\ o \in Owned(top) /\ o \in Named(top) /\ "out" \in Needs(top.fn, top.pc)
      /\ "out" \in Names /\ "in" \in Names \ {"out"}
  <2>1. "out" \in Names /\ "out" \in Names \ Params(top.fn) /\ "in" \in Names \ {"out"}
    BY DEF Names, Params
  <2> QED
    BY <1>1, <2>1, Zenon DEF Owned, Named, Needs
<1>5. SetBefore(top.fn, Len(Body[top.fn]) + 1, "out") => o # 0
  BY <1>2, <1>3, <1>4, Zenon DEF FrameInv, Written
<1>6. \A i \in 1..(n - 1) : Younger(i, n) /\ i \in 1..n
  <2>1. \A i \in 1..(n - 1) : i \in 1..n /\ n \in (i + 1)..n
    BY <1>1
  <2> QED
    BY <2>1, Zenon DEF StackInv
<1>7. ASSUME o # 0
      PROVE  /\ mem[o] # "gone" /\ o \in 1..Len(mem) /\ o \notin top.defers
             /\ \A i \in 1..(n - 1) : \A q \in Named(stack[i]) : o > q
  <2>1. mem[o] # "gone"
    BY <1>1, <1>3, <1>4, <1>7, Zenon DEF Alive
  <2>2. o \in 1..Len(mem)
    BY <1>1, <1>4, <1>7
  <2>3. top.reg["in"] < o /\ \A r \in top.defers : r < o
    BY <1>3, <1>4, <1>7, Zenon DEF FrameInv, ResultLast
  <2>4. o # top.reg["in"] /\ o \notin top.defers
    BY <1>4, <2>3
  <2>5. \A i \in 1..(n - 1) : \A q \in Named(stack[i]) : o > q
    BY <1>1, <1>4, <1>6, <1>7, <2>4, Zenon DEF Younger
  <2> QED
    BY <2>1, <2>2, <2>4, <2>5, Zenon
<1>8. ASSUME NEW i \in 1..(n - 1), NEW q \in Named(stack[i]), q # 0, q \in top.defers
      PROVE  top.fn = "rpcSeal" /\ n = i + 1 /\ q = top.reg["in"]
  <2>1. q \in Owned(top) \ {0} /\ q \in Nat
    BY <1>1, <1>8, Zenon DEF Owned, FrameType
  <2>2. ~(q > q)
    BY <2>1
  <2> QED
    BY <1>1, <1>6, <2>1, <2>2, Zenon DEF Younger
<1> QED
  BY <1>2, <1>4, <1>5, <1>7, <1>8, Zenon

\* A call that is over destroys nothing of the vault.
LEMMA VaultSpared ==
  ASSUME TypeInv, StackInv, Return
  PROVE  ServedIsReadOnly'
<1>1. /\ stack # <<>> /\ mem' = MarkedReadOnly(Destroyed(top.defers), top.pers) /\ vault' = vault
  BY Zenon DEF Return
<1>2. /\ top \in FrameType /\ FrameInv(top) /\ AboveVault(top) /\ ServedIsReadOnly
      /\ vault \subseteq 1..Len(mem)
  BY <1>1, TopFrame, Zenon DEF StackInv, TypeInv
<1>3. \A v \in vault : v \notin top.defers
  <2> SUFFICES ASSUME NEW v \in vault, v \in top.defers PROVE FALSE
    BY Zenon
  <2>1. v \in Nat /\ v # 0
    BY <1>2, Frames
  <2>2. v \in Owned(top) \ {0} /\ ~(v > v)
    <3>1. v \in Owned(top) \ {0}
      BY <2>1, Zenon DEF Owned
    <3> QED
      BY <2>1, <3>1
  <2>3. top.fn \notin {"Seal", "handleGet"}
    BY <1>2, Zenon DEF FrameInv, KeptForCaller
  <2> QED
    BY <1>2, <2>2, <2>3, Zenon DEF AboveVault
<1>4. \A v \in vault : v \in 1..Len(mem) /\ mem[v] = "ro"
  BY <1>2, Zenon DEF ServedIsReadOnly
<1>5. \A r \in 1..Len(mem) : mem[r] = "ro" /\ r \notin top.defers => mem'[r] = "ro"
  BY <1>1, MemFacts, Zenon
<1> QED
  BY <1>1, <1>3, <1>4, <1>5, Zenon DEF ServedIsReadOnly

\* The stack without its top frame.
LEMMA ResumedFacts ==
  ASSUME TypeInv, NEW n, NEW k, n = Len(stack), n = k + 1, k \in 1..k,
         NEW g, NEW h \in FrameType, h = Advance(With(stack[k], g.dst, g.reg["out"]))
  PROVE  /\ Resumed(g) \in Seq(FrameType) /\ Len(Resumed(g)) = k /\ Resumed(g) # <<>>
         /\ Resumed(g)[k] = h /\ \A i \in 1..k : i # k => Resumed(g)[i] = stack[i]
<1>1. stack \in Seq(FrameType) /\ Len(stack) \in Nat
  BY Frames, Zenon DEF TypeInv
<1>2. k \in Nat \ {0} /\ Len(stack) - 1 = k /\ k <= Len(stack)
  BY <1>1
<1>3. PICK rest : rest = SubSeq(stack, 1, k)
  BY Zenon
<1>4. rest \in Seq(FrameType)
  <2>1. rest = [i \in 1..k |-> stack[i]]
    BY <1>1, <1>2, <1>3
  <2>2. \A i \in 1..k : stack[i] \in FrameType
    <3>1. 1..k \subseteq 1..Len(stack)
      BY <1>1, <1>2
    <3> QED
      BY <3>1, Frames, Zenon
  <2> QED
    BY <1>2, <2>1, <2>2
<1>5. Len(rest) = k
  BY <1>1, <1>2, <1>3
<1>6. \A i \in 1..k : rest[i] = stack[i]
  BY <1>1, <1>2, <1>3
<1>7. Resumed(g) = [rest EXCEPT ![k] = Advance(With(rest[k], g.dst, g.reg["out"]))]
  <2>1. k # 0
    BY <1>2
  <2> QED
    BY <1>2, <1>3, <1>5, <2>1, Zenon DEF Resumed
<1>8. Resumed(g) = [rest EXCEPT ![k] = h]
  BY <1>6, <1>7, Zenon
<1> QED
  BY <1>2, <1>4, <1>5, <1>6, <1>8

\* The end of a routine.
LEMMA ReturnInv ==
  ASSUME TypeInv, StackInv, Return
  PROVE  TypeInv' /\ StackInv'
<1>1. /\ stack # <<>> /\ ~running
      /\ conf' = conf /\ vault' = vault /\ calls' = calls /\ stack' = Resumed(top)
  BY Zenon DEF Return
<1>2. mem' = MarkedReadOnly(Destroyed(top.defers), top.pers)
  BY Zenon DEF Return
<1>3. PICK n, g, o : n = Len(stack) /\ g = top /\ o = g.reg["out"]
  BY Zenon
<1>4. /\ n \in Nat /\ n \in 1..n /\ g = stack[n] /\ g \in FrameType
      /\ FrameInv(g) /\ AboveVault(g)
  BY <1>1, <1>3, TopFrame, Frames, Zenon DEF StackInv
<1>5. /\ g.pc = Len(Body[g.fn]) + 1 /\ o \in Nat /\ o \in Owned(g)
      /\ SetBefore(g.fn, Len(Body[g.fn]) + 1, "out") => o # 0
      /\ o # 0 => mem[o] # "gone" /\ o \in 1..Len(mem) /\ o \notin g.defers
      /\ o # 0 => \A i \in 1..(n - 1) : \A q \in Named(stack[i]) : o > q
      /\ \A i \in 1..(n - 1) : \A q \in Named(stack[i]) :
           q # 0 /\ q \in g.defers => g.fn = "rpcSeal" /\ n = i + 1 /\ q = g.reg["in"]
  BY <1>1, <1>3, Returned, Zenon
<1>6. mem' \in Seq({"rw", "ro", "gone"}) /\ Len(mem') = Len(mem)
  BY <1>2, MemFacts, Zenon
<1>7. \A r \in 1..Len(mem) :
        /\ mem'[r] = "gone" => mem[r] = "gone" \/ r \in g.defers
        /\ r \in g.pers /\ r \notin g.defers /\ mem[r] # "gone" => mem'[r] = "ro"
  BY <1>2, <1>3, MemFacts, Zenon
<1>8. ServedIsReadOnly'
  BY VaultSpared, Zenon
<1>9. CASE n = 1
  <2>1. stack' = <<>>
    <3>1. stack \in Seq(FrameType)
      BY Zenon DEF TypeInv
    <3> QED
      BY <1>1, <1>3, <1>9, <3>1 DEF Resumed
  <2>2. /\ Len(stack') = 0 /\ 1..Len(stack') = {} /\ 1..(Len(stack') - 1) = {}
        /\ stack' \in Seq(FrameType)
    BY <2>1
  <2> QED
    BY <1>1, <1>6, <1>8, <2>1, <2>2, Zenon DEF TypeInv, StackInv
<1>10. CASE n # 1
  <2>1. PICK k \in Nat : n = k + 1 /\ k \in 1..k /\ k = n - 1 /\ k \in 1..(Len(stack) - 1)
    <3>1. n - 1 \in Nat /\ n = (n - 1) + 1 /\ n - 1 \in 1..(n - 1)
      BY <1>4, <1>10
    <3> QED
      BY <1>3, <3>1, Zenon
  <2>2. PICK f, s : f = stack[k] /\ s = Body[f.fn][f.pc]
    BY Zenon
  <2>a. /\ f \in FrameType /\ f.pc <= Len(Body[f.fn]) /\ s.op = "call"
        /\ g.dst = s.x /\ g.fn \in Routines \ Publishers
        /\ s.x # "none" => SetBefore(g.fn, Len(Body[g.fn]) + 1, "out")
        /\ g.fn = "rpcSeal" => s.fn = "parent" /\ g.reg["in"] = f.reg[s.arg]
        /\ s.fn \in {"sealHandler", "resolveSecret"} => g.fn = s.fn
        /\ Fields(s) /\ Frugal(f.fn, f.pc, s) /\ GivesAway(f.fn, f.pc, s)
        /\ Publishes(f.fn, f.pc, s)
    <3>1. k \in 1..(Len(stack) - 1) /\ g = stack[k + 1]
      BY <1>4, <2>1, Zenon
    <3>2. Waits(f, g, s)
      BY <2>2, <3>1, Callee, Zenon
    <3> QED
      BY <3>2, Zenon DEF Waits
  <2>3. /\ f \in FrameType /\ f.pc <= Len(Body[f.fn]) /\ s.op = "call"
        /\ g.dst = s.x /\ g.fn \in Routines \ Publishers
        /\ s.x # "none" => o # 0
        /\ g.fn = "rpcSeal" => s.fn = "parent" /\ g.reg["in"] = f.reg[s.arg]
        /\ s.fn \in {"sealHandler", "resolveSecret"} => g.fn = s.fn
    BY <1>5, <2>a, Zenon
  <2>4. /\ s.x \in Names \cup {"none"} /\ s.x # "in"
        /\ f.fn \in Publishers => f.pc = 1 /\ s.x = "out"
                                  /\ s.fn \in {"sealHandler", "resolveSecret"}
        /\ s.fn = "parent" => \A x \in Needs(f.fn, f.pc + 1) :
                               x # "in" /\ x \notin Params(f.fn) /\ ~SetBefore(f.fn, f.pc, x)
    BY <2>a, Zenon DEF Fields, Frugal, GivesAway, Publishes, Writes
  <2>5. /\ f.reg \in [Names -> Nat] /\ FrameInv(f) /\ Alive(k) /\ Cursor(k) = f.pc + 1
        /\ Named(f) \subseteq 0..Len(mem)
    <3>1. k \in 1..Len(stack) /\ k # Len(stack)
      BY <1>3, <2>1
    <3> QED
      BY <2>2, <3>1, Frames, Zenon DEF StackInv, Cursor
  <2>6. PICK h : h = Advance(With(f, s.x, o))
    BY Zenon
  <2>7. /\ h \in FrameType /\ h.fn = f.fn /\ h.dst = f.dst /\ h.pc = f.pc + 1
        /\ h.defers = f.defers /\ h.pers = f.pers
        /\ s.x \in Names => h.reg = [f.reg EXCEPT ![s.x] = o]
        /\ s.x = "none" => h.reg = f.reg
    <3>1. f \in FrameType /\ o \in Nat /\ "none" \notin Names
      BY <1>5, <2>3 DEF Names
    <3>2. CASE s.x = "none"
      <4>1. Moved(f, h, f.reg, f.defers, f.pers)
        BY <2>6, <3>1, <3>2, Moves, Zenon
      <4> QED
        BY <3>1, <3>2, <4>1, Zenon DEF Moved
    <3>3. CASE s.x # "none"
      <4>1. PICK x \in Names : x = s.x
        BY <2>4, <3>3, Zenon
      <4>2. Moved(f, h, [f.reg EXCEPT ![x] = o], f.defers, f.pers)
        BY <2>6, <3>1, <4>1, Moves, Zenon
      <4> QED
        BY <3>3, <4>1, <4>2, Zenon DEF Moved
    <3> QED
      BY <3>2, <3>3, Zenon
  <2>8. /\ \A x \in Names : h.reg[x] = IF x = s.x THEN o ELSE f.reg[x]
        /\ h.reg["in"] = f.reg["in"]
    <3>1. "in" \in Names /\ "none" \notin Names
      BY DEF Names
    <3> QED
      BY <2>4, <2>5, <2>7, <3>1, Zenon
  <2>9. /\ stack' \in Seq(FrameType) /\ Len(stack') = k /\ stack' # <<>> /\ stack'[k] = h
        /\ \A i \in 1..k : i # k => stack'[i] = stack[i]
    <3>1. h = Advance(With(stack[k], g.dst, g.reg["out"])) /\ stack' = Resumed(g)
      BY <1>1, <1>3, <2>2, <2>3, <2>6, Zenon
    <3>2. n = Len(stack) /\ n = k + 1 /\ k \in 1..k /\ h \in FrameType
      BY <1>3, <2>1, <2>7, Zenon
    <3>3. /\ Resumed(g) \in Seq(FrameType) /\ Len(Resumed(g)) = k /\ Resumed(g) # <<>>
          /\ Resumed(g)[k] = h /\ \A i \in 1..k : i # k => Resumed(g)[i] = stack[i]
      BY <3>1, <3>2, ResumedFacts, SMTT(30)
    <3> QED
      BY <3>1, <3>3, Zenon
  <2>10. \A i \in 1..k : i \in 1..(n - 1) /\ i \in 1..(Len(stack) - 1) /\ i \in 1..Len(stack)
    BY <1>3, <1>4, <2>1
  <2>11. o # 0 => /\ \A i \in 1..k : \A q \in Named(stack[i]) : o > q
                  /\ \A v \in vault : o > v
    BY <1>4, <1>5, <2>3, <2>10, Zenon DEF AboveVault, Publishers
  <2>12. FrameInv(h)
    <3>1. CASE s.x = "none"
      <4>1. \A x \in Names : ~Assigns(s, x)
        BY <3>1 DEF Assigns, Names
      <4>2. s.op # "import" /\ h.reg = f.reg
        BY <2>3, <2>7, <3>1, Zenon
      <4> QED
        BY <2>2, <2>3, <2>5, <2>7, <4>1, <4>2, GoOnInv, Zenon
    <3>2. CASE s.x # "none"
      <4>1. PICK x \in Names : x = s.x /\ Assigns(s, x)
        BY <2>3, <2>4, <3>2, Zenon DEF Assigns
      <4>2. o \in Nat \ {0} /\ \A q \in Named(f) : q < o
        <5>1. o \in Nat \ {0} /\ \A q \in Named(f) : o > q
          BY <1>5, <2>1, <2>2, <2>3, <2>11, <3>2, Zenon
        <5>2. \A q \in Named(f) : q \in Nat
          BY <2>5, Frames
        <5> QED
          BY <5>1, <5>2
      <4>3. h.reg = [f.reg EXCEPT ![x] = o]
        BY <2>7, <4>1, Zenon
      <4> QED
        <5>1. /\ f \in FrameType /\ h \in FrameType /\ FrameInv(f) /\ f.pc <= Len(Body[f.fn])
              /\ Assigns(Body[f.fn][f.pc], x) /\ h.fn = f.fn /\ h.pc = f.pc + 1
              /\ h.defers = f.defers /\ h.pers = f.pers
          BY <2>2, <2>3, <2>5, <2>7, <4>1, Zenon
        <5> QED
          BY <4>2, <4>3, <5>1, WriteInv, Zenon
    <3> QED
      BY <3>1, <3>2, Zenon
  <2>13. Owned(h) \subseteq Owned(f) \cup {o} /\ Named(h) \subseteq Named(f) \cup {o}
    <3>1. \A x \in Names : h.reg[x] = o \/ h.reg[x] = f.reg[x]
      BY <2>8, Zenon
    <3>2. h.fn = f.fn /\ h.defers = f.defers /\ h.pers = f.pers
      BY <2>7, Zenon
    <3>3. Owned(h) \subseteq Owned(f) \cup {o}
      BY <3>1, <3>2, Zenon DEF Owned
    <3>4. Named(h) \subseteq Named(f) \cup {o}
      BY <3>1, <3>2, Zenon DEF Named
    <3> QED
      BY <3>3, <3>4, Zenon
  <2>14. Named(h) \subseteq 0..Len(mem)
    <3>1. {o} \subseteq 0..Len(mem)
      BY <1>5, Frames
    <3> QED
      BY <2>5, <2>13, <3>1, Zenon
  <2>15. \A x \in Needs(h.fn, h.pc) : h.reg[x] # 0 => mem'[h.reg[x]] # "gone"
    <3> SUFFICES ASSUME NEW x \in Needs(h.fn, h.pc), h.reg[x] # 0
                 PROVE  mem'[h.reg[x]] # "gone"
      BY Zenon
    <3>1. x \in Names /\ x \in Needs(f.fn, f.pc + 1)
      BY <2>7, Zenon DEF Needs
    <3>2. CASE x = s.x
      BY <1>5, <1>7, <2>8, <3>1, <3>2, Zenon
    <3>3. CASE x # s.x
      <4>1. h.reg[x] = f.reg[x] /\ f.reg[x] \in Named(f) /\ f.reg[x] # 0
        BY <2>8, <3>1, <3>3, Zenon DEF Named
      <4>2. mem[f.reg[x]] # "gone"
        BY <2>2, <2>5, <3>1, <4>1, Zenon DEF Alive
      <4>3. f.reg[x] \in 1..Len(mem)
        BY <2>5, <4>1, Frames
      <4>4. f.reg[x] \notin g.defers
        <5>1. f.reg[x] \in g.defers => g.fn = "rpcSeal"
          BY <1>5, <2>1, <2>2, <2>10, <4>1, Zenon
        <5> QED
          BY <2>3, <2>4, <2>5, <3>1, <4>1, <5>1, Zenon DEF FrameInv, Written
      <4> QED
        BY <1>7, <4>1, <4>2, <4>3, <4>4, Zenon
    <3> QED
      BY <3>2, <3>3, Zenon
  <2>16. ReadyToPublish(h)'
    <3>1. ASSUME h.fn \in Publishers PROVE mem'[h.reg["out"]] = "ro"
      <4>1. g.fn \in {"sealHandler", "resolveSecret"} /\ s.x = "out" /\ o # 0
        <5>1. f.fn \in Publishers /\ "out" # "none"
          BY <2>7, <3>1, Zenon
        <5> QED
          BY <2>3, <2>4, <5>1, Zenon
      <4>2. o \in g.pers
        <5>1. g.pc - 1 = Len(Body[g.fn]) /\ g.pc > 1
          <6>1. Len(Body[g.fn]) \in Nat \ {0}
            BY <2>3, AllSound, Zenon DEF RoutineSound
          <6> QED
            BY <1>5, <6>1
        <5> QED
          BY <1>3, <1>4, <4>1, <5>1, Importers, Zenon DEF FrameInv, KeptForCaller
      <4>3. h.reg["out"] = o
        BY <2>8, <4>1, OutIsLocal, Zenon
      <4> QED
        BY <1>5, <1>7, <4>1, <4>2, <4>3, Zenon
    <3> QED
      BY <3>1, Zenon DEF ReadyToPublish, Publishers
  <2>17. \A i \in 1..k : stack[i].fn \in Publishers => stack[i].pc = 1
    <3> SUFFICES ASSUME NEW i \in 1..k PROVE stack[i].fn \in Publishers => stack[i].pc = 1
      BY Zenon
    <3>1. PICK a, b, c : a = stack[i] /\ b = stack[i + 1] /\ c = Body[a.fn][a.pc]
      BY Zenon
    <3>2. c.op = "call" /\ Publishes(a.fn, a.pc, c)
      <4>1. i \in 1..(Len(stack) - 1)
        BY <2>10, Zenon
      <4>2. Waits(a, b, c)
        BY <3>1, <4>1, Callee, Zenon
      <4> QED
        BY <4>2, Zenon DEF Waits
    <3> QED
      BY <3>1, <3>2, Zenon DEF Publishes
  <2>18. \A i \in 1..k : i # k => \A q \in Named(stack[i]) \ {0} :
           mem[q] # "gone" => mem'[q] # "gone"
    <3> SUFFICES ASSUME NEW i \in 1..k, i # k, NEW q \in Named(stack[i]) \ {0}, mem[q] # "gone"
                 PROVE  mem'[q] # "gone"
      BY Zenon
    <3>1. n # i + 1
      BY <2>1
    <3>2. q \notin g.defers
      BY <1>5, <2>10, <3>1, ZenonT(30)
    <3>3. Named(stack[i]) \subseteq 0..Len(mem)
      BY <2>10, Frames, Zenon
    <3>4. q \in 1..Len(mem)
      BY <3>3, Frames
    <3> QED
      BY <1>7, <3>2, <3>4, Zenon
  <2>19. h.pc <= Len(Body[h.fn]) + 1
    <3>1. Len(Body[f.fn]) \in Nat /\ f.pc \in Nat
      BY <2>3, StepAt, Zenon
    <3> QED
      BY <2>3, <2>7, <3>1
  <2>20. /\ n \in Nat /\ k \in Nat /\ h \in FrameType /\ Len(stack) = n /\ n = k + 1
         /\ k \in 1..k /\ f = stack[k] /\ conf' = conf /\ vault' = vault /\ calls' = calls
         /\ h.fn = f.fn /\ h.dst = f.dst /\ h.reg["in"] = f.reg["in"]
    BY <1>1, <1>3, <1>4, <2>1, <2>2, <2>7, <2>8, Zenon
  <2> QED
    BY <1>6, <1>8, <2>20, <2>9, <2>11, <2>12, <2>13, <2>14,
       <2>15, <2>16, <2>17, <2>18, <2>19, PopStack, ZenonT(30)
<1> QED
  BY <1>9, <1>10, Zenon

\* Between two calls only the vault counts.
LEMMA EmptyStack ==
  ASSUME TypeInv, stack' = <<>>, conf' = conf, calls' = calls, vault' \subseteq vault,
         mem' \in Seq({"rw", "ro", "gone"}), Len(mem') = Len(mem), ServedIsReadOnly'
  PROVE  TypeInv' /\ StackInv'
<1>1. /\ Len(stack') = 0 /\ 1..Len(stack') = {} /\ 1..(Len(stack') - 1) = {}
      /\ stack' \in Seq(FrameType)
  OBVIOUS
<1>2. /\ conf \in [top : Tops, transport : SUBSET (1..Depth),
                   vault : {"exportOpenBao", "exportSQLite"}]
      /\ vault \subseteq 1..Len(mem) /\ calls \in 0..MaxCalls
  BY Zenon DEF TypeInv
<1>3. TypeInv'
  BY <1>1, <1>2, Zenon DEF TypeInv
<1>4. StackInv'
  BY <1>1, Zenon DEF StackInv
<1> QED
  BY <1>3, <1>4, Zenon

\* An error destroys nothing of the vault.
LEMMA FailInv ==
  ASSUME TypeInv, StackInv, Fail
  PROVE  TypeInv' /\ StackInv'
<1>1. PICK p : p = IF At("publish") THEN {Reg(top, step.x)} ELSE {}
  BY Zenon
<1>2. PICK d : d = Unwound \cup p
  BY Zenon
<1>3. /\ stack # <<>> /\ mem' = Destroyed(d) /\ stack' = <<>>
      /\ conf' = conf /\ vault' = vault /\ calls' = calls
  BY <1>1, <1>2, Zenon DEF Fail
<1>4. /\ vault \subseteq 1..Len(mem) /\ ServedIsReadOnly
      /\ \A i \in 1..Len(stack) : /\ FrameInv(stack[i]) /\ AboveVault(stack[i])
                                  /\ stack[i] \in FrameType
  BY Frames, Zenon DEF StackInv, TypeInv
<1>5. \A v \in vault : v \in Nat /\ v # 0 /\ ~(v > v)
  BY <1>4, Frames
<1>6. \A v \in vault, i \in 1..Len(stack) : v \notin stack[i].defers \cup stack[i].pers
  <2> SUFFICES ASSUME NEW v \in vault, NEW i \in 1..Len(stack),
                      v \in stack[i].defers \cup stack[i].pers
               PROVE  FALSE
    BY Zenon
  <2>1. stack[i].fn \notin {"Seal", "handleGet"}
    BY <1>4, Zenon DEF FrameInv, KeptForCaller
  <2>2. v \in Owned(stack[i]) \ {0}
    BY <1>5, Zenon DEF Owned
  <2> QED
    BY <1>4, <1>5, <2>1, <2>2, Zenon DEF AboveVault
<1>7. \A v \in vault : v \notin p
  <2> SUFFICES ASSUME NEW v \in vault, At("publish"), v = Reg(top, step.x) PROVE FALSE
    BY <1>1, Zenon
  <2>1. /\ running /\ step.op = "publish"
    BY Zenon DEF At
  <2>2. top.pc = 2 /\ step.x = "out"
    BY <1>3, <2>1, StepTop, Zenon DEF Publishes
  <2>3. v \in Owned(top) \ {0} /\ AboveVault(top) /\ ~(top.pc > 2)
    <3>1. ~(top.pc > 2)
      BY <2>2
    <3>2. v = top.reg["out"]
      BY <2>2, Zenon DEF Reg
    <3> QED
      BY <1>3, <1>4, <1>5, <3>1, <3>2, TopFrame, OutIsLocal, Zenon DEF Owned
  <2> QED
    BY <1>5, <2>3, Zenon DEF AboveVault
<1>8. \A v \in vault : v \notin d
  BY <1>2, <1>6, <1>7, Zenon DEF Unwound
<1>9. /\ mem' \in Seq({"rw", "ro", "gone"}) /\ Len(mem') = Len(mem)
      /\ \A r \in 1..Len(mem) : mem[r] = "ro" /\ r \notin d => mem'[r] = "ro"
  BY <1>3, MemFacts, Zenon
<1>10. ServedIsReadOnly'
  BY <1>3, <1>4, <1>8, <1>9, Zenon DEF ServedIsReadOnly
<1> QED
  BY <1>3, <1>9, <1>10, EmptyStack, Zenon

\* The vault of an RPC or a connection is destroyed.
LEMMA TerminateInv ==
  ASSUME TypeInv, StackInv, Terminate
  PROVE  TypeInv' /\ StackInv'
<1>1. /\ mem' = Destroyed(vault) /\ stack' = <<>>
      /\ conf' = conf /\ vault' = {} /\ calls' = calls
  BY Zenon DEF Terminate
<1>2. mem' \in Seq({"rw", "ro", "gone"}) /\ Len(mem') = Len(mem)
  BY <1>1, MemFacts, Zenon
<1>3. ServedIsReadOnly' /\ vault' \subseteq vault
  BY <1>1, Zenon DEF ServedIsReadOnly
<1> QED
  BY <1>1, <1>2, <1>3, EmptyStack, Zenon

\* A call arrives: its first frame holds no region.
LEMMA StartInv ==
  ASSUME TypeInv, StackInv, NEW fn \in Entries, NEW l \in 1..Depth, Start(fn, l)
  PROVE  TypeInv' /\ StackInv'
<1>1. PICK h : h = Frame(fn, l, 0, 0, "none")
  BY Zenon
<1>2. /\ stack = <<>> /\ stack' = <<h>> /\ calls' = calls + 1 /\ calls < MaxCalls
      /\ conf' = conf /\ mem' = mem /\ vault' = vault
  BY <1>1, Zenon DEF Start
<1>3. fn \in {"createSecret", "Seal", "handleGet", "importSpec"} /\ fn \in Routines
      /\ fn \notin {"aes", "encrypt", "rpcSeal"} /\ MaxCalls \in Nat
  BY SecureMemoryAssumption, Table
<1>4. /\ h \in FrameType /\ h.fn = fn /\ h.pc = 1 /\ FrameInv(h)
      /\ \A x \in Names : h.reg[x] \in {0, 0, 0}
      /\ Named(h) \subseteq {0, 0, 0} /\ Owned(h) \subseteq {0}
  <2>1. 0 \in Nat /\ "none" \in Names \cup {"none"} /\ fn \notin {"aes", "encrypt"}
    BY <1>3
  <2> QED
    BY <1>1, <1>3, <2>1, NewFrame, SMTT(30)
<1>5. /\ stack' \in Seq(FrameType) /\ Len(stack') = 1 /\ stack' # <<>> /\ stack'[1] = h
      /\ \A i \in 1..1 : i = 1
      /\ 1..(1 - 1) = {} /\ \A i \in 1..1 : (i + 1)..1 = {} /\ 1 \in 1..1
  BY <1>2, <1>4
<1>6. TypeInv'
  <2>1. h.pc <= Len(Body[h.fn]) + 1
    <3>1. Len(Body[fn]) \in Nat
      BY <1>3, AllSound, Zenon DEF RoutineSound
    <3> QED
      BY <1>4, <3>1
  <2>2. Named(h) \subseteq 0..Len(mem)
    BY <1>4, Frames
  <2>3. calls' \in 0..MaxCalls
    <3>1. calls \in 0..MaxCalls
      BY Zenon DEF TypeInv
    <3> QED
      BY <1>2, <1>3, <3>1
  <2>4. /\ conf \in [top : Tops, transport : SUBSET (1..Depth),
                     vault : {"exportOpenBao", "exportSQLite"}]
        /\ mem \in Seq({"rw", "ro", "gone"}) /\ vault \subseteq 1..Len(mem)
    BY Zenon DEF TypeInv
  <2>5. \A i \in 1..1 : /\ stack'[i].pc <= Len(Body[stack'[i].fn]) + 1
                        /\ Named(stack'[i]) \subseteq 0..Len(mem')
    BY <1>2, <1>5, <2>1, <2>2, Zenon
  <2> QED
    BY <1>2, <1>5, <2>3, <2>4, <2>5, Zenon DEF TypeInv
<1>7. Alive(1)'
  <2>1. \A k : \A x \in Needs(h.fn, k) : h.reg[x] = 0
    BY <1>4, Zenon DEF Needs
  <2> QED
    BY <1>5, <2>1, Zenon DEF Alive
<1>8. AboveVault(stack[1])' /\ ReadyToPublish(stack[1])'
  <2>1. Owned(h) \ {0} = {} /\ h.pc # 2
    BY <1>4
  <2> QED
    BY <1>5, <2>1, Zenon DEF AboveVault, ReadyToPublish
<1>9. ServedIsReadOnly'
  BY <1>2, Zenon DEF StackInv, ServedIsReadOnly
<1> QED
  BY <1>3, <1>4, <1>5, <1>6, <1>7, <1>8, <1>9, Zenon DEF StackInv

\* The collector destroys what nobody names.
LEMMA CollectInv ==
  ASSUME TypeInv, StackInv, NEW r, Collect(r)
  PROVE  TypeInv' /\ StackInv'
<1>1. /\ r \notin Reachable /\ mem' = Destroyed({r})
      /\ conf' = conf /\ stack' = stack /\ vault' = vault /\ calls' = calls
  BY Zenon DEF Collect
<1>2. /\ mem' \in Seq({"rw", "ro", "gone"}) /\ Len(mem') = Len(mem)
      /\ \A q \in 1..Len(mem) : /\ mem'[q] = "gone" <=> mem[q] = "gone" \/ q \in {r}
                                /\ mem[q] = "ro" /\ q \notin {r} => mem'[q] = "ro"
  BY <1>1, MemFacts, Zenon
<1>3. TypeInv'
  <2>1. /\ conf \in [top : Tops, transport : SUBSET (1..Depth),
                     vault : {"exportOpenBao", "exportSQLite"}]
        /\ stack \in Seq(FrameType) /\ vault \subseteq 1..Len(mem) /\ calls \in 0..MaxCalls
        /\ \A i \in 1..Len(stack) : /\ stack[i].pc <= Len(Body[stack[i].fn]) + 1
                                    /\ Named(stack[i]) \subseteq 0..Len(mem)
    BY Zenon DEF TypeInv
  <2> QED
    BY <1>1, <1>2, <2>1, Zenon DEF TypeInv
<1>4. /\ \A i \in 1..(Len(stack) - 1) : Linked(i)
      /\ stack # <<>> => stack[1].fn \in {"createSecret", "Seal", "handleGet", "importSpec"}
      /\ \A i \in 1..Len(stack) :
           /\ FrameInv(stack[i]) /\ Alive(i)
           /\ AboveVault(stack[i]) /\ ReadyToPublish(stack[i])
           /\ \A j \in (i + 1)..Len(stack) : Younger(i, j)
      /\ ServedIsReadOnly
  BY Zenon DEF StackInv
<1>5. \A i \in 1..Len(stack) : \A x \in Names :
        stack[i].reg[x] # r /\ (stack[i].reg[x] # 0 => stack[i].reg[x] \in 1..Len(mem))
  <2> SUFFICES ASSUME NEW i \in 1..Len(stack), NEW x \in Names
               PROVE  /\ stack[i].reg[x] # r
                      /\ stack[i].reg[x] # 0 => stack[i].reg[x] \in 1..Len(mem)
    BY Zenon
  <2>1. stack[i].reg[x] \in 0..Len(mem)
    BY Frames, Zenon DEF Named
  <2>2. stack[i].reg[x] \in Reachable
    <3>1. PICK c : c = stack[i].defers \cup stack[i].pers \cup {stack[i].reg[y] : y \in Names}
      BY Zenon
    <3>2. c \in {stack[j].defers \cup stack[j].pers
                   \cup {stack[j].reg[y] : y \in Names} : j \in 1..Len(stack)}
      BY <3>1, Zenon
    <3>3. stack[i].reg[x] \in c
      BY <3>1, Zenon
    <3> QED
      BY <3>2, <3>3, Zenon DEF Reachable
  <2> QED
    BY <1>1, <2>1, <2>2, Frames
<1>6. \A i \in 1..Len(stack) : Alive(i)'
  <2> SUFFICES ASSUME NEW i \in 1..Len(stack) PROVE Alive(i)'
    BY Zenon
  <2>1. \A x \in Needs(stack[i].fn, Cursor(i)) : x \in Names
    BY Zenon DEF Needs
  <2>2. Cursor(i)' = Cursor(i)
    BY <1>1, Zenon DEF Cursor
  <2>3. \A x \in Needs(stack[i].fn, Cursor(i)) :
          stack[i].reg[x] # 0 => mem'[stack[i].reg[x]] # "gone"
    BY <1>2, <1>4, <1>5, <2>1, Zenon DEF Alive
  <2> QED
    BY <1>1, <2>2, <2>3, Zenon DEF Alive
<1>7. \A i \in 1..Len(stack) : ReadyToPublish(stack[i])'
  <2> SUFFICES ASSUME NEW i \in 1..Len(stack), stack[i].fn \in Publishers, stack[i].pc = 2
               PROVE  mem'[stack[i].reg["out"]] = "ro"
    BY <1>1, Zenon DEF ReadyToPublish, Publishers
  <2>1. SetBefore(stack[i].fn, 2, "out")
    <3>1. SetBefore("Seal", 2, "out")
      BY SealCode DEF SetBefore, Assigns, Call
    <3>2. SetBefore("handleGet", 2, "out")
      BY HandleGetCode DEF SetBefore, Assigns, Call
    <3> QED
      BY <3>1, <3>2, ZenonT(30) DEF Publishers
  <2>2. stack[i].reg["out"] # 0
    BY <1>4, <2>1, OutIsLocal, Zenon DEF FrameInv, Written
  <2>3. mem[stack[i].reg["out"]] = "ro"
    BY <1>4, Zenon DEF ReadyToPublish, Publishers
  <2> QED
    BY <1>2, <1>5, <2>2, <2>3, OutIsLocal, Zenon
<1>8. ServedIsReadOnly'
  <2>1. \A v \in vault : v \in 1..Len(mem) /\ v # r
    BY <1>1, Zenon DEF TypeInv, Reachable
  <2> QED
    BY <1>1, <1>2, <1>4, <2>1, Zenon DEF ServedIsReadOnly
<1>9. /\ \A i \in 1..(Len(stack) - 1) : Linked(i)'
      /\ \A i \in 1..Len(stack) : AboveVault(stack[i])'
      /\ \A i \in 1..Len(stack) : \A j \in (i + 1)..Len(stack) : Younger(i, j)'
  <2>1. \A i : Linked(i) => Linked(i)'
    BY <1>1, Zenon DEF Linked, Resolve
  <2>2. \A f : AboveVault(f) => AboveVault(f)'
    BY <1>1, Zenon DEF AboveVault
  <2>3. \A i, j : Younger(i, j) => Younger(i, j)'
    BY <1>1, Zenon DEF Younger
  <2> QED
    BY <1>1, <1>4, <2>1, <2>2, <2>3, Zenon
<1> QED
  BY <1>1, <1>3, <1>4, <1>6, <1>7, <1>8, <1>9, Zenon DEF StackInv

\* The type and stack invariants are kept by every step.
LEMMA StackStep ==
  ASSUME TypeInv, StackInv, Next
  PROVE  TypeInv' /\ StackInv'
<1>1. CASE \E fn \in Entries, l \in 1..Depth : Start(fn, l)
  BY <1>1, StartInv, Zenon
<1>2. CASE NewData
  BY <1>2, NewDataInv, Zenon
<1>3. CASE DeferDestroy \/ ImportData \/ Proceed
  BY <1>3, QuietInv, Zenon
<1>4. CASE Enter
  <2>1. CASE step.fn = "transport" /\ top.level \notin conf.transport
    <3>1. /\ stack # <<>> /\ running /\ step.op = "call"
          /\ stack' = SetTop(Advance(With(top, step.x, Reg(top, step.arg))))
          /\ UNCHANGED <<conf, mem, vault, calls>>
      BY <1>4, <2>1, Zenon DEF Enter, At, running
    <3> QED
      BY <2>1, <3>1, PassInv, Zenon
  <2> QED
    BY <1>4, <2>1, PushInv, Zenon
<1>5. CASE PublishData
  BY <1>5, PublishInv, Zenon
<1>6. CASE Return
  BY <1>6, ReturnInv, Zenon
<1>7. CASE Fail
  BY <1>7, FailInv, Zenon
<1>8. CASE Terminate
  BY <1>8, TerminateInv, Zenon
<1>9. CASE \E r \in 1..Len(mem) : Collect(r)
  BY <1>9, CollectInv, Zenon
<1> QED
  BY <1>1, <1>2, <1>3, <1>4, <1>5, <1>6, <1>7, <1>8, <1>9, Zenon DEF Next, Step

-----------------------------------------------------------------------------
(* Every region has an owner.                                              *)

\* What a frame has got and not passed on it passes on by its next step; after
\* the last one it is the result of a routine that cannot fail any more.
LEMMA PendingFacts ==
  ASSUME TypeInv, stack # <<>>, top.fn \in AgentRoutines, NEW r \in Pending
  PROVE  /\ running => step.op \in {"defer", "import", "publish"} /\ r = Reg(top, step.x)
         /\ ~running => /\ r = top.reg["out"]
                        /\ top.fn \notin Handlers \cup {"createSecret", "Seal"}
<1>1. PICK fn, i, s : fn = top.fn /\ i = top.pc - 1 /\ s = Body[fn][i]
  BY Zenon
<1>2. /\ top.pc > 1 /\ s.op \in {"alloc", "call"} /\ r = top.reg[s.x]
  BY <1>1, Zenon DEF Pending
<1>3. /\ fn \in Routines /\ top.pc \in Nat \ {0} /\ Len(Body[fn]) \in Nat
      /\ top.pc <= Len(Body[fn]) + 1
  <2>1. fn \in Routines /\ top.pc \in Nat \ {0}
    BY <1>1, TopFrame, Zenon
  <2>2. Len(Body[fn]) \in Nat
    BY <2>1, AllSound, ZenonT(30) DEF RoutineSound
  <2>3. top.pc <= Len(Body[fn]) + 1
    BY <1>1, TopFrame, Zenon DEF TypeInv
  <2> QED
    BY <2>1, <2>2, <2>3, Zenon
<1>4. /\ i \in 1..Len(Body[fn]) /\ i + 1 = top.pc
      /\ top.pc <= Len(Body[fn]) => i # Len(Body[fn])
      /\ ~(top.pc <= Len(Body[fn])) => ~(i < Len(Body[fn]))
  BY <1>1, <1>2, <1>3
<1>5. StepSound(fn, i)
  BY <1>3, <1>4, AllSound, Zenon DEF RoutineSound
<1>6. s.x \in Names /\ PassesOn(fn, i, s) /\ s.x # "none"
  BY <1>1, <1>2, <1>5, Zenon DEF StepSound, Fields, PassesOn
<1>7. r = Reg(top, s.x)
  BY <1>2, <1>6, Zenon DEF Reg
<1>8. CASE running
  <2>1. top.pc <= Len(Body[fn])
    BY <1>1, <1>8, Zenon DEF running
  <2>2. step.op \in {"defer", "import", "publish"} /\ step.x = s.x
    BY <1>1, <1>2, <1>4, <1>6, <2>1, Zenon DEF PassesOn, step
  <2> QED
    BY <1>7, <1>8, <2>2, Zenon
<1>9. CASE ~running
  <2>1. ~(top.pc <= Len(Body[fn]))
    BY <1>1, <1>9, Zenon DEF running
  <2>2. s.x = "out" /\ fn \notin Handlers \cup {"createSecret", "Seal"}
    BY <1>1, <1>2, <1>4, <1>6, <2>1, Zenon DEF PassesOn
  <2> QED
    BY <1>1, <1>2, <1>9, <2>2, Zenon
<1> QED
  BY <1>8, <1>9, Zenon

\* A step of the top frame: what it owned stays owned, and so does what is new.
LEMMA OwnedTop ==
  ASSUME TypeInv, OwnedInv, stack # <<>>, NEW g \in FrameType, stack' = SetTop(g),
         conf' = conf, vault \subseteq vault', g.fn = top.fn,
         top.defers \subseteq g.defers, top.pers \subseteq g.pers,
         conf.top = "rpcSeal" => \A r \in Live' : r \in Live \/ r \in g.pers \/ r \in Pending',
         conf.top = "rpcSeal" /\ top.fn \in AgentRoutines =>
           \A r \in Pending : r \in g.defers \cup g.pers \cup vault'
  PROVE  OwnedInv'
<1> SUFFICES ASSUME conf.top = "rpcSeal"
             PROVE  /\ \A i \in 1..Len(stack') : stack'[i].fn \in AgentRoutines
                    /\ \A r \in Live' : Kept(r)'
  BY Zenon DEF OwnedInv
<1>1. PICK n : n = Len(stack)
  BY Zenon
<1>2. /\ Len(stack') = n /\ \A i \in 1..n : i # n => stack'[i] = stack[i]
      /\ stack'[n] = g /\ n \in 1..n /\ top = stack[n]
  BY <1>1, SetTopFacts, TopFrame, Zenon
<1>3. /\ \A i \in 1..n : stack[i].fn \in AgentRoutines
      /\ \A r \in Live : Kept(r)
  BY <1>1, Zenon DEF OwnedInv
<1>4. \A i \in 1..n : stack'[i].fn \in AgentRoutines
  BY <1>2, <1>3, ZenonT(30)
<1>5. \A i \in 1..n : /\ stack[i].defers \subseteq stack'[i].defers
                      /\ stack[i].pers \subseteq stack'[i].pers
  BY <1>2, Zenon
<1>6. ASSUME NEW r \in Live' PROVE Kept(r)'
  <2>1. CASE r \in Live
    <3>1. CASE r \in vault
      BY <3>1, Zenon DEF Kept
    <3>2. CASE r \in Pending
      <4>1. r \in g.defers \cup g.pers \cup vault'
        BY <1>2, <1>3, <3>2, Zenon
      <4> QED
        BY <1>2, <4>1, Zenon DEF Kept
    <3>3. CASE \E i \in 1..n : r \in stack[i].defers \cup stack[i].pers
      <4>1. \E i \in 1..n : r \in stack'[i].defers \cup stack'[i].pers
        BY <1>5, <3>3, Zenon
      <4> QED
        BY <1>2, <4>1, Zenon DEF Kept
    <3> QED
      BY <1>1, <1>3, <2>1, <3>1, <3>2, <3>3, Zenon DEF Kept
  <2>2. CASE r \in g.pers
    BY <1>2, <2>2, Zenon DEF Kept
  <2>3. CASE r \in Pending'
    BY <2>3, Zenon DEF Kept
  <2> QED
    BY <1>6, <2>1, <2>2, <2>3, Zenon
<1> QED
  BY <1>2, <1>4, <1>6, Zenon

\* A new region waits for its owner, or is reserved in the persistent vault.
LEMMA NewDataOwned ==
  ASSUME TypeInv, OwnedInv, NewData
  PROVE  OwnedInv'
<1>1. /\ stack # <<>> /\ running /\ step.op \in {"alloc", "reserve"}
      /\ mem' = Append(mem, "rw") /\ conf' = conf /\ vault' = vault
  BY Zenon DEF NewData, At, running
<1>2. PICK x \in Names : x = step.x
  BY <1>1, StepTop, Zenon DEF Fields
<1>3. PICK r \in Nat \ {0} : r = Len(mem) + 1
  BY Frames
<1>4. top \in FrameType /\ top.reg \in [Names -> Nat] /\ top.pc \in Nat \ {0}
  BY <1>1, TopFrame, Zenon
<1>5. PICK g \in FrameType :
        /\ stack' = SetTop(g) /\ g.fn = top.fn /\ g.pc = top.pc + 1
        /\ g.reg = [top.reg EXCEPT ![x] = r] /\ g.defers = top.defers
        /\ top.pers \subseteq g.pers
        /\ step.op = "reserve" => r \in g.pers
  <2> DEFINE f == Advance(With(top, x, r))
             h == [f EXCEPT !.pers = @ \cup {r}]
             reg == [top.reg EXCEPT ![x] = r]
  <2>1. Moved(top, f, reg, top.defers, top.pers)
    BY <1>2, <1>3, <1>4, Moves, Zenon
  <2>2. Moved(top, h, reg, top.defers, top.pers \cup {r})
    BY <1>2, <1>3, <1>4, Moves, Zenon
  <2>3. stack' = SetTop(IF step.op = "reserve" THEN h ELSE f)
    BY <1>2, <1>3, Zenon DEF NewData
  <2> HIDE DEF f, h
  <2>4. CASE step.op = "reserve"
    BY <2>2, <2>3, <2>4, Zenon DEF Moved
  <2>5. CASE step.op # "reserve"
    BY <2>1, <2>3, <2>5, Zenon DEF Moved
  <2> QED
    BY <2>4, <2>5, Zenon
<1>6. \A q \in Live' : q \in Live \/ q = r
  <2>1. mem \in Seq({"rw", "ro", "gone"})
    BY Zenon DEF TypeInv
  <2> QED
    BY <1>1, <1>3, <2>1 DEF Live
<1>7. step.op = "alloc" => r \in Pending'
  <2>1. PICK n : n = Len(stack)
    BY Zenon
  <2>2. Len(stack') = n /\ stack'[n] = g /\ stack' # <<>>
    BY <1>1, <1>5, <2>1, SetTopFacts, Zenon
  <2>3. top' = g
    BY <2>2, Zenon DEF top
  <2>4. g.pc > 1 /\ g.pc - 1 = top.pc
    BY <1>4, <1>5
  <2>5. g.reg[x] = r
    BY <1>4, <1>5, Zenon
  <2> QED
    BY <1>2, <1>5, <2>2, <2>3, <2>4, <2>5, Zenon DEF Pending, step
<1>8. conf.top = "rpcSeal" /\ top.fn \in AgentRoutines => \A q \in Pending : FALSE
  BY <1>1, PendingFacts, Zenon
<1> QED
  BY <1>1, <1>5, <1>6, <1>7, <1>8, OwnedTop, Zenon

\* Deferring, importing and publishing give a region an owner.
LEMMA QuietOwned ==
  ASSUME TypeInv, OwnedInv, DeferDestroy \/ ImportData \/ Proceed \/ PublishData
  PROVE  OwnedInv'
<1>1. /\ stack # <<>> /\ running /\ step.op \in {"defer", "import", "use", "commit", "publish"}
      /\ conf' = conf /\ mem' = mem /\ vault \subseteq vault'
  BY Zenon DEF DeferDestroy, ImportData, Proceed, PublishData, At, running
<1>2. PICK r : r = Reg(top, step.x)
  BY Zenon
<1>3. top \in FrameType /\ top.reg \in [Names -> Nat]
  BY <1>1, TopFrame, Zenon
<1>4. step.op \in {"defer", "import"} => r \in Nat
  <2>1. step.op \in {"defer", "import"} => step.x \in Names
    BY <1>1, StepTop, Zenon DEF Fields
  <2>2. \A x \in Names : Reg(top, x) \in Nat
    <3>1. 0 \in Nat
      OBVIOUS
    <3> QED
      BY <1>3, <3>1, Zenon DEF Reg
  <2> QED
    BY <1>2, <2>1, <2>2, Zenon
<1>5. PICK g \in FrameType :
        /\ stack' = SetTop(g) /\ g.fn = top.fn
        /\ top.defers \subseteq g.defers /\ top.pers \subseteq g.pers
        /\ step.op = "defer" => r \in g.defers
        /\ step.op = "import" => r \in g.pers
        /\ step.op = "publish" => r \in vault'
  <2>1. CASE DeferDestroy
    <3>1. /\ step.op = "defer"
          /\ stack' = SetTop([Advance(top) EXCEPT !.defers = @ \cup {r}])
      BY <1>2, <2>1, Zenon DEF DeferDestroy, At
    <3>2. PICK g : g = [Advance(top) EXCEPT !.defers = @ \cup {r}]
      BY Zenon
    <3>3. Moved(top, g, top.reg, top.defers \cup {r}, top.pers)
      BY <1>3, <1>4, <3>1, <3>2, Moves, Zenon
    <3> QED
      BY <3>1, <3>2, <3>3, Zenon DEF Moved
  <2>2. CASE ImportData
    <3>1. /\ step.op = "import"
          /\ stack' = SetTop([Advance(top) EXCEPT !.pers = @ \cup {r}])
      BY <1>2, <2>2, Zenon DEF ImportData, At
    <3>2. PICK g : g = [Advance(top) EXCEPT !.pers = @ \cup {r}]
      BY Zenon
    <3>3. Moved(top, g, top.reg, top.defers, top.pers \cup {r})
      BY <1>3, <1>4, <3>1, <3>2, Moves, Zenon
    <3> QED
      BY <3>1, <3>2, <3>3, Zenon DEF Moved
  <2>3. CASE Proceed \/ PublishData
    <3>1. /\ step.op \in {"use", "commit", "publish"} /\ stack' = SetTop(Advance(top))
          /\ step.op = "publish" => r \in vault'
      BY <1>2, <2>3, Zenon DEF Proceed, PublishData, At
    <3>2. PICK g : g = Advance(top)
      BY Zenon
    <3>3. Moved(top, g, top.reg, top.defers, top.pers)
      BY <1>3, <3>2, Moves, Zenon
    <3> QED
      BY <3>1, <3>2, <3>3, Zenon DEF Moved
  <2> QED
    BY <2>1, <2>2, <2>3, Zenon
<1>6. \A q \in Live' : q \in Live
  BY <1>1, Zenon DEF Live
<1>7. conf.top = "rpcSeal" /\ top.fn \in AgentRoutines =>
        \A q \in Pending : q \in g.defers \cup g.pers \cup vault'
  BY <1>1, <1>2, <1>5, PendingFacts, Zenon
<1> QED
  BY <1>1, <1>5, <1>6, <1>7, OwnedTop, Zenon

\* A call changes no owner, and leads to another routine of an agent.
LEMMA EnterOwned ==
  ASSUME TypeInv, StackInv, OwnedInv, Enter
  PROVE  OwnedInv'
<1>1. /\ stack # <<>> /\ running /\ step.op = "call"
      /\ conf' = conf /\ mem' = mem /\ vault' = vault
  BY Zenon DEF Enter, At, running
<1>2. top \in FrameType /\ top.reg \in [Names -> Nat] /\ top.fn \in Routines
  BY <1>1, TopFrame, Zenon
<1>3. top.fn \in AgentRoutines => \A q \in Pending : FALSE
  BY <1>1, PendingFacts, Zenon
<1>4. \A q \in Live' : q \in Live
  BY <1>1, Zenon DEF Live
<1>5. CASE step.fn = "transport" /\ top.level \notin conf.transport
  <2>1. PICK x \in Names : x = step.x
    BY <1>1, <1>5, StepTop, Zenon DEF GivesAway
  <2>2. PICK r \in Nat : r = Reg(top, step.arg)
    <3>1. step.arg \in Names /\ 0 \in Nat
      BY <1>1, <1>5, StepTop, Zenon DEF GivesAway
    <3> QED
      BY <1>2, <3>1, Zenon DEF Reg
  <2>3. PICK g : g = Advance(With(top, x, r))
    BY Zenon
  <2>4. Moved(top, g, [top.reg EXCEPT ![x] = r], top.defers, top.pers)
    BY <1>2, <2>3, Moves, Zenon
  <2>5. stack' = SetTop(g)
    BY <1>5, <2>1, <2>2, <2>3, Zenon DEF Enter
  <2>6. /\ g \in FrameType /\ g.fn = top.fn /\ vault \subseteq vault'
        /\ top.defers \subseteq g.defers /\ top.pers \subseteq g.pers
    BY <1>1, <2>4, Zenon DEF Moved
  <2> QED
    BY <1>1, <1>3, <1>4, <2>5, <2>6, OwnedTop, Zenon
<1>6. CASE ~(step.fn = "transport" /\ top.level \notin conf.transport)
  <2> SUFFICES ASSUME conf.top = "rpcSeal"
               PROVE  /\ \A i \in 1..Len(stack') : stack'[i].fn \in AgentRoutines
                      /\ \A r \in Live' : Kept(r)'
    BY <1>1, Zenon DEF OwnedInv
  <2>1. PICK n, m, h, fn : /\ n = Len(stack) /\ m = n + 1 /\ fn = Resolve(step.fn, top.level)
                           /\ h.fn = fn /\ stack' = Append(stack, h)
    <3>1. PICK l, a, b, d, fn :
            /\ l = IF step.fn = "parent" THEN ParentLevel(top.level) ELSE top.level
            /\ a = Reg(top, step.arg) /\ d = step.x /\ fn = Resolve(step.fn, top.level)
            /\ b = IF step.fn \in {"encrypt", "aes"} THEN Reg(top, "sec") ELSE 0
      BY Zenon
    <3>2. PICK h : h = Frame(fn, l, a, b, d)
      BY Zenon
    <3>3. stack' = Append(stack, h)
      BY <1>6, <3>1, <3>2, Zenon DEF Enter
    <3>4. h.fn = fn
      BY <3>2 DEF Frame
    <3> QED
      BY <3>1, <3>3, <3>4, Zenon
  <2>2. /\ Len(stack') = m /\ stack'[m] = h /\ \A i \in 1..n : stack'[i] = stack[i]
        /\ \A i \in 1..m : i \in 1..n \/ i = m
        /\ \A i \in 1..n : i \in 1..m
    <3>1. stack \in Seq(FrameType)
      BY Zenon DEF TypeInv
    <3>2. Len(stack') = m /\ stack'[m] = h /\ \A i \in 1..n : stack'[i] = stack[i]
      BY <2>1, <3>1
    <3>3. n \in Nat
      BY <2>1, Frames
    <3> QED
      BY <2>1, <3>2, <3>3
  <2>3. /\ \A i \in 1..n : stack[i].fn \in AgentRoutines
        /\ \A r \in Live : Kept(r)
        /\ top.fn \in AgentRoutines
    BY <1>1, <2>1, TopFrame, Zenon DEF OwnedInv
  <2>4. fn \in AgentRoutines
    <3>1. conf.top \in {"rpcSeal", "rootSeal"} /\ conf.vault \in {"exportOpenBao", "exportSQLite"}
      BY SecureMemoryAssumption, Zenon DEF TypeInv
    <3>2. top.fn \in Routines /\ top.pc \in 1..Len(Body[top.fn]) /\ top.level \in 1..Depth
      BY <1>1, <1>2, StepAt, NeedsAlive, Zenon DEF FrameType
    <3>3. Reaches(top.fn, step)
      BY <3>1, <3>2, AllReach, Zenon DEF step
    <3> QED
      BY <1>1, <2>1, <2>3, <3>2, <3>3, Zenon DEF Reaches
  <2>5. \A i \in 1..m : stack'[i].fn \in AgentRoutines
    BY <2>1, <2>2, <2>3, <2>4, Zenon
  <2>6. ASSUME NEW r \in Live' PROVE Kept(r)'
    <3>1. Kept(r) /\ r \notin Pending
      BY <1>3, <1>4, <2>3, <2>6, Zenon
    <3>2. CASE r \in vault
      BY <1>1, <3>2, Zenon DEF Kept
    <3>3. CASE \E i \in 1..n : r \in stack[i].defers \cup stack[i].pers
      <4>1. \E i \in 1..m : r \in stack'[i].defers \cup stack'[i].pers
        BY <2>2, <3>3, Zenon
      <4> QED
        BY <2>2, <4>1, Zenon DEF Kept
    <3> QED
      BY <2>1, <3>1, <3>2, <3>3, Zenon DEF Kept
  <2> QED
    BY <2>2, <2>5, <2>6, Zenon
<1> QED
  BY <1>5, <1>6, Zenon

\* Outside a call the vault owns all there is.
LEMMA OwnedIdle ==
  ASSUME stack = <<>>
  PROVE  Pending = {} /\ (1..Len(stack) = {}) /\ \A r : Kept(r) <=> r \in vault
<1>1. 1..Len(stack) = {}
  OBVIOUS
<1>2. Pending = {}
  BY Zenon DEF Pending
<1> QED
  BY <1>1, <1>2, Zenon DEF Kept

\* The frame that returns hands its result to the frame below, and the last one
\* has none but what it published.
LEMMA ReturnOwned ==
  ASSUME TypeInv, StackInv, OwnedInv, Return
  PROVE  OwnedInv'
<1>1. /\ stack # <<>> /\ ~running
      /\ conf' = conf /\ vault' = vault /\ stack' = Resumed(top)
  BY Zenon DEF Return
<1>2. mem' = MarkedReadOnly(Destroyed(top.defers), top.pers)
  BY Zenon DEF Return
<1> SUFFICES ASSUME conf.top = "rpcSeal"
             PROVE  /\ \A i \in 1..Len(stack') : stack'[i].fn \in AgentRoutines
                    /\ \A r \in Live' : Kept(r)'
  BY <1>1, Zenon DEF OwnedInv
<1>3. PICK n, g, o : n = Len(stack) /\ g = top /\ o = g.reg["out"]
  BY Zenon
<1>4. /\ n \in Nat /\ n \in 1..n /\ g = stack[n] /\ g \in FrameType /\ FrameInv(g)
      /\ \A i \in 1..n : stack[i].fn \in AgentRoutines
      /\ \A r \in Live : Kept(r)
      /\ g.fn \in AgentRoutines /\ o \in Nat
  BY <1>1, <1>3, TopFrame, Frames, Returned, Zenon DEF StackInv, OwnedInv
<1>5. ASSUME NEW r \in Live'
      PROVE  /\ r # 0
             /\ \/ r \in vault
                \/ r \in Pending /\ r = o
                \/ r \in g.pers /\ r = o
                \/ \E i \in 1..n : i # n /\ r \in stack[i].defers \cup stack[i].pers
  <2>1. r \in 1..Len(mem) /\ mem[r] # "gone" /\ r \notin g.defers
    <3>1. /\ Len(mem') = Len(mem)
          /\ \A q \in 1..Len(mem) : mem'[q] = "gone" <=> mem[q] = "gone" \/ q \in g.defers
      BY <1>2, <1>3, MemFacts, Zenon
    <3> QED
      BY <1>5, <3>1, Zenon DEF Live
  <2>2. Kept(r) /\ r # 0
    <3>1. r # 0
      BY <2>1, Frames
    <3> QED
      BY <1>4, <2>1, <3>1, Zenon DEF Live
  <2>3. r \in Pending => r = o
    BY <1>1, <1>3, <1>4, PendingFacts, Zenon
  <2>4. r \in g.pers => r = o
    BY <1>3, <1>4, <2>2, Zenon DEF FrameInv, KeptForCaller
  <2>5. CASE \E i \in 1..n : r \in stack[i].defers \cup stack[i].pers
    <3>1. PICK i \in 1..n : r \in stack[i].defers \cup stack[i].pers
      BY <2>5
    <3>2. CASE i = n
      BY <1>4, <2>1, <2>2, <2>4, <3>1, <3>2, Zenon
    <3> QED
      BY <2>2, <3>1, <3>2, Zenon
  <2> QED
    BY <1>3, <2>2, <2>3, <2>5, Zenon DEF Kept
<1>6. CASE n = 1
  <2>1. stack' = <<>>
    <3>1. stack \in Seq(FrameType)
      BY Zenon DEF TypeInv
    <3> QED
      BY <1>1, <1>3, <1>6, <3>1 DEF Resumed
  <2>2. 1..Len(stack') = {} /\ \A i \in 1..n : i = n
    BY <1>6, <2>1
  <2>3. g.fn \in {"createSecret", "Seal"}
    <3>1. g.fn \in {"createSecret", "Seal", "handleGet", "importSpec"}
      BY <1>1, <1>4, <1>6, Zenon DEF StackInv
    <3> QED
      BY <1>4, <3>1 DEF AgentRoutines
  <2>4. \A r \in Pending : FALSE
    BY <1>1, <1>3, <1>4, <2>3, PendingFacts, Zenon
  <2>5. \A r \in g.pers : r = 0
    <3>1. CASE g.fn = "Seal"
      BY <1>4, <3>1, Zenon DEF FrameInv, KeptForCaller
    <3>2. CASE g.fn = "createSecret"
      <4>1. g.pc = 8
        BY <1>1, <1>3, <3>2, Returned, CreateSecretCode
      <4>2. ~SetBefore("createSecret", 8, "out")
        BY CreateSecretCode DEF SetBefore, Assigns, Call, Defer, Use
      <4>3. o = 0
        BY <1>3, <1>4, <3>2, <4>1, <4>2, OutIsLocal, Zenon DEF FrameInv, Written
      <4> QED
        BY <1>3, <1>4, <4>3, Zenon DEF FrameInv, KeptForCaller
    <3> QED
      BY <2>3, <3>1, <3>2, Zenon
  <2>6. \A r \in Live' : r \in vault'
    BY <1>1, <1>5, <2>2, <2>4, <2>5, Zenon
  <2> QED
    BY <2>2, <2>6, Zenon DEF Kept
<1>7. CASE n # 1
  <2>1. PICK k \in Nat : n = k + 1 /\ k \in 1..k /\ k = n - 1 /\ k \in 1..(Len(stack) - 1)
    <3>1. n - 1 \in Nat /\ n = (n - 1) + 1 /\ n - 1 \in 1..(n - 1)
      BY <1>4, <1>7
    <3> QED
      BY <1>3, <3>1, Zenon
  <2>2. PICK f, s : f = stack[k] /\ s = Body[f.fn][f.pc]
    BY Zenon
  <2>3. Waits(f, g, s)
    <3>1. k \in 1..(Len(stack) - 1) /\ g = stack[k + 1]
      BY <1>4, <2>1, Zenon
    <3> QED
      BY <2>2, <3>1, Callee, Zenon
  <2>4. \A i \in 1..k : i \in 1..n
    BY <1>4, <2>1
  <2>5. \A i \in 1..n : i # n => i \in 1..k
    BY <1>4, <2>1
  <2>6. /\ f \in FrameType /\ f.fn \in AgentRoutines /\ s.op = "call" /\ s.x \in Names
        /\ g.dst = s.x /\ f.pc \in Nat \ {0}
    <3>1. f.fn \in AgentRoutines
      BY <1>4, <2>1, <2>2, <2>4, Zenon
    <3> QED
      BY <2>3, <3>1, Zenon DEF Waits, PassesOn, Fields, FrameType
  <2>7. PICK x \in Names : x = s.x
    BY <2>6, Zenon
  <2>8. PICK h : h = Advance(With(f, x, o))
    BY Zenon
  <2>9. /\ h \in FrameType /\ h.fn = f.fn /\ h.pc = f.pc + 1 /\ h.defers = f.defers
        /\ h.pers = f.pers /\ h.reg = [f.reg EXCEPT ![x] = o]
    <3>1. Moved(f, h, [f.reg EXCEPT ![x] = o], f.defers, f.pers)
      BY <1>4, <2>6, <2>8, Moves, Zenon
    <3> QED
      BY <3>1, Zenon DEF Moved
  <2>10. /\ Len(stack') = k /\ stack' # <<>> /\ stack'[k] = h
         /\ \A i \in 1..k : i # k => stack'[i] = stack[i]
    <3>1. h = Advance(With(stack[k], g.dst, g.reg["out"])) /\ stack' = Resumed(g)
      BY <1>1, <1>3, <2>2, <2>6, <2>7, <2>8, ZenonT(30)
    <3>2. n = Len(stack) /\ n = k + 1 /\ k \in 1..k /\ h \in FrameType
      BY <1>3, <2>1, <2>9, Zenon
    <3>3. /\ Len(Resumed(g)) = k /\ Resumed(g) # <<>>
          /\ Resumed(g)[k] = h /\ \A i \in 1..k : i # k => Resumed(g)[i] = stack[i]
      BY <3>1, <3>2, ResumedFacts, SMTT(30)
    <3> QED
      BY <3>1, <3>3, Zenon
  <2>11. \A i \in 1..k : /\ stack'[i].fn \in AgentRoutines
                         /\ stack'[i].defers = stack[i].defers /\ stack'[i].pers = stack[i].pers
    <3>1. h.fn \in AgentRoutines
      BY <2>6, <2>9, Zenon
    <3> QED
      BY <1>4, <2>2, <2>4, <2>9, <2>10, <3>1, Zenon
  <2>12. o \in Pending'
    <3>1. top' = h
      BY <2>10, Zenon DEF top
    <3>2. h.pc > 1 /\ h.pc - 1 = f.pc
      BY <2>6, <2>9
    <3>3. h.reg[x] = o
      BY <2>6, <2>9, Zenon DEF FrameType
    <3>4. Body[h.fn][h.pc - 1] = s
      BY <2>2, <2>9, <3>2, Zenon
    <3> QED
      BY <2>6, <2>7, <2>10, <3>1, <3>2, <3>3, <3>4, Zenon DEF Pending
  <2>13. ASSUME NEW r \in Live' PROVE Kept(r)'
    <3>1. CASE r \in vault \/ r = o
      BY <1>1, <2>12, <3>1, Zenon DEF Kept
    <3>2. CASE \E i \in 1..n : i # n /\ r \in stack[i].defers \cup stack[i].pers
      <4>1. \E i \in 1..k : r \in stack'[i].defers \cup stack'[i].pers
        BY <2>5, <2>11, <3>2, Zenon
      <4> QED
        BY <2>10, <4>1, Zenon DEF Kept
    <3> QED
      BY <1>5, <2>13, <3>1, <3>2, Zenon
  <2> QED
    BY <2>10, <2>11, <2>13, Zenon
<1> QED
  BY <1>6, <1>7, Zenon

\* An error destroys what has an owner: nothing waits for one where a step may
\* fail, but the result that is about to be published.
LEMMA FailOwned ==
  ASSUME TypeInv, OwnedInv, Fail
  PROVE  OwnedInv'
<1>1. PICK p : p = IF At("publish") THEN {Reg(top, step.x)} ELSE {}
  BY Zenon
<1>2. PICK d : d = Unwound \cup p
  BY Zenon
<1>3. /\ stack # <<>> /\ mem' = Destroyed(d) /\ stack' = <<>> /\ conf' = conf /\ vault' = vault
      /\ running => step.op \notin {"defer", "import"}
      /\ ~running => top.fn \in Handlers
  BY <1>1, <1>2, Zenon DEF Fail
<1> SUFFICES ASSUME conf.top = "rpcSeal"
             PROVE  /\ \A i \in 1..Len(stack') : stack'[i].fn \in AgentRoutines
                    /\ \A r \in Live' : Kept(r)'
  BY <1>3, Zenon DEF OwnedInv
<1>4. /\ \A i \in 1..Len(stack) : stack[i].fn \in AgentRoutines
      /\ \A r \in Live : Kept(r)
      /\ top.fn \in AgentRoutines
  BY <1>3, TopFrame, Zenon DEF OwnedInv
<1>5. \A r \in Pending : r \in p
  <2> SUFFICES ASSUME NEW r \in Pending PROVE r \in p
    BY Zenon
  <2>1. running
    BY <1>3, <1>4, PendingFacts, Zenon
  <2>2. step.op = "publish" /\ r = Reg(top, step.x)
    BY <1>3, <1>4, <2>1, PendingFacts, Zenon
  <2> QED
    BY <1>1, <2>1, <2>2, Zenon DEF At
<1>6. ASSUME NEW r \in Live' PROVE r \in vault
  <2>1. r \in Live /\ r \notin d
    <3>1. /\ Len(mem') = Len(mem)
          /\ \A q \in 1..Len(mem) : mem'[q] = "gone" <=> mem[q] = "gone" \/ q \in d
      BY <1>3, MemFacts, Zenon
    <3> QED
      BY <1>6, <3>1, Zenon DEF Live
  <2>2. \A i \in 1..Len(stack) : r \notin stack[i].defers \cup stack[i].pers
    <3> SUFFICES ASSUME NEW i \in 1..Len(stack), r \in stack[i].defers \cup stack[i].pers
                 PROVE  r \in Unwound
      BY <1>2, <2>1, Zenon
    <3> QED
      BY Zenon DEF Unwound
  <2> QED
    BY <1>2, <1>4, <1>5, <2>1, <2>2, Zenon DEF Kept
<1>7. 1..Len(stack') = {}
  BY <1>3
<1> QED
  BY <1>3, <1>6, <1>7, Zenon DEF Kept

\* The calls of an agent, the end of a vault, and the collector.
LEMMA RestOwned ==
  ASSUME TypeInv, OwnedInv,
         \/ \E fn \in Entries, l \in 1..Depth : Start(fn, l)
         \/ Terminate
         \/ \E r \in 1..Len(mem) : Collect(r)
  PROVE  OwnedInv'
<1>1. CASE \E fn \in Entries, l \in 1..Depth : Start(fn, l)
  <2>1. PICK fn \in Entries, l \in 1..Depth : Start(fn, l)
    BY <1>1
  <2>2. PICK h : h = Frame(fn, l, 0, 0, "none")
    BY Zenon
  <2>3. /\ stack = <<>> /\ stack' = <<h>> /\ conf' = conf /\ mem' = mem /\ vault' = vault
        /\ conf.top = "rpcSeal" => fn \notin {"importSpec", "handleGet"}
    <3>1. "rpcSeal" # "rootSeal"
      OBVIOUS
    <3> QED
      BY <2>1, <2>2, <3>1, Zenon DEF Start, Serves
  <2>4. h.fn = fn /\ fn \in {"createSecret", "Seal", "handleGet", "importSpec"}
    BY <2>2, SecureMemoryAssumption DEF Frame
  <2>5. conf.top = "rpcSeal" => h.fn \in AgentRoutines
    BY <2>3, <2>4, Table DEF AgentRoutines
  <2>6. \A i \in 1..Len(stack') : stack'[i] = h
    BY <2>3
  <2>7. conf.top = "rpcSeal" => \A r \in Live : r \in vault
    BY <2>3, OwnedIdle, Zenon DEF OwnedInv
  <2> QED
    BY <2>3, <2>5, <2>6, <2>7, Zenon DEF OwnedInv, Live, Kept
<1>2. CASE Terminate
  <2>1. /\ stack = <<>> /\ stack' = <<>> /\ mem' = Destroyed(vault) /\ conf' = conf
    BY <1>2, Zenon DEF Terminate
  <2>2. 1..Len(stack') = {}
    BY <2>1
  <2>3. /\ Len(mem') = Len(mem)
        /\ \A q \in 1..Len(mem) : mem'[q] = "gone" <=> mem[q] = "gone" \/ q \in vault
    BY <2>1, MemFacts, Zenon
  <2>4. conf.top = "rpcSeal" => \A r \in Live : r \in vault
    BY <2>1, OwnedIdle, Zenon DEF OwnedInv
  <2> QED
    BY <2>1, <2>2, <2>3, <2>4, Zenon DEF OwnedInv, Live
<1>3. CASE \E r \in 1..Len(mem) : Collect(r)
  <2>1. PICK r : mem' = Destroyed({r}) /\ conf' = conf /\ stack' = stack /\ vault' = vault
    BY <1>3, Zenon DEF Collect
  <2>2. \A q \in Live' : q \in Live
    <3>1. /\ Len(mem') = Len(mem)
          /\ \A q \in 1..Len(mem) : mem'[q] = "gone" <=> mem[q] = "gone" \/ q \in {r}
      BY <2>1, MemFacts, Zenon
    <3> QED
      BY <3>1, Zenon DEF Live
  <2>3. Pending' = Pending
    BY <2>1, Zenon DEF Pending, top
  <2>4. \A q : Kept(q) => Kept(q)'
    BY <2>1, <2>3, Zenon DEF Kept
  <2> QED
    BY <2>1, <2>2, <2>4, Zenon DEF OwnedInv
<1> QED
  BY <1>1, <1>2, <1>3, Zenon

-----------------------------------------------------------------------------
(* The theorems.                                                           *)

\* The invariant holds at the start.
LEMMA MemInit == Init => MemInv
<1> SUFFICES ASSUME Init PROVE MemInv
  OBVIOUS
<1>1. /\ conf \in [top : Tops, transport : SUBSET (1..Depth),
                   vault : {"exportOpenBao", "exportSQLite"}]
      /\ mem = <<>> /\ stack = <<>> /\ vault = {} /\ calls = 0
  BY Zenon DEF Init
<1>2. /\ mem \in Seq({"rw", "ro", "gone"}) /\ stack \in Seq(FrameType)
      /\ 1..Len(stack) = {} /\ 1..(Len(stack) - 1) = {} /\ 1..Len(mem) = {}
      /\ calls \in 0..MaxCalls
  BY <1>1, SecureMemoryAssumption
<1>3. TypeInv
  BY <1>1, <1>2, Zenon DEF TypeInv
<1>4. StackInv
  BY <1>1, <1>2, Zenon DEF StackInv, ServedIsReadOnly
<1>5. OwnedInv
  BY <1>2, Zenon DEF OwnedInv, Live
<1> QED
  BY <1>3, <1>4, <1>5, Zenon DEF MemInv

\* Every step keeps the invariant.
LEMMA MemStep == MemInv /\ [Next]_vars => MemInv'
<1>1. ASSUME MemInv, Next PROVE MemInv'
  <2>1. TypeInv /\ StackInv /\ OwnedInv
    BY <1>1, Zenon DEF MemInv
  <2>2. TypeInv' /\ StackInv'
    BY <1>1, <2>1, StackStep, Zenon
  <2>3. OwnedInv'
    BY <1>1, <2>1, NewDataOwned, QuietOwned, EnterOwned, ReturnOwned, FailOwned, RestOwned, Zenon
       DEF Next, Step
  <2> QED
    BY <2>2, <2>3, Zenon DEF MemInv
<1>2. ASSUME MemInv, UNCHANGED vars PROVE MemInv'
  <2>1. conf' = conf /\ mem' = mem /\ stack' = stack /\ vault' = vault /\ calls' = calls
    BY <1>2, Zenon DEF vars
  <2>2. TypeInv'
    BY <1>2, <2>1, Zenon DEF MemInv, TypeInv
  <2>3. StackInv'
    <3>1. /\ \A i : Linked(i) => Linked(i)'
          /\ \A i : Alive(i) => Alive(i)'
          /\ \A f : AboveVault(f) => AboveVault(f)'
          /\ \A f : ReadyToPublish(f) => ReadyToPublish(f)'
          /\ \A i, j : Younger(i, j) => Younger(i, j)'
      <4>1. \A i : Linked(i) => Linked(i)'
        BY <2>1, Zenon DEF Linked, Resolve
      <4>2. \A i : Alive(i) => Alive(i)'
        BY <2>1, Zenon DEF Alive, Cursor
      <4>3. \A f : AboveVault(f) => AboveVault(f)'
        BY <2>1, Zenon DEF AboveVault
      <4>4. \A f : ReadyToPublish(f) => ReadyToPublish(f)'
        BY <2>1, Zenon DEF ReadyToPublish
      <4>5. \A i, j : Younger(i, j) => Younger(i, j)'
        BY <2>1, Zenon DEF Younger
      <4> QED
        BY <4>1, <4>2, <4>3, <4>4, <4>5, Zenon
    <3>2. ServedIsReadOnly => ServedIsReadOnly'
      BY <2>1, Zenon DEF ServedIsReadOnly
    <3>3. StackInv
      BY <1>2, Zenon DEF MemInv
    <3> QED
      BY <2>1, <3>1, <3>2, <3>3, Zenon DEF StackInv
  <2>4. OwnedInv'
    <3>1. Pending' = Pending /\ Live' = Live
      BY <2>1, Zenon DEF Pending, top, Live
    <3>2. \A q : Kept(q) => Kept(q)'
      BY <2>1, <3>1, Zenon DEF Kept
    <3> QED
      BY <1>2, <2>1, <3>1, <3>2, Zenon DEF MemInv, OwnedInv
  <2> QED
    BY <2>2, <2>3, <2>4, Zenon DEF MemInv
<1> QED
  BY <1>1, <1>2, Zenon

\* The inductive invariant holds in every reachable state.
THEOREM MemoryInvariant == Spec => []MemInv
BY MemInit, MemStep, PTL DEF Spec

\* Every region has a state, and frames, vaults and deferred Destroys only name
\* regions that were allocated.
THEOREM MemoryTyped == Spec => []TypeOK
<1>1. MemInv => TypeOK
  <2> SUFFICES ASSUME TypeInv PROVE TypeOK
    BY Zenon DEF MemInv
  <2>1. \A i \in 1..Len(stack) : /\ stack[i].fn \in DOMAIN Body /\ stack[i].level \in 1..Depth
                                 /\ Named(stack[i]) \subseteq 0..Len(mem)
    BY Frames, Zenon DEF FrameType, Routines
  <2>2. Reachable \subseteq 0..Len(mem)
    <3>1. vault \subseteq 0..Len(mem)
      BY Frames DEF TypeInv
    <3> QED
      BY <2>1, <3>1, Zenon DEF Reachable, Named
  <2> QED
    BY <2>1, <2>2, Zenon DEF TypeInv, TypeOK
<1> QED
  BY <1>1, MemoryInvariant, PTL

\* Whatever the hierarchy, the transport sealers and the vault, and whichever
\* step of whichever call fails, no routine reads a destroyed region.
THEOREM MemoryNeverReadDead == Spec => []NoUseAfterDestroy
<1>1. MemInv => NoUseAfterDestroy
  <2> SUFFICES ASSUME TypeInv, StackInv, NEW r \in ReadNext PROVE mem[r] # "gone"
    BY Zenon DEF MemInv, NoUseAfterDestroy
  <2>1. /\ running /\ r # 0
        /\ \/ step.op \in {"use", "import", "publish"} /\ r = Reg(top, step.x)
           \/ step.op = "call" /\ r = Reg(top, step.arg)
    BY DEF ReadNext, At
  <2>2. PICK x : /\ r = Reg(top, x) /\ (x \in Names => Reads(step, x))
                 /\ x \in Names \cup {"none"}
    <3>1. stack # <<>>
      BY <2>1, Zenon DEF running
    <3> QED
      BY <2>1, <3>1, StepTop, Zenon DEF Fields, Reads
  <2>3. x \in Names /\ r = top.reg[x]
    BY <2>1, <2>2, Zenon DEF Reg
  <2>4. stack # <<>>
    BY <2>1, Zenon DEF running
  <2> QED
    BY <2>1, <2>2, <2>3, <2>4, NeedsAlive, Zenon
<1> QED
  BY <1>1, MemoryInvariant, PTL

\* In a process whose highest kind is sealed by another process, a call that
\* has returned or failed leaves nothing but what its vault will destroy.
THEOREM MemoryLeavesNothing == Spec => []NothingLeftBehind
<1>1. MemInv => NothingLeftBehind
  BY OwnedIdle, Zenon DEF MemInv, OwnedInv, NothingLeftBehind
<1> QED
  BY <1>1, MemoryInvariant, PTL

\* What a response is serialised from is alive and read-only.
THEOREM MemoryServedReadOnly == Spec => []ServedIsReadOnly
<1>1. MemInv => ServedIsReadOnly
  BY Zenon DEF MemInv, StackInv
<1> QED
  BY <1>1, MemoryInvariant, PTL

=============================================================================
