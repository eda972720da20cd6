---------------------------- MODULE ProtoNumbers ----------------------------
(***************************************************************************)
(* The field numbers of the code-first gRPC contract: the developer edits  *)
(* the models of each server id, `xime grpc generate` numbers their fields *)
(* from proto.lock.json, writes the .proto files, saves the lock file and  *)
(* runs protoc, whose output is what the peers exchange.  It may be stopped*)
(* between two of these steps.  One message per server id stands for all.  *)
(***************************************************************************)
EXTENDS Naturals, FiniteSetsExt, SequencesExt

CONSTANTS
  Names,          \* names of fields
  ServerIds,      \* the server ids, a sequence in the order they are built
  MessageOf,      \* the __name__ of each server's model
  MaxFields,      \* bound: fields of a model
  MaxEdits,       \* bound: edits of the models
  MaxStops        \* bound: generations that are interrupted

ServerId == ToSet(ServerIds)
Message == {MessageOf[s] : s \in ServerId}

ASSUME ProtoAssumption ==
  ServerIds \in Seq(ServerId) /\ Names # {} /\ MaxFields \in Nat \ {0}

VARIABLES
  pyFields,   \* the fields of each model, in their order in the class
  lockFile,   \* proto.lock.json: the record of each message
  protoFiles, \* the .proto file of each server
  everOnWire,       \* history: every <<field, number>> a pb2 module ever had
  gen,        \* the generation: its step, and in its memory the lock, the texts
              \* of the files and how many servers they are built for
  edits, stops

protoVars == <<pyFields, lockFile, protoFiles, everOnWire, gen, edits,
               stops>>

NoFields == [n \in {} |-> 0]
NoRecord == [fields |-> NoFields, numbers |-> {}, names |-> {}]
NoFile == [fields |-> NoFields, names |-> {}]
NotGenerating ==
  [step |-> "idle", lock |-> [m \in Message |-> NoRecord],
   files |-> [s \in ServerId |-> NoFile], built |-> 0]

Models == {q \in SeqOf(Names, MaxFields) : q # <<>> /\ IsInjective(q)}

(***************************************************************************)
(* LockFile.assign_numbers: known fields keep their number, new ones take  *)
(* the numbers after the largest one used or reserved, removed ones are    *)
(* reserved with their names.                                              *)
(***************************************************************************)
Position(q, n) == CHOOSE i \in DOMAIN q : q[i] = n
NumbersOf(rec) == {rec.fields[n] : n \in DOMAIN rec.fields} \union rec.numbers
FirstFree(rec) == Max({0} \union NumbersOf(rec)) + 1

Assigned(rec, q) ==
  LET gone == DOMAIN rec.fields \ ToSet(q)
      NewBefore(i) == {j \in 1 .. i - 1 : q[j] \notin DOMAIN rec.fields}
  IN [fields  |-> [n \in ToSet(q) |->
                     IF n \in DOMAIN rec.fields THEN rec.fields[n]
                     ELSE FirstFree(rec) + Cardinality(NewBefore(Position(q, n)))],
      numbers |-> rec.numbers \union {rec.fields[n] : n \in gone},
      names   |-> rec.names \union gone]

(* protoc refuses a message one of whose fields has a reserved name        *)
Compiles(s) == DOMAIN protoFiles[s].fields \cap protoFiles[s].names = {}

ProtoInit ==
  /\ pyFields = [s \in ServerId |-> CHOOSE q \in Models : Len(q) = 1]
  /\ lockFile = [m \in Message |-> NoRecord]
  /\ protoFiles = [s \in ServerId |-> NoFile]
  /\ everOnWire = [s \in ServerId |-> {}]
  /\ gen = NotGenerating
  /\ edits = 0 /\ stops = 0

EditModel(s) ==
  /\ gen.step = "idle" /\ edits < MaxEdits
  /\ \E q \in Models \ {pyFields[s]} : pyFields' = [pyFields EXCEPT ![s] = q]
  /\ edits' = edits + 1
  /\ UNCHANGED <<lockFile, protoFiles, everOnWire, gen, stops>>

LoadLock ==
  /\ gen.step = "idle"
  /\ gen' = [step |-> "building", lock |-> lockFile, files |-> protoFiles, built |-> 0]
  /\ UNCHANGED <<pyFields, lockFile, protoFiles, everOnWire, edits, stops>>

(* build_proto_files: one ContractBuilder per server id, all on one lock   *)
BuildServer ==
  /\ gen.step = "building" /\ gen.built < Len(ServerIds)
  /\ LET s   == ServerIds[gen.built + 1]
         rec == Assigned(gen.lock[MessageOf[s]], pyFields[s])
     IN gen' = [gen EXCEPT !.lock[MessageOf[s]] = rec,
                           !.files[s] = [fields |-> rec.fields, names |-> rec.names],
                           !.built = @ + 1]
  /\ UNCHANGED <<pyFields, lockFile, protoFiles, everOnWire, edits, stops>>

WriteFiles ==
  /\ gen.step = "building" /\ gen.built = Len(ServerIds)
  /\ protoFiles' = gen.files
  /\ gen' = [gen EXCEPT !.step = "written"]
  /\ UNCHANGED <<pyFields, lockFile, everOnWire, edits, stops>>

SaveLock ==
  /\ gen.step = "written"
  /\ lockFile' = gen.lock
  /\ gen' = [gen EXCEPT !.step = "saved"]
  /\ UNCHANGED <<pyFields, protoFiles, everOnWire, edits, stops>>

(* _run_protoc: the servers in order, a RuntimeError at the first refusal  *)
RunProtoc ==
  /\ gen.step = "saved"
  /\ LET run == {s \in ServerId : \A i \in 1 .. Position(ServerIds, s) :
                                    Compiles(ServerIds[i])}
     IN everOnWire' = [s \in ServerId |-> everOnWire[s] \union
                   {<<n, protoFiles[s].fields[n]>> :
                      n \in IF s \in run THEN DOMAIN protoFiles[s].fields ELSE {}}]
  /\ gen' = NotGenerating
  /\ UNCHANGED <<pyFields, lockFile, protoFiles, edits, stops>>

StopGenerate ==
  /\ gen.step # "idle" /\ stops < MaxStops
  /\ gen' = NotGenerating /\ stops' = stops + 1
  /\ UNCHANGED <<pyFields, lockFile, protoFiles, everOnWire, edits>>

ProtoNext ==
  \/ \E s \in ServerId : EditModel(s)
  \/ LoadLock \/ BuildServer \/ WriteFiles \/ SaveLock \/ RunProtoc \/ StopGenerate

ProtoSpec == ProtoInit /\ [][ProtoNext]_protoVars

-----------------------------------------------------------------------------
(* Type correctness of the lock file, the files and the generation.        *)
ProtoTypeOK ==
  /\ \A s \in ServerId : pyFields[s] \in Models /\ IsInjective(pyFields[s])
  /\ \A m \in Message : /\ DOMAIN lockFile[m].fields \subseteq Names
                        /\ lockFile[m].names \subseteq Names
  /\ gen.step \in {"idle", "building", "written", "saved"}
  /\ edits \in 0 .. MaxEdits /\ stops \in 0 .. MaxStops

(* Two pb2 modules of one server, however many generations lie between     *)
(* them and wherever one was interrupted, never give one number to two     *)
(* fields (_lock.py:29-32).                                                *)
NumbersNeverReused ==
  \A s \in ServerId : \A p, q \in everOnWire[s] : p[2] = q[2] => p[1] = q[1]
=============================================================================
