---------------------------- MODULE ModbusServe ----------------------------
(***************************************************************************)
(* The Modbus server adapter (adapters/modbus/_server.py, _codec.py,       *)
(* _model.py) and the masters that use it, some through ModbusClient.      *)
(* The refresh loop stores what the @serve provider returns, field by      *)
(* field; a write of a master changes the registers at once and starts an  *)
(* @on_write handler for each field that it covers whole.  The registers   *)
(* are pymodbus's (external): setting or reading a range is one step.      *)
(***************************************************************************)
EXTENDS Integers, SequencesExt

CONSTANTS
  ServedFields,      \* name -> [area, address, count, writer]
  ServedValues,      \* values of fields
  WordOrders,        \* the orders a model may declare: <<word_order, byte_order>>
  MaxWriteHandlers,  \* ModbusServerAdapter(max_concurrency=)
  MaxPlantEvents     \* bound: writes of masters and changes by the application

Fields == DOMAIN ServedFields
FieldOrder == SetToSeq(Fields)     \* of the declarations
RegisterSize == 4                  \* values of a register, of two bytes
RawWord == 3                       \* what a master that knows no model writes

VARIABLES
  orders,     \* the orders this model declares
  registers, \* of each area
  plant,     \* what the application holds: its provider returns it
  refresh,   \* the refresh loop: what the provider returned, and the fields to store
  waiting,   \* write handlers that wait for the semaphore, and those that run
  serverUp,
  mark       \* history: per field the last whole write, whether part of it was
             \* overwritten, and what it may hold; failures; the counts

serveVars == <<orders, registers, plant, refresh, waiting, serverUp, mark>>

EndAddress(f) == ServedFields[f].address + ServedFields[f].count
AreasOfModel == {ServedFields[f].area : f \in Fields}
AreaSize(a) == CHOOSE n \in 1 .. 16 :
  /\ \A f \in Fields : ServedFields[f].area = a => EndAddress(f) <= n
  /\ \E f \in Fields : ServedFields[f].area = a /\ EndAddress(f) = n

(* _check_no_overlap sorts by address and compares neighbours              *)
NoOverlap ==
  \A f, g \in Fields :
    f # g /\ ServedFields[f].area = ServedFields[g].area
      => EndAddress(f) <= ServedFields[g].address \/ EndAddress(g) <= ServedFields[f].address
(* _add_writer refuses a handler for what masters cannot write             *)
WritersAreWritable ==
  \A f \in Fields : ServedFields[f].writer => ServedFields[f].area \in {"coil", "holding"}

ASSUME ServeAssumption == NoOverlap /\ WritersAreWritable /\ MaxWriteHandlers >= 1

----------------------------------------------------------------------------
(* The codec                                                               *)
SwapBytes(r) == (r % 2) * 2 + r \div 2
Ordered(ws) == IF orders[1] = "little" THEN Reverse(ws) ELSE ws
Swapped(ws) == IF orders[2] = "little" THEN [i \in DOMAIN ws |-> SwapBytes(ws[i])] ELSE ws

(* encode_field: the words in order, then the bytes of each                 *)
EncodeField(f, v) ==
  LET n == ServedFields[f].count
  IN IF ServedFields[f].area = "coil" THEN <<v % 2>>
     ELSE Swapped(Ordered([i \in 1 .. n |-> (v \div RegisterSize ^ (n - i)) % RegisterSize]))

(* decode_field: bytes first, then words                                   *)
DecodeField(f, ws) ==
  LET big == Ordered(Swapped(ws))
      value[i \in 0 .. Len(ws)] == IF i = 0 THEN 0 ELSE value[i - 1] * RegisterSize + big[i]
  IN IF ServedFields[f].area = "coil" THEN ws[1] ELSE value[Len(ws)]

Held(f) ==
  LET s == ServedFields[f] IN [i \in 1 .. s.count |-> registers[s.area][s.address + i - 1]]

----------------------------------------------------------------------------
ServeInit ==
  /\ orders \in WordOrders
  /\ registers = [a \in AreasOfModel |-> [i \in 0 .. AreaSize(a) - 1 |-> 0]]
  /\ plant = [f \in Fields |-> 0]
  /\ refresh = [value |-> plant, todo |-> <<>>]
  /\ waiting = [queue |-> <<>>, running |-> <<>>] /\ serverUp = TRUE
  /\ mark = [last |-> plant, torn |-> {}, known |-> [f \in Fields |-> {0}],
             failed |-> FALSE, own |-> 0, writes |-> 0]

SetRange(a, start, ws) ==
  registers' = [registers EXCEPT ![a] =
    [i \in DOMAIN @ |-> IF i \in start .. start + Len(ws) - 1 THEN ws[i - start + 1] ELSE @[i]]]

(* _slice_written: a field that the write covers whole                     *)
CoveredWhole(f, a, start, n) ==
  /\ ServedFields[f].area = a
  /\ start <= ServedFields[f].address /\ EndAddress(f) <= start + n
Touched(f, a, start, n) ==
  /\ ServedFields[f].area = a
  /\ ServedFields[f].address < start + n /\ start < EndAddress(f)

SliceWritten(f, start, ws) ==
  LET b == ServedFields[f].address - start IN SubSeq(ws, b + 1, b + ServedFields[f].count)

(* _handle_write: a task for each field with a writer, in their order       *)
ToHandle(a, start, ws) ==
  LET fs == SelectSeq(FieldOrder, LAMBDA f :
              ServedFields[f].writer /\ CoveredWhole(f, a, start, Len(ws)))
  IN [i \in DOMAIN fs |-> [field |-> fs[i], value |-> DecodeField(fs[i], SliceWritten(fs[i], start, ws))]]

HasEvents == mark.writes + mark.own < MaxPlantEvents

MasterWrite(a, start, ws) ==
  /\ serverUp /\ HasEvents
  /\ SetRange(a, start, ws)
  /\ waiting' = [waiting EXCEPT !.queue = @ \o ToHandle(a, start, ws)]
  /\ LET Whole(f) == CoveredWhole(f, a, start, Len(ws))
         New(f) == DecodeField(f, SliceWritten(f, start, ws))
     IN mark' = [mark EXCEPT
          !.writes = @ + 1,
          !.last = [f \in Fields |-> IF Whole(f) /\ ServedFields[f].writer THEN New(f) ELSE @[f]],
          !.torn = {f \in Fields : ~Whole(f) /\ (f \in @ \/ Touched(f, a, start, Len(ws)))},
          !.known = [f \in Fields |-> IF Whole(f) THEN @[f] \union {New(f)} ELSE @[f]]]
  /\ UNCHANGED <<orders, plant, refresh, serverUp>>

(* ModbusClient.write of another application; write_device is one write    *)
(* after another                                                           *)
ModelWrites(f, v) == MasterWrite(ServedFields[f].area, ServedFields[f].address, EncodeField(f, v))

(* a master without a model writes any range                               *)
RawWrites(a, start, n) ==
  /\ start + n <= AreaSize(a)
  /\ MasterWrite(a, start, [i \in 1 .. n |-> IF a = "coil" THEN 1 ELSE RawWord])

----------------------------------------------------------------------------
(* _invoke: the semaphore lets tasks in in the order they asked             *)
HandlerEnters ==
  /\ waiting.queue # <<>> /\ Len(waiting.running) < MaxWriteHandlers
  /\ waiting' = [queue |-> Tail(waiting.queue), running |-> Append(waiting.running, Head(waiting.queue))]
  /\ UNCHANGED <<orders, registers, plant, refresh, serverUp, mark>>

HandlerDone(i) == waiting' = [waiting EXCEPT !.running = RemoveAt(@, i)]

HandlerApplies(i) ==
  /\ HandlerDone(i)
  /\ plant' = [plant EXCEPT ![waiting.running[i].field] = waiting.running[i].value]
  /\ UNCHANGED <<orders, registers, refresh, serverUp, mark>>

HandlerRaises(i) ==
  /\ HandlerDone(i)
  /\ mark' = [mark EXCEPT !.failed = TRUE]
  /\ UNCHANGED <<orders, registers, plant, refresh, serverUp>>

PlantChanges(f, v) ==
  /\ HasEvents /\ plant[f] # v
  /\ plant' = [plant EXCEPT ![f] = v]
  /\ mark' = [mark EXCEPT !.own = @ + 1, !.last[f] = v]
  /\ UNCHANGED <<orders, registers, refresh, waiting, serverUp>>

----------------------------------------------------------------------------
(* refresh_once: the provider returns, then _store awaits every field; a   *)
(* provider that raises leaves the registers as they are.  The codes of    *)
(* these stores are not those of writes, so they start no handler          *)
ProviderReturns ==
  /\ serverUp /\ refresh.todo = <<>>
  /\ refresh' = [value |-> plant, todo |-> FieldOrder]
  /\ mark' = [mark EXCEPT !.known = [f \in Fields |-> @[f] \union {plant[f]}]]
  /\ UNCHANGED <<orders, registers, plant, waiting, serverUp>>

StoresField ==
  LET f == Head(refresh.todo)
  IN /\ refresh.todo # <<>>
     /\ refresh' = [refresh EXCEPT !.todo = Tail(@)]
     /\ IF serverUp
        THEN /\ SetRange(ServedFields[f].area, ServedFields[f].address, EncodeField(f, refresh.value[f]))
             /\ mark' = [mark EXCEPT !.torn = @ \ {f}]
        ELSE UNCHANGED <<registers, mark>>
     /\ UNCHANGED <<orders, plant, waiting, serverUp>>

(* stop(): the handlers' tasks are cancelled, the listener goes            *)
ListenerStops ==
  /\ serverUp /\ serverUp' = FALSE
  /\ waiting' = [queue |-> <<>>, running |-> <<>>]
  /\ mark' = [mark EXCEPT !.failed = @ \/ waiting.queue \o waiting.running # <<>>]
  /\ UNCHANGED <<orders, registers, plant, refresh>>

ServeNext ==
  \/ \E f \in Fields, v \in ServedValues : ModelWrites(f, v) \/ PlantChanges(f, v)
  \/ \E a \in AreasOfModel :
       \E start \in DOMAIN registers[a] : \E n \in 1 .. AreaSize(a) : RawWrites(a, start, n)
  \/ HandlerEnters
  \/ \E i \in DOMAIN waiting.running : HandlerApplies(i) \/ HandlerRaises(i)
  \/ ProviderReturns \/ ListenerStops \/ StoresField

ServeSpec == ServeInit /\ [][ServeNext]_serveVars

----------------------------------------------------------------------------
ServeTypeOK ==
  /\ orders \in WordOrders /\ serverUp \in BOOLEAN
  /\ Len(waiting.running) <= MaxWriteHandlers
  /\ \A a \in AreasOfModel : \A i \in DOMAIN registers[a] : registers[a][i] \in 0 .. RegisterSize - 1

\* A master that reads a field finds a value that the provider returned or that
\* somebody wrote to it, in every word and byte order and however writes and the
\* stores of a refresh interleave, unless part of the field was written raw.
FieldsAreWhole ==
  \A f \in Fields : f \notin mark.torn =>
    DecodeField(f, Held(f)) \in mark.known[f] \union {v % 2 : v \in mark.known[f]}

\* Handlers that run one at a time leave the application with the last value that
\* was written to each field, or that it took itself, whatever refreshes put back
\* into the registers meanwhile.
LastWriteWins ==
  MaxWriteHandlers = 1 /\ mark.own = 0 /\ ~mark.failed /\ waiting.queue = <<>> /\ waiting.running = <<>>
    => plant = mark.last

ServingIsSound == FieldsAreWhole /\ LastWriteWins
=============================================================================
