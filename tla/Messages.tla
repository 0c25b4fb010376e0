------------------------------- MODULE Messages -------------------------------
(***************************************************************************)
(* The datagrams between the master and a minion: their sizes and layout,  *)
(* and the receive buffers of MasterProxy::GetTaskArgs and                 *)
(* MinionProxy::OnMinionFDWakeUp, which cut a datagram at BUFSIZ - 1 bytes *)
(* and hold what was left on the stack behind it.                          *)
(***************************************************************************)
EXTENDS Integers, SequencesExt, FiniteSetsExt

CONSTANTS BufSize,          \* BUFSIZ
          Uids,             \* the requests
          Offsets,
          ReadLengths, WriteLengths

ASSUME MessagesAssumption ==
    /\ BufSize \in Nat /\ BufSize > 8 /\ Uids \subseteq Nat
    /\ Offsets \subseteq Nat /\ ReadLengths \subseteq Nat /\ WriteLengths \subseteq Nat

VARIABLES
    sent,           \* the commands MinionProxy has sent
    commands,       \* their datagrams under way
    accepted,       \* the commands MasterProxy has decoded and not yet run
    ran,            \* the commands it has decoded
    answered,       \* the answers it has sent
    answers,        \* their datagrams under way
    received,       \* the answers MinionProxy has decoded
    minionStack, masterStack    \* what the receive buffers held last

minionVars == <<accepted, ran, answered, minionStack>>
masterVars == <<sent, received, masterStack>>
vars == <<masterVars, minionVars, commands, answers>>

-------------------------------------------------------------------------------
READ_SEND == 0
WRITE_SEND == 1
READ_RECEIVE == 2
WRITE_RECEIVE == 3

\* A byte is a pair; a number of w bytes is w numbered bytes with its value, so
\* that a part of it, or parts of two, are told apart from it.
Garbage == <<-1, 0>>
Payload(uid, length) == [k \in 1..length |-> <<uid, -k>>]
Number(v, w) == [k \in 1..w |-> <<v, k>>]

NumberAt(buffer, at, w) ==
    LET bytes == [k \in 1..w |-> buffer[at + k]]
    IN  IF bytes = Number(bytes[1][1], w) THEN bytes[1][1] ELSE -1

BytesAt(buffer, at, length) ==
    [k \in 1..length |-> IF at + k \in DOMAIN buffer THEN buffer[at + k] ELSE Garbage]

\* What the getters of AMessage return where a class does not override them.
AMessage(type, uid) ==
    [type |-> type, uid |-> uid, offset |-> 0, length |-> 0, result |-> TRUE, data |-> << >>]

MessageReadSend(uid, offset, length) ==
    [AMessage(READ_SEND, uid) EXCEPT !.offset = offset, !.length = length]

MessageWriteSend(uid, offset, length, buffer) ==
    [AMessage(WRITE_SEND, uid) EXCEPT !.offset = offset, !.length = length, !.data = buffer]

MessageReadReceive(uid, result, length, buffer) ==
    [AMessage(READ_RECEIVE, uid) EXCEPT !.result = result, !.length = length, !.data = buffer]

MessageWriteReceive(uid, result) ==
    [AMessage(WRITE_RECEIVE, uid) EXCEPT !.result = result]

-------------------------------------------------------------------------------
\* Sizes, in the units of sizeof.
BaseSize == 4 + 4 + 8
ReadSendSize == BaseSize + 8 + 8
WriteSendSize(length) == BaseSize + 8 + 8 + length + 1
ReadReceiveSize(length) == BaseSize + 1 + 8 + length
WriteReceiveSize == BaseSize + 1

GetSize(m) ==
    CASE m.type = READ_SEND -> ReadSendSize
      [] m.type = WRITE_SEND -> WriteSendSize(m.length)
      [] m.type = READ_RECEIVE -> ReadReceiveSize(m.length)
      [] m.type = WRITE_RECEIVE -> WriteReceiveSize

Flag(result) == Number(IF result THEN 1 ELSE 0, 1)

\* What each class writes after its base class.  std::copy reads one byte past the
\* data of a write.
ReadSendBody(m) == Number(m.offset, 8) \o Number(m.length, 8)
WriteSendBody(m) == Number(m.offset, 8) \o Number(m.length, 8) \o m.data \o <<Garbage>>
ReadReceiveBody(m) == Flag(m.result) \o Number(m.length, 8) \o m.data
WriteReceiveBody(m) == Flag(m.result)

ToBuffer(m) ==
    Number(GetSize(m), 4) \o Number(m.type, 4) \o Number(m.uid, 8) \o
    CASE m.type = READ_SEND -> ReadSendBody(m)
      [] m.type = WRITE_SEND -> WriteSendBody(m)
      [] m.type = READ_RECEIVE -> ReadReceiveBody(m)
      [] m.type = WRITE_RECEIVE -> WriteReceiveBody(m)

\* The base class reads the uid behind the size and the type.
UidOf(buffer) == NumberAt(buffer, 8, 8)

ReadSendFromBuffer(buffer) ==
    MessageReadSend(UidOf(buffer), NumberAt(buffer, 16, 8), NumberAt(buffer, 24, 8))

\* The byte copied after the data is never used.
WriteSendFromBuffer(buffer) ==
    LET length == NumberAt(buffer, 24, 8)
    IN  MessageWriteSend(UidOf(buffer), NumberAt(buffer, 16, 8), length,
                         BytesAt(buffer, 32, length))

ReadReceiveFromBuffer(buffer) ==
    LET length == NumberAt(buffer, 17, 8)
    IN  MessageReadReceive(UidOf(buffer), NumberAt(buffer, 16, 1) # 0, length,
                           BytesAt(buffer, 25, length))

WriteReceiveFromBuffer(buffer) ==
    MessageWriteReceive(UidOf(buffer), NumberAt(buffer, 16, 1) # 0)

FromBuffer(buffer) ==
    LET type == NumberAt(buffer, 4, 4)
    IN  CASE type = READ_SEND -> ReadSendFromBuffer(buffer)
          [] type = WRITE_SEND -> WriteSendFromBuffer(buffer)
          [] type = READ_RECEIVE -> ReadReceiveFromBuffer(buffer)
          [] type = WRITE_RECEIVE -> WriteReceiveFromBuffer(buffer)

-------------------------------------------------------------------------------
SendTo(message) == SubSeq(ToBuffer(message), 1, GetSize(message))

\* recvfrom: at most BUFSIZ - 1 bytes, the rest of the datagram is discarded and
\* the rest of the buffer is as it was.
ReceiveFrom(datagram, stack) ==
    LET bytes == Min({Len(datagram), BufSize - 1})
    IN  SubSeq(datagram, 1, bytes) \o SubSeq(stack, bytes + 1, BufSize)

\* A slip: the size in the datagram is not compared with what was received.
AcceptedUnchecked(datagram, buffer) == Len(datagram) >= 8

\* A slip: the comparison takes a datagram that is complete for a cut one.
AcceptedOffByOne(datagram, buffer) ==
    LET bytes == Min({Len(datagram), BufSize - 1})
    IN  bytes >= 8 /\ NumberAt(buffer, 0, 4) < bytes

\* The checks that follow: neither a short nor a cut datagram is decoded.
Accepted(datagram, buffer) ==
    LET bytes == Min({Len(datagram), BufSize - 1})
    IN  bytes >= 8 /\ NumberAt(buffer, 0, 4) <= bytes

\* The receive buffers are not initialised: they hold what the last call left there
\* or something else.
Clean == [k \in 1..BufSize |-> Garbage]

Init ==
    /\ sent = {} /\ commands = {} /\ accepted = {} /\ ran = {}
    /\ answered = {} /\ answers = {} /\ received = {}
    /\ minionStack = Clean /\ masterStack = Clean

Send(command) ==
    /\ command.uid \notin {m.uid : m \in sent}
    /\ sent' = sent \cup {command}
    /\ commands' = commands \cup {SendTo(command)}
    /\ UNCHANGED <<received, masterStack, minionVars, answers>>

AddReadTask(uid) ==
    \E offset \in Offsets, length \in ReadLengths :
        Send(MessageReadSend(uid, offset, length))

AddWriteTask(uid) ==
    \E offset \in Offsets, length \in WriteLengths :
        Send(MessageWriteSend(uid, offset, length, Payload(uid, length)))

GetTaskArgs ==
    \E datagram \in commands, stack \in {minionStack, Clean} :
        LET buffer == ReceiveFrom(datagram, stack)
            new == IF Accepted(datagram, buffer) THEN {FromBuffer(buffer)} ELSE {}
        IN  /\ commands' = commands \ {datagram}
            /\ minionStack' = buffer
            /\ accepted' = accepted \cup new
            /\ ran' = ran \cup new
            /\ UNCHANGED <<answered, masterVars, answers>>

\* A command that was accepted is run and answered.  A read that failed sends the
\* buffer as it was allocated.
Respond(command, answer) ==
    /\ command \in accepted
    /\ accepted' = accepted \ {command}
    /\ answered' = answered \cup {answer}
    /\ answers' = answers \cup {SendTo(answer)}
    /\ UNCHANGED <<ran, minionStack, masterVars, commands>>

SendReadResponse(command, result) ==
    /\ command.type = READ_SEND
    /\ Respond(command, MessageReadReceive(command.uid, result, command.length,
           IF result THEN Payload(command.uid, command.length)
                     ELSE [k \in 1..command.length |-> Garbage]))

SendWriteResponse(command, result) ==
    /\ command.type = WRITE_SEND
    /\ Respond(command, MessageWriteReceive(command.uid, result))

OnMinionFDWakeUp ==
    \E datagram \in answers, stack \in {masterStack, Clean} :
        LET buffer == ReceiveFrom(datagram, stack)
        IN  /\ answers' = answers \ {datagram}
            /\ masterStack' = buffer
            /\ received' = received \cup
                   IF Accepted(datagram, buffer) THEN {FromBuffer(buffer)} ELSE {}
            /\ UNCHANGED <<sent, minionVars, commands>>

RunCommand ==
    \E command \in accepted, result \in BOOLEAN :
        SendReadResponse(command, result) \/ SendWriteResponse(command, result)

Next ==
    \/ \E uid \in Uids : AddReadTask(uid) \/ AddWriteTask(uid)
    \/ GetTaskArgs \/ RunCommand \/ OnMinionFDWakeUp

\* Both reactors and the minion's workers run; nothing is lost here.
Fairness == WF_vars(GetTaskArgs) /\ WF_vars(RunCommand) /\ WF_vars(OnMinionFDWakeUp)

Spec == Init /\ [][Next]_vars /\ Fairness

-------------------------------------------------------------------------------
TypeOK ==
    /\ {m.uid : m \in sent} \subseteq Uids
    /\ \A buffer \in {minionStack, masterStack} : Len(buffer) = BufSize
    /\ accepted \subseteq ran

\* Each end decodes only what the other has encoded: a datagram that was cut, or
\* bytes an earlier one left in the buffer, never become a command or an answer.
NothingCorrupted == TypeOK /\ ran \subseteq sent /\ received \subseteq answered

\* Whether the datagrams of a command and of its answer fit the receive buffers.
Fits(command) ==
    /\ GetSize(command) < BufSize
    /\ command.type = READ_SEND => ReadReceiveSize(command.length) < BufSize

\* A command is answered, and the answer decoded, if both datagrams are smaller than
\* the receive buffer, up to the last byte.  (Larger ones are dropped for good.)
FittingIsAnswered ==
    \A uid \in Uids :
        (\E m \in sent : m.uid = uid /\ Fits(m)) ~> (\E m \in received : m.uid = uid)
===============================================================================
