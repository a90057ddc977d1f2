------------------------------ MODULE HciCollector ------------------------------
(***************************************************************************)
(* What the HCI collector makes of btmon's blocks (blutruth/collectors/    *)
(* hci.py): the event's type and severity, and the device it is attributed *)
(* to by way of the connection handle.                                     *)
(*                                                                         *)
(* btmon watches every controller.  A block is published when the next one *)
(* begins, so one block is always in hand: it is flushed when btmon exits  *)
(* and lost when the collector is stopped.  The map from handles to        *)
(* addresses outlives both.                                                *)
(***************************************************************************)
EXTENDS Naturals, SequencesExt

CONSTANTS Adapters, Handles, Peers,
          NoDevice      \* no address

ASSUME HciAssumption ==
    /\ NoDevice \notin Peers
    /\ IsFiniteSet(Adapters)
    /\ Adapters # {} /\ Handles # {} /\ Peers # {}

VARIABLES links,        \* the controllers' connections, <<adapter, handle>> -> link
          handleAddr,   \* _handle_addr
          up,           \* btmon is being read
          held,         \* the block in hand, if any
          last,         \* the last event published, if any
          unclear       \* history: why a handle may not say which device it is
hciVars == <<links, handleAddr, up, held, last, unclear>>

-----------------------------------------------------------------------------
\* The texts that are looked for, and the headers that contain them.  An LE
\* connection is a header "LE Meta Event": its name is in the block's body.
\* (Spaces are written "_".)
Texts(header) ==
    {header} \cup
    CASE header = "Disconnection_Complete" -> {"Disconnect"}
      [] header = "Device_Disconnected" -> {"Disconnect"}
      [] header = "Synchronous_Connection_Complete" -> {"Connection_Complete"}
      [] OTHER -> {}
\* The same in lower case, where a disconnection completes a connection.
LowerTexts(header) ==
    Texts(header) \cup
        IF header = "Disconnection_Complete" THEN {"Connection_Complete"} ELSE {}

\* _HCI_CLASSIFICATION in its order, as far as these headers go.
Classification == <<
    [text |-> "Disconnect",              severity |-> "INFO",  stage |-> "TEARDOWN"],
    [text |-> "Connection_Complete",     severity |-> "INFO",  stage |-> "CONNECTION"],
    [text |-> "Disconnection_Complete",  severity |-> "WARN",  stage |-> "TEARDOWN"],
    [text |-> "Authentication_Complete", severity |-> "INFO",  stage |-> "HANDSHAKE"],
    [text |-> "Encryption_Change",       severity |-> "INFO",  stage |-> "HANDSHAKE"],
    [text |-> "Command_Complete",        severity |-> "DEBUG", stage |-> "none"],
    [text |-> "Synchronous_Connection_Complete",
                                         severity |-> "INFO",  stage |-> "AUDIO"],
    [text |-> "Device_Disconnected",     severity |-> "WARN",  stage |-> "TEARDOWN"],
    [text |-> "Hardware_Error",          severity |-> "ERROR", stage |-> "none"] >>

\* Mutant: the shorter text is tested first.
TypeTestsSwapped == <<
    <<"Connection_Complete", "CONNECT">>,
    <<"Disconnection_Complete", "DISCONNECT">>,
    <<"Authentication_Complete", "AUTH_COMPLETE">>,
    <<"Encryption_Change", "ENCRYPT_CHANGE">> >>

\* The tests of _event_type, likewise.
TypeTests == <<
    <<"Disconnection_Complete", "DISCONNECT">>,
    <<"Authentication_Complete", "AUTH_COMPLETE">>,
    <<"Encryption_Change", "ENCRYPT_CHANGE">>,
    <<"Connection_Complete", "CONNECT">>,
    <<"Hardware_Error", "HCI_HARDWARE_ERROR">>,
    <<"Synchronous_Connection_Complete", "SCO_CONNECT">>,
    <<"Device_Disconnected", "HCI_MGMT">> >>

\* Both take the first entry that the header contains.
Classify(b) ==
    LET i == SelectInSeq(Classification, LAMBDA c : c.text \in Texts(b.header))
    IN  IF i # 0 THEN Classification[i]
        ELSE [text |-> "", severity |-> IF "error_line" \in b.lines THEN "ERROR" ELSE "INFO",
              stage |-> "none"]

EventType(b) ==
    LET i    == SelectInSeq(TypeTests, LAMBDA t : t[1] \in LowerTexts(b.header))
        type == IF i # 0 THEN TypeTests[i][2] ELSE "HCI_EVT"
    IN  IF type = "AUTH_COMPLETE" /\ b.status = "failed" THEN "AUTH_FAILURE" ELSE type

-----------------------------------------------------------------------------
\* Severity.

Order(severity) == CASE severity = "DEBUG" -> 0 [] severity = "INFO" -> 1
                     [] severity = "WARN" -> 2 [] severity = "ERROR" -> 3

\* Mutant: what is found last counts.
RaiseAlways(severity, to) == to

Raise(severity, to) == IF Order(to) > Order(severity) THEN to ELSE severity

\* _ERROR_PATTERNS: the first that the block contains counts, the others are not
\* looked for.  A status or a reason is found only where its number comes first.
ErrorPatterns == <<
    [line |-> "status_number", severity |-> "ERROR"],
    [line |-> "reason_number", severity |-> "WARN"],
    [line |-> "error_line",    severity |-> "ERROR"] >>

AfterStatus(s, b) ==
    LET i == SelectInSeq(ErrorPatterns, LAMBDA p : p.line \in b.lines)
    IN  IF i # 0 THEN Raise(s, ErrorPatterns[i].severity) ELSE s

\* An advertisement may well be weak: only a header "Read RSSI" is looked at.
AfterRssi(s, b) ==
    IF "Read_RSSI" \notin Texts(b.header) THEN s
    ELSE CASE b.rssi = "unusable" -> Raise(s, "ERROR")
           [] b.rssi = "weak"     -> Raise(s, "WARN")
           [] OTHER               -> s
AfterKey(s, b) == CASE b.key = "tiny"  -> Raise(s, "ERROR")
                    [] b.key = "short" -> Raise(s, "WARN")
                    [] OTHER           -> s
Severity(b) == AfterKey(AfterRssi(AfterStatus(Classify(b).severity, b), b), b)

-----------------------------------------------------------------------------
\* Attribution.

\* The address in the body, or else what the handle stands for.
Device(b) == IF b.names = NoDevice THEN handleAddr[b.handle] ELSE b.names

\* Mutant: a disconnection does not forget the handle.
RememberedForever(b) ==
    IF "Connection_Complete" \in Texts(b.header) /\ b.names # NoDevice
    THEN [handleAddr EXCEPT ![b.handle] = b.names] ELSE handleAddr

Remembered(b) ==
    CASE "Disconnection_Complete" = b.header ->
            [handleAddr EXCEPT ![b.handle] = NoDevice]
      [] "Connection_Complete" \in Texts(b.header) /\ b.names # NoDevice ->
            [handleAddr EXCEPT ![b.handle] = b.names]
      [] OTHER -> handleAddr

EmitEvent(b) ==
    /\ last' = {[type |-> EventType(b), severity |-> Severity(b), device |-> Device(b),
                 sure |-> b.handle \notin unclear, block |-> b]}
    /\ handleAddr' = Remembered(b)

-----------------------------------------------------------------------------
\* The controllers.  A link is classic (its synchronous links too) or LE.

None == [kind |-> "none", device |-> NoDevice]
Shared(a, h) == \E o \in Adapters \ {a} : links[<<o, h>>] # None

Block(a, h, header, names) ==
    [handle |-> h, header |-> header, names |-> names, link |-> links[<<a, h>>],
     status |-> "fine", lines |-> {}, rssi |-> "fine", key |-> "fine"]

\* After a connection that was seen and is the handle's only one, the handle is
\* sure again.
Settled(b) == IF /\ "Connection_Complete" \in Texts(b.header) /\ b.status = "fine"
                 /\ Cardinality({a \in Adapters : links[<<a, b.handle>>] # None}) < 2
              THEN {b.handle} ELSE {}

\* A block begins: the one in hand is published.  A collector that is down does
\* not see it.
Arrives(b, doubtful) ==
    IF up
    THEN /\ IF held = {} THEN UNCHANGED <<last, handleAddr>>
            ELSE \A h \in held : EmitEvent(h)
         /\ held' = {b}
         /\ unclear' = (unclear \ UNION {Settled(h) : h \in held}) \cup doubtful
    ELSE unclear' = unclear \cup {b.handle} /\ UNCHANGED <<last, handleAddr, held>>

Connect(a, h, d) ==
    /\ links[<<a, h>>] = None
    /\ \E header \in {"Connection_Complete", "Synchronous_Connection_Complete", "LE_Meta_Event"} :
          LET link == [kind |-> IF header = "LE_Meta_Event" THEN "le" ELSE "classic",
                       device |-> d]
          IN  /\ links' = [links EXCEPT ![<<a, h>>] = link]
              /\ Arrives([Block(a, h, header, d) EXCEPT !.link = link],
                         IF Shared(a, h) THEN {h} ELSE {})
    /\ UNCHANGED up

\* Status and handle of a failed attempt; the handle means nothing.
ConnectFails(a, h, d) ==
    /\ Arrives([Block(a, h, "Connection_Complete", d) EXCEPT !.status = "failed"], {h})
    /\ UNCHANGED <<links, up>>

Disconnect(a, h) ==
    /\ links[<<a, h>>] # None
    /\ \/ /\ links' = [links EXCEPT ![<<a, h>>] = None]
          /\ Arrives(Block(a, h, "Disconnection_Complete", NoDevice), {})
       \/ /\ UNCHANGED links
          /\ Arrives([Block(a, h, "Disconnection_Complete", NoDevice)
                        EXCEPT !.status = "failed"], {h})
    /\ UNCHANGED up

\* Blocks that only have a handle: header, status, lines that a pattern finds, RSSI
\* and key size.  (A header "Read RSSI" above an RSSI is what the tests of the parser
\* print; btmon puts both into the body of a "Command Complete".)
Contents(link) == {
    <<"Encryption_Change", "fine", {}, "fine", "tiny">>,
    <<"Encryption_Change", "fine", {"error_line"}, "fine", "short">>,
    <<"Read_RSSI", "fine", {"reason_number"}, "unusable", "fine">>,
    <<"Read_RSSI", "fine", {}, "weak", "fine">>,
    <<"Command_Complete", "fine", {}, "unusable", "fine">> }
    \cup IF link.kind = "le"
         THEN {<<"LE_Meta_Event", "fine", {"reason_number", "error_line"}, "weak", "fine">>}
         ELSE {<<"Authentication_Complete", "failed", {}, "fine", "fine">>,
               <<"Authentication_Complete", "fine", {"status_number"}, "fine", "fine">>,
               <<"Encryption_Change", "fine", {"reason_number", "error_line"}, "fine", "fine">>}

Traffic(a, h) ==
    /\ links[<<a, h>>] # None
    /\ \E c \in Contents(links[<<a, h>>]) :
          Arrives([Block(a, h, c[1], NoDevice)
                     EXCEPT !.status = c[2], !.lines = c[3], !.rssi = c[4], !.key = c[5]], {})
    /\ UNCHANGED <<links, up>>

-----------------------------------------------------------------------------
Start == /\ ~up /\ up' = TRUE
         /\ UNCHANGED <<links, handleAddr, held, last, unclear>>

\* The block in hand is lost.
Stop == /\ up /\ up' = FALSE
        /\ held' = {}
        /\ unclear' = unclear \cup {b.handle : b \in held}
        /\ UNCHANGED <<links, handleAddr, last>>

\* btmon exits: the block in hand is flushed.
BtmonExits ==
    /\ up /\ up' = FALSE
    /\ \A b \in held : EmitEvent(b)
    /\ held # {} /\ held' = {}
    /\ unclear' = unclear \ UNION {Settled(b) : b \in held}
    /\ UNCHANGED links

HciInit ==
    /\ links = [s \in Adapters \X Handles |-> None]
    /\ handleAddr = [h \in Handles |-> NoDevice]
    /\ up = FALSE
    /\ held = {} /\ last = {}
    /\ unclear = {}

HciNext ==
    \/ \E a \in Adapters, h \in Handles :
          \/ \E d \in Peers : Connect(a, h, d) \/ ConnectFails(a, h, d)
          \/ Disconnect(a, h) \/ Traffic(a, h)
    \/ Start \/ Stop \/ BtmonExits

HciSpec == HciInit /\ [][HciNext]_hciVars

-----------------------------------------------------------------------------
\* The event types of README.md that these headers can have.
EventTypes == {"DISCONNECT", "AUTH_COMPLETE", "AUTH_FAILURE", "ENCRYPT_CHANGE", "CONNECT",
               "HCI_HARDWARE_ERROR", "SCO_CONNECT", "HCI_MGMT", "HCI_EVT"}

TypeOK ==
    /\ handleAddr \in [Handles -> Peers \cup {NoDevice}]
    /\ Cardinality(held) <= 1 /\ Cardinality(last) <= 1
    /\ \A e \in last : /\ e.type \in EventTypes
                       /\ e.device \in Peers \cup {NoDevice}
    /\ unclear \subseteq Handles

\* Unless its handle is in doubt (two controllers use it, a connection or its end
\* was not seen, an attempt or a disconnection failed), an event of a classic
\* connection is attributed to the device at its other end, and one of an LE
\* connection that names no device to nobody.
AttributionIsExact ==
    /\ TypeOK
    /\ \A e \in last :
        e.sure => e.device = IF e.block.names # NoDevice THEN e.block.names
                             ELSE IF e.block.link.kind = "le" THEN NoDevice
                             ELSE e.block.link.device

\* The end of a connection is never published as a beginning, nor a beginning as
\* an end, although the name of the end contains the beginning's.  (Which beginning
\* a synchronous connection is published as is left open: its own type is not
\* reached.)
EndsAreNotBeginnings ==
    \A e \in last :
        /\ e.type \in {"CONNECT", "SCO_CONNECT"} <=>
                e.block.header \in {"Connection_Complete", "Synchronous_Connection_Complete"}
        /\ e.type = "SCO_CONNECT" => e.block.header = "Synchronous_Connection_Complete"
        /\ e.type = "DISCONNECT" <=> e.block.header = "Disconnection_Complete"

\* What the header alone is worth.  The table's own entry for the end of a
\* connection is not reached, so it has two.
Usual(header) == CASE header = "Disconnection_Complete" -> {"INFO", "WARN"}
                   [] header = "Command_Complete"       -> {"DEBUG"}
                   [] OTHER                             -> {"INFO"}
InTable(header) == header \notin {"LE_Meta_Event", "Read_RSSI"}

\* What a block shows beside its header: a status or a reason with the number
\* first, an "Error:" line unless one of those hides it, the RSSI that was asked
\* for, the size of the key.
ShowsError(b) ==
    \/ "status_number" \in b.lines
    \/ "error_line" \in b.lines /\ ("reason_number" \in b.lines => ~InTable(b.header))
    \/ b.header = "Read_RSSI" /\ b.rssi = "unusable"
    \/ b.key = "tiny"
ShowsWarning(b) ==
    \/ "reason_number" \in b.lines
    \/ b.header = "Read_RSSI" /\ b.rssi = "weak"
    \/ b.key = "short"
Shown(b, usual) == {usual} \cup {s \in {"ERROR"} : ShowsError(b)}
                           \cup {s \in {"WARN"} : ShowsWarning(b)}

\* An event is as severe as the worst that its block shows, in whatever order the
\* block's parts are looked at.
SeverityIsWorst ==
    \A e \in last : \E usual \in Usual(e.block.header) :
        LET shown == Shown(e.block, usual)
        IN  e.severity \in shown /\ \A s \in shown : Order(s) <= Order(e.severity)

=============================================================================
