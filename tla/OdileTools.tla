----------------------------- MODULE OdileTools -----------------------------
(***************************************************************************)
(* The server's six command line tools (server/main): their arguments as   *)
(* they declare them, and what each asks of the server library once its    *)
(* command line is accepted.  A call is a record in the order of the       *)
(* calls; the calls themselves are the actions of OdileFlash, AsyncReceive *)
(* and ServerConfig.  Printing and sleeping are left out.                  *)
(***************************************************************************)
EXTENDS CmdLineMeaning

CONSTANTS
    MapOf,      \* file whose name holds ".rpd" |-> its name with ".map" instead
    Existing    \* the files that exist before the tool runs

VARIABLES
    calls,      \* what the tool asked of the library, in order
    main        \* "waits" for parse, "done", "refused", "aborted" (died), "hangs"

toolVars == <<cmdVars, calls, main>>
-----------------------------------------------------------------------------
(***************************************************************************)
(* The arguments, in the order of their declaration.                       *)
(***************************************************************************)
BOARD == StringValue("192.168.0.3")
SERVER == StringValue("192.168.0.1")
APPLICATION == 16777216     \* 0x01000000

Add(a) == <<a>>

\* The defaults of ncols and nrows are that of the port.
take_image_args ==
    <<Add(ValueArg("i", "ip", FALSE, "string", BOARD)),
      Add(ValueArg("s", "sip", FALSE, "string", SERVER)),
      Add(ValueArg("f", "file", FALSE, "string", StringValue("test.fits"))),
      Add(ValueArg("c", "config", FALSE, "string", StringValue("config.ini"))),
      Add(ValueArg("p", "port", FALSE, "int", NumberValue(4610))),
      Add(ValueArg("n", "ncols", FALSE, "int", NumberValue(4610))),
      Add(ValueArg("r", "nrows", FALSE, "int", NumberValue(4610))),
      Add(ValueArg("k", "nskips", FALSE, "short", NumberValue(1))),
      Add(SwitchArg("a", "oaskip", FALSE)),
      Add(ValueArg("S", "samps", FALSE, "int", NumberValue(-1)))>>

send_command_args ==
    <<Add(ValueArg("i", "ip", FALSE, "string", BOARD)),
      Add(ValueArg("c", "command", FALSE, "string", StringValue(""))),
      Add(ValueArg("f", "file", FALSE, "string", StringValue(""))),
      Add(SwitchArg("d", "debug", FALSE)),
      Add(SwitchArg("r", "response", FALSE)),
      Add(ValueArg("p", "prefix", FALSE, "int", NumberValue(0))),
      Add(ValueArg("w", "second", FALSE, "uint32", NumberValue(-1)))>>

PageConstraint == {NumberValue(n) : n \in 0..9}
write_config_args ==
    <<Add(ValueArg("i", "ip", FALSE, "string", BOARD)),
      Add(ValueArg("c", "config", FALSE, "string", StringValue("config.ini"))),
      Add(SwitchArg("d", "debug", FALSE)),
      Add(SwitchArg("w", "write", FALSE)),
      Add(SwitchArg("f", "flash", FALSE)),
      Add(ConstrainedArg("p", "page", FALSE, "int", NumberValue(0), PageConstraint))>>

write_firmware_args ==
    <<Add(ValueArg("i", "ip", FALSE, "string", BOARD)),
      Add(ValueArg("m", "map", FALSE, "string", StringValue(""))),
      Add(ValueArg("f", "file", TRUE, "string", StringValue(""))),
      Add(ValueArg("a", "address", FALSE, "uint32", NumberValue(APPLICATION))),
      Add(SwitchArg("", "force", FALSE))>>

write_data_args ==
    <<Add(ValueArg("i", "ip", FALSE, "string", BOARD)),
      Add(ValueArg("f", "file", TRUE, "string", StringValue(""))),
      Add(ValueArg("p", "port", FALSE, "int", NumberValue(8192))),
      Add(SwitchArg("d", "debug", FALSE))>>

read_data_args ==
    <<Add(ValueArg("p", "port", FALSE, "uint32", NumberValue(4096))),
      Add(ValueArg("n", "number", FALSE, "uint32", NumberValue(100))),
      Add(ValueArg("f", "file", FALSE, "string", StringValue("out_data.bin"))),
      Add(ValueArg("i", "ip", FALSE, "string", SERVER)),
      Add(ValueArg("a", "start", FALSE, "uint32", NumberValue(0))),
      Add(SwitchArg("e", "epcq", FALSE))>>
-----------------------------------------------------------------------------
(***************************************************************************)
(* The mains.                                                              *)
(***************************************************************************)
getValue(name) == state[name].value
Text(name) == getValue(name).text
Num(name) == getValue(name).num

When(condition, call) == IF condition THEN <<call>> ELSE <<>>

Runs(tool) ==
    /\ outcome = "accepted" /\ main = "waits" /\ prog = tool
    /\ UNCHANGED cmdVars

launchAsyncThread(file, port) == [op |-> "launchAsyncThread", file |-> file, port |-> port]

\* The number of columns is the number of words divided by the rows.
take_image ==
    /\ Runs("take_image")
    /\ IF Text("file") \in Existing THEN main' = "refused" /\ calls' = <<>>
       ELSE /\ main' = IF Num("nrows") = 0 THEN "aborted" ELSE "done"
            /\ calls' =
                 <<[op |-> "readConfigData", file |-> Text("config")]>>
                 \o When(getValue("oaskip"), [op |-> "setNSkips", n |-> Num("nskips")])
                 \o When(Num("samps") > 0, [op |-> "setNTrigSamples", n |-> Num("samps")])
                 \o <<[op |-> "sendConfigData", to |-> Text("ip")]>>
                 \o (IF Num("nrows") = 0 THEN <<>>
                     ELSE <<launchAsyncThread(Text("file"), Num("port")),
                            [op |-> "getWordsRead"], [op |-> "getCompileTime"],
                            [op |-> "writeFitsHeader", file |-> Text("file")]>>)

\* The commands that read a memory of the sequencer.
SequencerReads == {"RDP", "RDT", "RDO", "RDF", "RDR", "RDA", "RDS"}
ReaderFile(command, file) ==
    IF command \in {"RDC", "GCM"} /\ file = "" THEN "temp_cabac_delete.txt" ELSE file

\* Mutant: no reader without a file, and none for the monitoring.
ReaderPortNoCabac(command, file) ==
    CASE file # "" /\ command \in SequencerReads -> {6553}
      [] file # "" /\ command = "RDB" -> {17000}
      [] file # "" /\ command = "RDC" -> {8448}
      [] OTHER -> {}

\* The port of the reader that send_command starts for a command, or none.
ReaderPort(command, file) ==
    CASE file # "" /\ command \in SequencerReads -> {6553}     \* 0x1999
      [] file # "" /\ command = "RDB" -> {17000}               \* 0x4268
      [] command = "RDC" -> {8448}                             \* 0x2100
      [] command = "GCM" -> {8704}                             \* 0x2200
      [] OTHER -> {}

\* sendCommand: the prefix is ignored outside its eight bits, the second word
\* when it is all ones, and nothing goes out unless there are three letters.
CommandSent(command, prefix, second) ==
    When(Len(command) = 3,
         [op |-> "sendCommand", command |-> command,
          prefix |-> IF prefix \in 1..255 THEN prefix ELSE 0,
          second |-> {second} \ {-1}])

\* With -r the answer is awaited on a socket opened after the command, without
\* a timeout: no command, or an answer that is lost, and the tool hangs.
send_command ==
    /\ Runs("send_command")
    /\ LET command == Text("command")
           file == Text("file")
       IN /\ calls' =
               SetToSeq({launchAsyncThread(ReaderFile(command, file), port) :
                           port \in ReaderPort(command, file)})
               \o CommandSent(command, Num("prefix"), Num("second"))
               \o When(getValue("response"), [op |-> "recieveData", port |-> 12288])
          /\ main' \in IF ~getValue("response") THEN {"done"}
                       ELSE IF Len(command) = 3 THEN {"done", "hangs"} ELSE {"hangs"}

write_config ==
    /\ Runs("write_config")
    /\ calls' =
         (IF getValue("flash")
          THEN <<[op |-> "writeFlashConfig", page |-> Num("page"), file |-> Text("config")]>>
          ELSE <<[op |-> "sendConfigData", to |-> Text("ip"), file |-> Text("config")]>>)
         \o When(getValue("write"), [op |-> "writeINI", file |-> "default.ini"])
    /\ main' = "done"

\* A name without ".rpd" throws out of main.  An address outside the
\* application is warned about and written all the same.
write_firmware ==
    /\ Runs("write_firmware")
    /\ IF Text("map") = "" /\ Text("file") \notin DOMAIN MapOf
       THEN main' = "aborted" /\ calls' = <<>>
       ELSE /\ main' = "done"
            /\ calls' = <<[op |-> "writeFirmware", start |-> Num("address"),
                           file |-> Text("file"),
                           map |-> IF Text("map") = "" THEN MapOf[Text("file")]
                                   ELSE Text("map")]>>

write_data ==
    /\ Runs("write_data")
    /\ calls' = <<[op |-> "sendData", to |-> Text("ip"), file |-> Text("file"),
                   port |-> Num("port")]>>
    /\ main' = "done"

read_data ==
    /\ Runs("read_data")
    /\ calls' = IF getValue("epcq")
                THEN <<[op |-> "readEPCQ", file |-> Text("file"), start |-> Num("start"),
                        words |-> Num("number")]>>
                ELSE <<launchAsyncThread(Text("file"), Num("port"))>>
    /\ main' = "done"
-----------------------------------------------------------------------------
ToolInit == CmdInit /\ calls = <<>> /\ main = "waits"

ToolNext == \/ Parse /\ UNCHANGED <<calls, main>>
            \/ take_image \/ send_command \/ write_config
            \/ write_firmware \/ write_data \/ read_data

ToolSpec == ToolInit /\ [][ToolNext]_toolVars
-----------------------------------------------------------------------------
\* The port the board sends the data of a command from: the sequencer's
\* memories, the registers of CABAC, CROC and the monitoring, and the
\* configuration blocks.
AnswerPort(command) ==
    CASE command \in SequencerReads -> {6553}
      [] command = "RDC" -> {8448}
      [] command = "GCR" -> {8960}
      [] command = "GCM" -> {8704}
      [] command = "RDB" -> {17000}
      [] OTHER -> {}

Meant(name) == Meaning(CHOOSE a \in ArgSet : a.name = name)

(***************************************************************************)
(* When send_command sends a command whose data the board sends to a port  *)
(* of its own and a file is asked for, a reader of that port that writes   *)
(* that file was started before; for the CABAC register and the monitoring *)
(* also without a file.  GCR is the command it has no reader for.          *)
(***************************************************************************)
ReaderWhereBoardAnswers ==
    \A n \in DOMAIN calls : calls[n].op = "sendCommand" =>
        \A command \in {Meant("command").text}, file \in {Meant("file").text} :
           /\ calls[n].command = command
           /\ \A port \in AnswerPort(command) :
                \/ command = "GCR"
                \/ file = "" /\ command \notin {"RDC", "GCM"}
                \/ \E m \in 1..(n-1) :
                     /\ calls[m].op = "launchAsyncThread" /\ calls[m].port = port
                     /\ calls[m].file # "" /\ (file # "" => calls[m].file = file)
=============================================================================
