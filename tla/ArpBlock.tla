------------------------------ MODULE ArpBlock ------------------------------
(***************************************************************************)
(* The ARP block (ethernet/arp_block.vhd, arp_replier.vhd) and the ARP     *)
(* cache (arp_cache.vhd) behind the frame receiver, wired as in            *)
(* ethernet_block.vhd.  A request for our address is held in reply_wait    *)
(* and the address registers until the transmitter is free; then a frame   *)
(* generator sends the seven words the replier makes.  While the cache     *)
(* holds no fresh address of the server, requests of our own go out in     *)
(* between.                                                                *)
(*                                                                         *)
(* The replier, its output register and fg_data_in are the first three of  *)
(* the frame generator's IN_DLY - 1 = 4 pipeline stages: pipe[1] stands    *)
(* for the replier's state (the word it will put out), and payload number  *)
(* i is the word made in state ARP(i - 1).                                 *)
(***************************************************************************)
EXTENDS FrameReceiver, FrameGenerator

CONSTANTS
  Server,              \* the station whose address the cache holds
  ARP_REQ_WAITTIME,    \* clocks between two requests (10^8 in the code)
  CACHE_TIMEOUT        \* clocks until the cache is stale (600 s in the code)

ARP_len == 7

ASSUME ArpAssumption ==
  /\ Server \in Stations
  /\ ARP_REQ_WAITTIME \in Nat \ {0} /\ CACHE_TIMEOUT \in Nat \ {0}
  /\ HeaderConfig = {"ETH"} /\ IN_DLY = 5 /\ OUT_DLY = 5
  /\ PAYLOAD_MAX_LEN > ARP_len

VARIABLES
  reply_wait, is_request,     \* reply_buffer
  arp_dest,                   \* dest_mac_addr_reg, dest_ip_addr_reg
  generate_request_int, arp_timer,
  eth_dest,                   \* destination in the header generator's eth_header
  cache_value, cache_valid, cache_updated, cache_stale,
  cache_age,                  \* ms_timer and clock_timer in one
  asked                       \* history: stations owed an ARP reply

replyVars == <<reply_wait, is_request, arp_dest, generate_request_int,
               arp_timer, eth_dest>>
cacheVars == <<cache_value, cache_valid, cache_updated, cache_stale, cache_age>>
arpVars == <<rxVars, hgVars, fgVars, replyVars, cacheVars, asked>>

NoDest == [mac |-> <<None, None>>, ip |-> <<None, None>>]
AddressOf(s) == <<s, s>>

ArpInit ==
  /\ RxInit /\ HgInit /\ FgInit
  /\ reply_wait = FALSE /\ is_request = FALSE /\ arp_dest = NoDest
  /\ generate_request_int = FALSE /\ arp_timer = 0
  /\ eth_dest = <<None, None>>
  /\ cache_value = <<None, None>> /\ cache_valid = FALSE
  /\ cache_updated = FALSE /\ cache_stale = FALSE /\ cache_age = 0
  /\ asked = {}

-----------------------------------------------------------------------------
generate_arp_request == cache_stale \/ ~cache_valid
ARP_source_ip_valid == generate_arp_reply \/ arp_reply_recieved

\* One pulse when generate_arp_request rises, then one per ARP_REQ_WAITTIME.
ArpRequestWaiter ==
  LET timer == IF arp_timer >= ARP_REQ_WAITTIME THEN 0
               ELSE IF arp_timer > 0 THEN arp_timer + 1 ELSE 0
  IN  /\ generate_request_int' = (generate_arp_request /\ timer = 0)
      /\ arp_timer' = IF ~generate_arp_request THEN 0
                      ELSE IF timer = 0 THEN 1 ELSE timer

\* Mutant: a request is held for one clock only.
ReplyBufferForgets ==
  IF ~fg_busy /\ ~reply_wait /\ generate_arp_reply
    THEN /\ arp_dest' = [mac |-> fr.mac, ip |-> fr.ip]
         /\ reply_wait' = TRUE /\ is_request' = FALSE
    ELSE reply_wait' = FALSE /\ UNCHANGED <<arp_dest, is_request>>

\* reply_buffer: busy, waiting, a request to answer, one to send, or nothing.
ReplyBuffer ==
  CASE fg_busy ->
         reply_wait' = FALSE /\ UNCHANGED <<arp_dest, is_request>>
    [] ~fg_busy /\ reply_wait ->
         UNCHANGED <<reply_wait, arp_dest, is_request>>
    [] ~fg_busy /\ ~reply_wait /\ generate_arp_reply ->
         /\ arp_dest' = [mac |-> fr.mac, ip |-> fr.ip]
         /\ reply_wait' = TRUE /\ is_request' = FALSE
    [] ~fg_busy /\ ~reply_wait /\ ~generate_arp_reply /\ generate_request_int ->
         /\ arp_dest' = [mac |-> <<None, None>>, ip |-> AddressOf(Server)]
         /\ reply_wait' = TRUE /\ is_request' = TRUE
    [] OTHER -> UNCHANGED <<reply_wait, arp_dest, is_request>>

\* The replier's next state, started by the frame generator's rdreq.
Replier ==
  CASE pipe[1].kind = "none" -> IF rdreq THEN Payload(1) ELSE NoWord
    [] pipe[1].kind = "payload" /\ pipe[1].n < ARP_len -> Payload(pipe[1].n + 1)
    [] pipe[1].kind = "payload" /\ pipe[1].n = ARP_len -> Word("done", 0)
    [] pipe[1].kind = "done" -> NoWord

\* eth_header is registered while the header generator is idle, from the
\* frame receiver's registers as they are then.
EthHeader == eth_dest' = IF hg_state = "IDLE" THEN fr.mac ELSE eth_dest

\* Mutant: the cache takes the address of whoever sent the ARP frame.
CacheUpdateAny(reset) ==
  /\ cache_updated' = (~reset /\ ARP_source_ip_valid)
  /\ cache_valid' = (~reset /\ (cache_valid \/ cache_updated'))
  /\ cache_value' = IF reset THEN <<None, None>>
                    ELSE IF cache_updated' THEN fr.mac ELSE cache_value

\* reset is config_changed: a new configuration clears the cache.
CacheUpdate(reset) ==
  /\ cache_updated' = /\ ~reset /\ ARP_source_ip_valid
                      /\ fr.ip = AddressOf(Server)
  /\ cache_valid' = (~reset /\ (cache_valid \/ cache_updated'))
  /\ cache_value' = IF reset THEN <<None, None>>
                    ELSE IF cache_updated' THEN fr.mac ELSE cache_value

CacheTimer ==
  LET age == IF cache_updated THEN 0 ELSE cache_age
  IN  /\ cache_stale' = (age >= CACHE_TIMEOUT)
      /\ cache_age' = IF age >= CACHE_TIMEOUT THEN age ELSE age + 1

\* History: a station is owed a reply from its request to the end of a
\* frame that answers it.
Asked ==
  asked' = (IF generate_arp_reply /\ rx_frame.ours THEN asked \cup {fr.mac[1]}
                                                   ELSE asked)
           \ (IF eop /\ ~is_request THEN {arp_dest.mac[1]} ELSE {})

ArpTick(tx_ready) ==
  /\ RxClock
  /\ ArpRequestWaiter
  /\ ReplyBuffer
  /\ FgMachine(reply_wait /\ tx_ready, ARP_len)
  /\ Pipeline(TRUE, Replier)
  /\ HgClock(header_start, payload_length, 0)
  /\ FrameHistory(1, 0)
  /\ EthHeader
  /\ \E reset \in BOOLEAN : CacheUpdate(reset)
  /\ CacheTimer
  /\ Asked

\* A reset, not in the clock in which a header is started (see FrameStream).
\* The request waiter has no reset and goes on.
ArpReset ==
  /\ ~header_start
  /\ RxReset /\ FgReset /\ HgReset
  /\ reply_wait' = FALSE /\ is_request' = FALSE /\ arp_dest' = NoDest
  /\ cache_value' = <<None, None>> /\ cache_valid' = FALSE
  /\ cache_updated' = FALSE /\ cache_stale' = FALSE /\ cache_age' = 0
  /\ asked' = {}
  /\ ArpRequestWaiter
  /\ UNCHANGED eth_dest

ArpNext == (\E tx_ready \in BOOLEAN : ArpTick(tx_ready)) \/ ArpReset
ArpSpec == ArpInit /\ [][ArpNext]_arpVars
FairArpSpec == ArpSpec /\ WF_arpVars(ArpTick(TRUE))

-----------------------------------------------------------------------------
(***************************************************************************)
(* The address the cache offers for data frames is the server's, whole:    *)
(* the halves were not taken from two frames, and never from another       *)
(* station, although the registers they come from change with every word.  *)
(***************************************************************************)
CacheIsServers == cache_valid => cache_value = AddressOf(Server)

(***************************************************************************)
(* A reply waiting or under way names, in its payload, one station that    *)
(* asked for our address and has not been answered since.                  *)
(***************************************************************************)
ReplyNamesRequester ==
  ((reply_wait \/ fg_state \notin {"IDLE", "DONE"}) /\ ~is_request) =>
    \E s \in asked : arp_dest = [mac |-> AddressOf(s), ip |-> AddressOf(s)]

(***************************************************************************)
(* A request or reply that is waiting goes out, if the transmitter is      *)
(* free again and again (a reset may take it back).                        *)
(***************************************************************************)
ArpIsSent == reply_wait ~> (eop \/ (~reply_wait /\ fg_state = "IDLE" /\ frame = <<>>))
=============================================================================
