------------------------------ MODULE SampleRead ------------------------------
(***************************************************************************)
(* The second device's usb_val from the handler that stores it to the      *)
(* reader of it: SERCOM0_Handler stores one word after the other, and the  *)
(* USB unit copies both into a packet by itself whenever the host asks,    *)
(* again if the packet does not arrive.  The library's two getters each    *)
(* ask for one word, get two, which is an error, and ask for two.  A word  *)
(* is the number of the sample it is of.                                   *)
(***************************************************************************)
EXTENDS Integers, Sequences

CONSTANT MaxSamples   \* published while the host reads

VARIABLES
  usb_val,   \* the words: 1 the temperature, 2 the humidity
  storing,   \* SERCOM0_Handler has stored the first word and not the second
  ready,     \* the USB unit has an answer to send
  packet,    \* the words of it that it has copied
  getter,    \* the word the library's getter under way is for
  both,      \* it asks for both
  since,     \* history: usb_val when the getters were called
  got        \* what they returned

readVars == <<usb_val, storing, ready, packet, getter, both, since, got>>
Words == 1 .. 2

ReadInit ==
  /\ usb_val = <<0, 0>> /\ storing = FALSE /\ ready = FALSE /\ packet = <<>>
  /\ getter = 1 /\ both = FALSE /\ since = <<0, 0>> /\ got = <<0, 0>>

-----------------------------------------------------------------------------
StoreTemp ==
  /\ ~storing /\ usb_val[1] < MaxSamples
  /\ usb_val' = [usb_val EXCEPT ![1] = @ + 1] /\ storing' = TRUE
  /\ UNCHANGED <<ready, packet, getter, both, since, got>>

StoreHumid ==
  /\ storing
  /\ usb_val' = [usb_val EXCEPT ![2] = @ + 1] /\ storing' = FALSE
  /\ UNCHANGED <<ready, packet, getter, both, since, got>>

\* Mutant: the USB interrupt is of a higher priority than the I2C unit's.
ServesAnytime == TRUE

\* The handlers have one priority: neither interrupts the other.
Serves == ~storing

Copied == <<>>

\* A getter's SETUP is served by parse_usb_request, which links usb_val to the unit.
HandOut ==
  /\ ~ready /\ Serves
  /\ ready' = TRUE /\ packet' = Copied
  /\ since' = IF both THEN since ELSE [since EXCEPT ![getter] = usb_val[getter]]
  /\ UNCHANGED <<usb_val, storing, getter, both, got>>

CopyWord ==
  /\ ready /\ Len(packet) < 2
  /\ packet' = Append(packet, usb_val[Len(packet) + 1])
  /\ UNCHANGED <<usb_val, storing, ready, getter, both, since, got>>

\* The packet is sent again, and copied again.
Lost ==
  /\ ready /\ Len(packet) = 2
  /\ packet' = <<>>
  /\ UNCHANGED <<usb_val, storing, ready, getter, both, since, got>>

\* Eight bytes where four were asked for are an error.
FallBack ==
  /\ ready /\ Len(packet) = 2 /\ ~both
  /\ both' = TRUE /\ ready' = FALSE
  /\ UNCHANGED <<usb_val, storing, packet, getter, since, got>>

Returns ==
  /\ ready /\ Len(packet) = 2 /\ both
  /\ got' = [got EXCEPT ![getter] = packet[getter]]
  /\ getter' = 3 - getter /\ both' = FALSE /\ ready' = FALSE
  /\ UNCHANGED <<usb_val, storing, packet, since>>

ReadNext == StoreTemp \/ StoreHumid \/ HandOut \/ CopyWord \/ Lost \/ FallBack \/ Returns
ReadSpec == ReadInit /\ [][ReadNext]_readVars

-----------------------------------------------------------------------------
\* A getter (libth_get_temperature, libth_get_humidity) never returns a word older than
\* the one published when it was called, and the humidity the form shows is never of an
\* older sample than its temperature: no handler that hands usb_val out runs between
\* the two stores.
ReadingCurrent ==
  /\ \A word \in Words : word # getter => got[word] >= since[word]
  /\ getter = 1 /\ ~both => got[1] <= got[2]
=============================================================================
