----------------------------- MODULE UsbControl -----------------------------
(***************************************************************************)
(* Control transfers to a device: handle_urb and handle_get_desc of        *)
(* vhci.c, on the description UsbDev builds.  Of a transfer's data only    *)
(* lengths are kept, in bytes, with the real sizes of the descriptors: how *)
(* far the handler writes into transfer_buffer, and what it reports.       *)
(***************************************************************************)
EXTENDS UsbDev

CONSTANT BufLens   \* bound: values of transfer_buffer_length; 0: transfer_buffer is NULL

ASSUME UsbControlAssumption == BufLens \subseteq Nat

\* Sizes of the packed descriptors, and with the two bytes of their header.
DescHdr  == 2
DevDesc  == DescHdr + 16
ConfDesc == DescHdr + 5
IfDesc   == DescHdr + 7
EpDesc   == DescHdr + 5
LangDesc == DescHdr + 2

VARIABLES urb,    \* the transfer being completed: its request, buffer, status, lengths reported and written
          alive   \* no null pointer was followed

cvars == <<vars, urb, alive>>

Urb(req, len, status, actual, written) ==
  [req |-> req, len |-> len, status |-> status, actual |-> actual, written |-> written]

NoUrb == Urb("none", 0, "0", 0, 0)

ControlInit == Init /\ urb = NoUrb /\ alive = TRUE

\* A handler that reports status, actual_length and leaves the device as it is.
Completes(req, len, status, actual, written) ==
  /\ urb' = Urb(req, len, status, actual, written)
  /\ UNCHANGED <<vars, alive>>

\* A null pointer is followed: the program ends.
Crashes == alive' = FALSE /\ UNCHANGED <<vars, urb>>
-----------------------------------------------------------------------------
\* The descriptors of a configuration and of the first k interfaces of its
\* first group, each followed by those of its endpoints.
IfsLen(c, k) ==
  LET ifs == Chain(child[c])
      len[j \in 0 .. Len(ifs)] ==
        IF j = 0 THEN ConfDesc ELSE len[j - 1] + IfDesc + EpDesc * Len(Chain(ifs[j]))
  IN  len[k]

\* The lengths at which one of these descriptors ends.
DescEnds(c) ==
  {ConfDesc} \cup
  UNION {{IfsLen(c, k - 1) + IfDesc + EpDesc * e : e \in 0 .. Len(Chain(Chain(child[c])[k]))} :
           k \in 1 .. Len(Chain(child[c]))}

\* All of them, and then, because the inner loop tests the group instead of the
\* interface, an interface at NULL.
WholeLen(c) == IfsLen(c, Len(Chain(child[c]))) + IfDesc

\* Mutant of Fits: a descriptor may be one byte too long.
FitsLoose(n, len) == n <= len + 1

\* remaining is still not negative.
Fits(n, len) == n <= len

\* The header of a descriptor is written before its length is tested.  The
\* status is -EINVAL on success as well.
GetConfDesc(index, len) ==
  LET c == usb_dev_get_config(index) IN
  IF c = NULL THEN Completes("conf", len, "-EINVAL", 0, DescHdr)
  ELSE IF ~Fits(ConfDesc, len) THEN Completes("conf", len, "-ENOMEM", 0, DescHdr)
  ELSE IF child[c] = NULL THEN Completes("conf", len, "-EINVAL", ConfDesc, ConfDesc)
  ELSE IF Fits(WholeLen(c), len) THEN Crashes
  ELSE \E n \in DescEnds(c) :
         /\ Fits(n, len) /\ \A m \in DescEnds(c) : m > n => ~Fits(m, len)
         /\ Completes("conf", len, "-ENOMEM", 0, n + DescHdr)

\* A device descriptor is written whatever the length of the buffer.
GetDevDesc(len) == Completes("dev", len, "-EINVAL", DevDesc, DevDesc)

\* The language goes behind the four bytes that are reported.
GetLangId(len) ==
  IF len < LangDesc THEN Completes("lang", len, "-ENOMEM", 0, 0)
  ELSE Completes("lang", len, "-EINVAL", LangDesc, 2 * DescHdr + 2)

\* usb_dev_get_str: nothing ever adds a string.
GetString(len) == Completes("string", len, "-EINVAL", 0, 0)

\* Configurations a transfer names: the device's own, and one it does not have.
Asked == {ConfValue[c] : c \in Confs} \cup {255}

\* The first alternative: a buffer too short, or a type beyond the known ones.
handle_get_desc(len) ==
  \/ Completes("unknown", len, "-EINVAL", 0, 0)
  \/ /\ len > DescHdr
     /\ \/ \E v \in Asked : GetConfDesc(v, len)
        \/ GetDevDesc(len) \/ GetLangId(len) \/ GetString(len)
        \/ Completes("other", len, "ENOTSUP", 0, 0)
-----------------------------------------------------------------------------
\* GET_STATUS writes two bytes; CLEAR_FEATURE and SET_FEATURE do nothing.
GetStatus(len) == IF len = 0 THEN Crashes ELSE Completes("status", len, "0", 2, 2)
Feature(len)   == Completes("feature", len, "0", 0, 0)

\* wLength and the direction of the pipe may be wrong as well.
GetConf(len) ==
  \/ len = 1 /\ Completes("get_conf", len, "0", 1, 1)
  \/ Completes("get_conf", len, "EINVAL", 0, 0)

\* Mutant of SetConf: the configuration is set before it is looked up.
SetConfUnchecked(v) ==
  /\ cur_config' = v
  /\ urb' = Urb("set_conf", 0, IF usb_dev_get_config(v) = NULL THEN "EINVAL" ELSE "0", 0, 0)
  /\ UNCHANGED <<tree, alive>>

SetConf(v) ==
  LET c == usb_dev_get_config(v) IN
  IF c = NULL THEN Completes("set_conf", 0, "EINVAL", 0, 0)
  ELSE /\ cur_config' = ConfValue[c]
       /\ urb' = Urb("set_conf", 0, "0", 0, 0)
       /\ UNCHANGED <<tree, alive>>

\* The status is EINVAL on success as well.
GetIf(num, len) ==
  IF usb_dev_get_if_grp(cur_config, num) = NULL THEN Completes("get_if", len, "EINVAL", 0, 0)
  ELSE IF len = 0 THEN Crashes ELSE Completes("get_if", len, "EINVAL", 1, 1)

\* handle_urb on endpoint 0; transfers to other endpoints change nothing.
handle_urb ==
  \/ \E len \in BufLens :
       \/ handle_get_desc(len) \/ GetStatus(len) \/ Feature(len) \/ GetConf(len)
       \/ \E i \in Ifs : GetIf(IfNum[i], len)
       \/ Completes("unsupported", len, "ENOTSUP", 0, 0)
  \/ \E v \in Asked : SetConf(v)

\* urb->complete takes the outcome, the last thing handle_urb does.
complete ==
  /\ urb # NoUrb /\ urb' = NoUrb
  /\ UNCHANGED <<vars, alive>>

\* bound: transfers come once every structure has its place, in main.c's order.
Finished == late = {} /\ \A n \in Nodes : ~Unused(n)

ControlNext ==
  \/ alive /\ urb = NoUrb /\ Build /\ UNCHANGED <<urb, alive>>
  \/ alive /\ urb = NoUrb /\ Finished /\ handle_urb
  \/ complete

ControlSpec == ControlInit /\ [][ControlNext]_cvars
-----------------------------------------------------------------------------
\* The configuration in use is one the device has, from its first choice on:
\* a device list and GET_INTERFACE find it (SET_CONFIGURATION in handle_urb).
CurrentConfigExists == cur_config # -1 => usb_dev_get_config(cur_config) # NULL

\* Of a configuration as many descriptors are written as fit, at whatever
\* length the buffer ends: an outcome other than -ENOMEM stays in the buffer
\* and reports what was written, and -ENOMEM leaves it by no more than the
\* header of the first descriptor that did not fit, and reports no part of the
\* configuration (handle_get_desc).
ConfigurationFits ==
  urb.req = "conf" =>
    IF urb.status = "-ENOMEM"
    THEN urb.actual = 0 /\ urb.written <= urb.len + DescHdr
    ELSE urb.written <= urb.len /\ urb.actual \in {0, urb.written}
=============================================================================
