--------------------------- MODULE GraphicsDevice ---------------------------
(***************************************************************************)
(* The SVG graphics device of gdevice.h in R's list of devices, and what   *)
(* doRequest does with it around a handler (request.R): it opens one,      *)
(* remembers its number, runs the handler, and switches off whatever       *)
(* device has that number then.  In between the client's code plots, and   *)
(* opens, selects and closes devices as it likes.                          *)
(*                                                                         *)
(* R's own side is external: new devices get the lowest free number, the   *)
(* one after a closed device becomes current, plotting without a device    *)
(* opens the default one, and at R's exit the finalizers run before all    *)
(* devices are closed.                                                     *)
(***************************************************************************)
EXTENDS Naturals, Sequences, FiniteSets, FiniteSetsExt

CONSTANTS
  Rects,          \* the rectangles R clips to, at least 0.01 apart
  WholePage,      \* the one that spans the page
  NoRect,         \* no rectangle yet, or an empty clip id
  MaxDevices,     \* bound: R's device numbers
  MaxElements,    \* bound: elements of an SVG document
  MaxHandled      \* bound: requests

ASSUME RectsAssumption == WholePage \in Rects /\ NoRect \notin Rects
ASSUME DeviceBoundsAssumption ==
  /\ MaxDevices \in Nat \ {0}
  /\ MaxElements \in Nat \ {0}
  /\ MaxHandled \in Nat

VARIABLES
  devices,     \* the open devices, by number
  current,     \* the number of R's current device, 0 without one
  mine,        \* doRequest's 'dev': a number, or 0 for NULL
  deviceOff,   \* .JUNIPER$jkdopts$device_off
  phase,       \* "between" requests; in one, before doRequest's tryCatch
               \* ("setup"), in its "handler" or in its "finally"; R is
               \* "quitting" after or "aborting" within a request, and "gone"
  request,     \* the request being handled, or handled last
  published,   \* history: the documents sent as display_data
  cellClosed   \* history: the cell has closed the request's own device

deviceVars == <<devices, current, mine, deviceOff, phase, request, published,
                cellClosed>>

Slots == 1..MaxDevices

\* from jk_device to the end of the finally
Within == {"setup", "handler", "finally"}

Open == DOMAIN devices

\* what stands in a document: the header, a clip path, a shape clipped to 'ref'
\* while R wanted the clip to be 'in', and the end
Header == [el |-> "svg"]
ClipPath(r) == [el |-> "clipPath", id |-> r]
Shape(ref, in) == [el |-> "shape", ref |-> ref, in |-> in]
Footer == [el |-> "end"]

\* a fresh device: no page, no clip
JKDesc ==
  [kind |-> "juniper", owner |-> request, pageno |-> 0, clip |-> NoRect,
   clipid |-> NoRect, doc |-> <<>>, firstPage |-> TRUE]

\* a device of another package: a pdf, say
UserDevice == [JKDesc EXCEPT !.kind = "user"]

DeviceInit ==
  /\ devices = <<>>
  /\ current = 0
  /\ mine = 0
  /\ deviceOff = FALSE
  /\ phase = "between"
  /\ request = 0
  /\ published = <<>>
  /\ cellClosed = FALSE

-----------------------------------------------------------------------------
(* R's list of devices (external).                                         *)

FreeSlots == Slots \ Open

\* GEaddDevice2: the lowest free number, and it becomes current
AddDevice(d, n) ==
  devices' = [s \in Open \cup {n} |-> IF s = n THEN d ELSE devices[s]]

\* mutant of NextOf: the closed device stays current
NextStays(n, left) == n

\* the device after n, cyclically, when n is closed
NextOf(n, left) ==
  IF left = {} THEN 0
  ELSE IF \E s \in left : s > n THEN Min({s \in left : s > n}) ELSE Min(left)

-----------------------------------------------------------------------------
(* The callbacks of gdevice.h.                                             *)

\* mutant of SvgClip: the device does not notice that the clip is unchanged
\* in its id, only in its rectangle
SvgClipNoDefs(d, r) ==
  IF r = d.clip THEN d ELSE [d EXCEPT !.clip = r, !.clipid = r]

\* svg_clip: nothing for the clip that is in force already, else a new path
SvgClip(d, r) ==
  IF r = d.clip THEN d
  ELSE [d EXCEPT !.clip = r, !.clipid = r, !.doc = Append(@, ClipPath(r))]

\* mutant of SvgNewPage: the stream is not cleared
SvgNewPageKept(d) ==
  [d EXCEPT !.pageno = 1, !.clip = WholePage, !.doc = Append(@, Header),
            !.firstPage = d.firstPage /\ d.pageno = 0]

\* svg_new_page: an earlier page is dropped; the rectangle is the page's again,
\* but the id stays
SvgNewPage(d) ==
  [d EXCEPT !.pageno = 1, !.clip = WholePage,
            !.doc = IF d.pageno > 0 THEN <<Header>> ELSE Append(@, Header),
            !.firstPage = d.firstPage /\ d.pageno = 0]

\* svg_line, svg_poly, svg_path, svg_rect and svg_circle write one element with
\* the clip's id as an attribute, svg_text and svg_raster one inside a group
SvgElement(d) == [d EXCEPT !.doc = Append(@, Shape(d.clipid, d.clip))]

\* svg_close: what was drawn is published, with the current request as parent
SvgClose(d) ==
  published' = IF d.kind = "juniper" /\ d.doc # <<>>
               THEN Append(published, [drawn |-> d.owner, under |-> request,
                                       doc |-> Append(d.doc, Footer),
                                       first |-> d.firstPage])
               ELSE published

-----------------------------------------------------------------------------
(* What the client's code does in a handler.                               *)

Staying == UNCHANGED <<mine, phase, request>>

\* a drawing callback makes the current device d
OnCurrent(d) ==
  /\ phase = "handler"
  /\ current # 0
  /\ devices[current].kind = "juniper"
  /\ devices' = [devices EXCEPT ![current] = d]
  /\ UNCHANGED <<current, deviceOff, published, cellClosed>>
  /\ Staying

\* R starts a page before it clips or draws
HasPage(n) == devices[n].pageno > 0 /\ Len(devices[n].doc) < MaxElements

Plot == OnCurrent(SvgNewPage(devices[current]))

Clip ==
  \E r \in Rects :
    /\ current # 0 => HasPage(current)
    /\ OnCurrent(SvgClip(devices[current], r))

Draw ==
  /\ current # 0 => HasPage(current)
  /\ OnCurrent(SvgElement(devices[current]))

\* pdf(), png(), or a plot without a device
OpenUserDevice ==
  /\ phase = "handler"
  /\ FreeSlots # {}
  /\ AddDevice(UserDevice, Min(FreeSlots))
  /\ current' = Min(FreeSlots)
  /\ UNCHANGED <<deviceOff, published, cellClosed>>
  /\ Staying

\* killDevice: nothing for a number that is not in use
Kill(n) ==
  IF n \notin Open
  THEN UNCHANGED <<devices, current, published>>
  ELSE /\ SvgClose(devices[n])
       /\ devices' = [s \in Open \ {n} |-> devices[s]]
       /\ current' = IF n = current THEN NextOf(n, Open \ {n}) ELSE current

\* dev.off()
CloseDevice ==
  /\ phase = "handler"
  /\ current # 0
  /\ Kill(current)
  /\ cellClosed' = (cellClosed \/ current = mine)
  /\ UNCHANGED deviceOff
  /\ Staying

\* dev.set()
SelectDevice ==
  /\ phase = "handler"
  /\ \E n \in Open : current' = n
  /\ UNCHANGED <<devices, deviceOff, published, cellClosed>>
  /\ Staying

\* jk_device_settings(device_off = ...)
ToggleDevice ==
  /\ phase = "handler"
  /\ deviceOff' = ~deviceOff
  /\ UNCHANGED <<devices, current, published, cellClosed>>
  /\ Staying

-----------------------------------------------------------------------------
(* doRequest.                                                              *)

\* the device is opened for any request, unless the user switched it off
OpenRequestDevice ==
  /\ phase = "between"
  /\ request < MaxHandled
  /\ request' = request + 1
  /\ phase' = "setup"
  /\ cellClosed' = FALSE
  /\ IF deviceOff
     THEN mine' = 0 /\ UNCHANGED <<devices, current>>
     ELSE /\ FreeSlots # {}
          /\ LET n == Min(FreeSlots) IN
             /\ AddDevice([JKDesc EXCEPT !.owner = request + 1], n)
             /\ mine' = n
             /\ current' = n
  /\ UNCHANGED <<deviceOff, published>>

\* phase is all that changes
GoesTo(p) ==
  /\ phase' = p
  /\ UNCHANGED <<devices, current, mine, deviceOff, request, published,
                 cellClosed>>

\* the tryCatch is entered, and calls the handler
CallHandler == phase = "setup" /\ GoesTo("handler")

\* the handler returns, fails or is interrupted: its finally runs
EndHandler == phase = "handler" /\ GoesTo("finally")

\* mutant of CloseRequestDevice: the finally switches off the current device
CloseCurrentDevice ==
  /\ phase = "finally"
  /\ phase' \in {"between", "quitting"}
  /\ IF mine = 0 THEN UNCHANGED <<devices, current, published>>
     ELSE Kill(current)
  /\ UNCHANGED <<mine, deviceOff, request, cellClosed>>

\* the end of the finally: dev.off(dev), with the number remembered before the
\* handler; an error of the handler goes on to end the main loop
CloseRequestDevice ==
  /\ phase = "finally"
  /\ phase' \in {"between", "quitting"}
  /\ IF mine = 0 THEN UNCHANGED <<devices, current, published>>
     ELSE Kill(mine)
  /\ UNCHANGED <<mine, deviceOff, request, cellClosed>>

\* the main loop ends between two requests: a shutdown, or an error
LoopEnds == phase = "between" /\ GoesTo("quitting")

\* an interrupt or error that no finally answers, since the tryCatch is not
\* entered yet or the finally itself is at work, ends the main loop
Uncaught == phase \in {"setup", "finally"} /\ GoesTo("aborting")

\* quit() in the client's code runs no finally
Quit == phase = "handler" /\ GoesTo("aborting")

\* R's exit: the finalizer deletes the kernel and its request server, and then
\* the devices that are left are closed; what they publish is undefined
KillAllDevices ==
  /\ phase \in {"quitting", "aborting"}
  /\ phase' = "gone"
  /\ devices' = <<>>
  /\ current' = 0
  /\ UNCHANGED <<mine, deviceOff, request, published, cellClosed>>

Drawing == Plot \/ Clip \/ Draw

ListOfDevices == OpenUserDevice \/ CloseDevice \/ SelectDevice \/ ToggleDevice

\* what doRequest does
Request == OpenRequestDevice \/ CallHandler \/ EndHandler \/ CloseRequestDevice

\* how the process ends
Exit == LoopEnds \/ Uncaught \/ Quit \/ KillAllDevices

DeviceNext ==
  \/ Request
  \/ Drawing
  \/ ListOfDevices
  \/ Exit

DeviceSpec == DeviceInit /\ [][DeviceNext]_deviceVars

-----------------------------------------------------------------------------
(* Properties.                                                             *)

DeviceTypeOK ==
  /\ Open \subseteq Slots
  /\ current \in Open \cup {0}
  /\ mine \in Slots \cup {0}
  /\ deviceOff \in BOOLEAN
  /\ phase \in Within \cup {"between", "quitting", "aborting", "gone"}
  /\ request \in 0..MaxHandled
  /\ cellClosed \in BOOLEAN

(* A request that draws is answered with one page: no matter how many      *)
(* pages the cell starts, which devices it opens or closes and whether it  *)
(* quits, what is published was drawn for the request that is current,     *)
(* comes at most once, and has one header and one footer, first and last.  *)
(* (gdevice.h:349-413, request.R:97-98)                                    *)
OnePageEach ==
  \A i \in DOMAIN published :
    LET doc == published[i].doc IN
    /\ published[i].drawn = published[i].under
    /\ \A j \in DOMAIN published :
         published[i].drawn = published[j].drawn => i = j
    /\ Len(doc) >= 2
    /\ \A k \in DOMAIN doc : /\ doc[k] = Header <=> k = 1
                             /\ doc[k] = Footer <=> k = Len(doc)

(* A device of the kernel is open only while the request it was opened for *)
(* is handled, even if the client's code closed it, opened others or       *)
(* switched devices off meanwhile.  At R's exit, where it would publish    *)
(* through the request server that the finalizer has deleted, one may be   *)
(* left, the last request's own, and only if R is left from inside that    *)
(* request: by a quit() of the client's code, or by an error or interrupt  *)
(* before the tryCatch is entered or in the finally before dev.off.  An    *)
(* error or interrupt of the handler itself leaves none.                   *)
(* (request.R:73-98, juniper.cpp:38-44, gdevice.h:399-413)                 *)
NoDeviceLeft ==
  \A n \in Open :
    devices[n].kind = "juniper" =>
      /\ phase \notin {"between", "quitting"}
      /\ n = mine
      /\ devices[n].owner = request

\* the shape's clip path stands before it in its document and is the clip that
\* R wanted; without one it may be drawn on the whole page
ClippedAsAsked(doc, k) ==
  \/ doc[k].ref = doc[k].in /\ ClipPath(doc[k].ref) \in {doc[i] : i \in 1..k}
  \/ doc[k].ref = NoRect /\ doc[k].in = WholePage

Clipped(pages) ==
  \A d \in pages : \A k \in DOMAIN d.doc :
    d.doc[k].el = "shape" => ClippedAsAsked(d.doc, k)

(* On the first page of a device every shape is clipped to what R asked    *)
(* for.  (gdevice.h:320-347, 370-374)                                      *)
FirstPageClipped ==
  Clipped({published[i] : i \in {i \in DOMAIN published : published[i].first}})

(* The finally closes a device that is not the kernel's only if the cell   *)
(* has closed the request's own device itself and another one has got its  *)
(* number.  (request.R:98)                                                 *)
OthersStayOpen ==
  [][CloseRequestDevice /\ ~cellClosed
       => \A n \in Open : devices[n].kind = "user"
                            => n \in DOMAIN devices' /\ devices'[n] = devices[n]]_deviceVars
-----------------------------------------------------------------------------
(* What a comment says, and the code does not do.                          *)

(* A new page initialises clipping the same way R does: on every page the  *)
(* shapes are clipped to what R asked for.  (gdevice.h:370)                *)
EveryPageClipped == Clipped({published[i] : i \in DOMAIN published})
=============================================================================
