--------------------------- MODULE HandlersProofs ---------------------------
(***************************************************************************)
(* Proofs about requests whose code uses devices and comms.  The device    *)
(* part rests on what is true of each device by itself (DeviceOK), which   *)
(* the callbacks preserve, and on who owns the devices of the kernel at    *)
(* each phase (NoDeviceLeft, Kept).  The comm part needs that objects are  *)
(* numbered in the order they are made and keep the id they were given.    *)
(***************************************************************************)
EXTENDS Handlers, WellFoundedInduction, TLAPS

-----------------------------------------------------------------------------
(* What is true of a device by itself.                                     *)

Refs == Rects \cup {NoRect}

Marks == {ClipPath(r) : r \in Rects} \cup {Shape(ref, in) : ref, in \in Refs}

Device ==
  [kind : {"juniper", "user"}, owner : Nat, pageno : {0, 1}, clip : Refs,
   clipid : Refs, doc : Seq({Header} \cup Marks), firstPage : BOOLEAN]

\* nothing is in the document before the page is started, and one header after
OnePage(d) ==
  /\ d.pageno = 0 => d.doc = <<>> /\ d.clipid = NoRect
  /\ d.pageno = 1 => /\ Len(d.doc) >= 1
                     /\ d.doc[1] = Header
                     /\ \A k \in 2..Len(d.doc) : d.doc[k] \in Marks

\* the shapes drawn so far are clipped as asked
ShapesClipped(doc) ==
  \A k \in DOMAIN doc : doc[k].el = "shape" => ClippedAsAsked(doc, k)

\* and so will be the next one
InForce(d) ==
  \/ d.clipid = NoRect /\ d.clip = WholePage
  \/ d.clipid = d.clip /\ \E i \in DOMAIN d.doc : d.doc[i] = ClipPath(d.clip)

DeviceOK(d) ==
  /\ d \in Device
  /\ OnePage(d)
  /\ d.firstPage => /\ ShapesClipped(d.doc)
                    /\ d.pageno = 1 => InForce(d)

-----------------------------------------------------------------------------
(* The inductive invariant of the devices.                                 *)

\* the request's device stays until its cell closes it
Kept ==
  phase \in Within /\ mine # 0 /\ ~cellClosed =>
    mine \in Open /\ devices[mine].kind = "juniper"

Page ==
  [drawn : Nat, under : Nat, doc : Seq({Header, Footer} \cup Marks),
   first : BOOLEAN]

\* one header, marks, one footer
Whole(doc) ==
  /\ Len(doc) >= 2
  /\ doc[1] = Header
  /\ doc[Len(doc)] = Footer
  /\ \A k \in 2..(Len(doc) - 1) : doc[k] \in Marks

\* a document that was published
PageOK(p) ==
  /\ p.drawn = p.under
  /\ Whole(p.doc)
  /\ p.first => ShapesClipped(p.doc)

\* the current request has not published yet if its device is open, and each
\* request publishes once
Once ==
  /\ \A i, j \in DOMAIN published :
       published[i].drawn = published[j].drawn => i = j
  /\ phase \in Within =>
       \A n \in Open : devices[n].kind = "juniper" =>
         \A i \in DOMAIN published : published[i].drawn # request

DevicesOK == \A n \in Open : DeviceOK(devices[n])

PagesOK ==
  /\ published \in Seq(Page)
  /\ \A i \in DOMAIN published :
       PageOK(published[i]) /\ published[i].drawn <= request

DeviceInv ==
  /\ DeviceTypeOK
  /\ DevicesOK
  /\ NoDeviceLeft
  /\ Kept
  /\ PagesOK
  /\ Once

-----------------------------------------------------------------------------
(* The inductive invariant of the comms.                                   *)

\* the comm that a package still holds can be found under its id
Found(k) ==
  \/ k \in closed
  \/ \E j \in DOMAIN given : j # k /\ given[j] = given[k]
  \/ given[k] \in DOMAIN comms /\ comms[given[k]] = k

\* objects are numbered as they are made, and keep the id they were given
CommInv ==
  /\ CommsAlive
  /\ given \in Seq(Ids)
  /\ \A k \in DOMAIN objects : /\ k \in 1..Len(given)
                               /\ objects[k].id = given[k]
                               /\ Found(k)

Inv == DeviceInv /\ CommInv

-----------------------------------------------------------------------------
(* The operators of the model.                                             *)

(* A non-empty set of numbers has a least one.                             *)
LEMMA Lowest ==
  ASSUME NEW S \in SUBSET Nat, S # {}
  PROVE  Min(S) \in S
<1> DEFINE Less == OpToRel(<, Nat)
<1>1. \E n \in S : \A m \in S : <<m, n>> \notin Less
  <2> HIDE DEF Less
  <2>1. IsWellFoundedOn(Less, Nat)
    BY NatLessThanWellFounded DEF Less
  <2>2. QED
    BY <2>1, WFMin
<1>2. \A m, n \in Nat : m < n => <<m, n>> \in Less
  BY DEF OpToRel
<1>3. PICK n \in S : \A m \in S : <<m, n>> \notin Less
  BY <1>1
<1>4. \A m \in S : ~(m < n)
  <2> HIDE DEF Less
  <2>1. QED
    BY <1>2, <1>3, Zenon
<1>5. \A m \in S : n <= m
  <2> HIDE DEF Less
  <2>1. QED
    BY <1>4
<1>6. QED
  BY <1>5 DEF Min

(* The number of a new device is a free one.                               *)
LEMMA LowestFree ==
  ASSUME FreeSlots # {}
  PROVE  Min(FreeSlots) \in FreeSlots
<1>1. FreeSlots \in SUBSET Nat
  BY DEF FreeSlots, Slots
<1>2. QED
  BY <1>1, Lowest

(* When a device is closed, the one that becomes current is among those    *)
(* that are left.                                                          *)
LEMMA NextIsLeft ==
  ASSUME NEW left \in SUBSET Slots, NEW n \in Slots
  PROVE  NextOf(n, left) \in left \cup {0}
<1>1. left \in SUBSET Nat
  BY DEF Slots
<1>2. CASE \E s \in left : s > n
  <2> DEFINE above == {s \in left : s > n}
  <2>1. above \in SUBSET Nat /\ above # {}
    BY <1>1, <1>2
  <2>2. Min(above) \in above
    <3> HIDE DEF above
    <3>1. QED
      BY <2>1, Lowest
  <2>3. QED
    BY <2>2, <1>2 DEF NextOf
<1>3. CASE left # {} /\ ~ \E s \in left : s > n
  BY <1>1, <1>3, Lowest DEF NextOf
<1>4. CASE left = {}
  BY <1>4 DEF NextOf
<1>5. QED
  BY <1>2, <1>3, <1>4

(* The elements of a document are told apart by their names.               *)
LEMMA Elements ==
  /\ Header # Footer
  /\ \A m \in Marks : m # Header /\ m # Footer
BY DEF Header, Footer, Marks, ClipPath, Shape

(* A fresh device is as it should be, whoever owns it and whatever drives  *)
(* it.                                                                     *)
LEMMA FreshDevice ==
  ASSUME NEW o \in Nat, request \in Nat
  PROVE  /\ LET d == [JKDesc EXCEPT !.owner = o]
            IN DeviceOK(d) /\ d.kind = "juniper" /\ d.owner = o
         /\ DeviceOK(UserDevice) /\ UserDevice.kind = "user"
<1>1. ASSUME NEW d \in Device, d.pageno = 0, d.doc = <<>>, d.clipid = NoRect
      PROVE  DeviceOK(d)
  BY <1>1 DEF DeviceOK, OnePage, ShapesClipped
<1>2. /\ JKDesc \in Device /\ JKDesc.kind = "juniper" /\ JKDesc.pageno = 0
      /\ JKDesc.doc = <<>> /\ JKDesc.clipid = NoRect
  BY DEF JKDesc, Device, Refs
<1>3. LET d == [JKDesc EXCEPT !.owner = o]
      IN DeviceOK(d) /\ d.kind = "juniper" /\ d.owner = o
  <2> DEFINE d == [JKDesc EXCEPT !.owner = o]
  <2>1. /\ d \in Device /\ d.kind = "juniper" /\ d.owner = o
        /\ d.pageno = 0 /\ d.doc = <<>> /\ d.clipid = NoRect
    BY <1>2, Zenon DEF Device
  <2> HIDE DEF d
  <2>2. DeviceOK(d)
    BY <1>1, <2>1
  <2>3. QED
    BY <2>1, <2>2 DEF d
<1>4. DeviceOK(UserDevice) /\ UserDevice.kind = "user"
  <2>1. /\ UserDevice \in Device /\ UserDevice.kind = "user"
        /\ UserDevice.pageno = 0 /\ UserDevice.doc = <<>>
        /\ UserDevice.clipid = NoRect
    BY <1>2, Zenon DEF UserDevice, Device
  <2>2. QED
    BY <1>1, <2>1
<1>5. QED
  BY <1>3, <1>4

(* svg_new_page keeps a device as it should be: an earlier page is dropped *)
(* as a whole, and then it is not the first page any more.                 *)
LEMMA PageKept ==
  ASSUME NEW d, DeviceOK(d)
  PROVE  /\ DeviceOK(SvgNewPage(d))
         /\ SvgNewPage(d).kind = d.kind
         /\ SvgNewPage(d).owner = d.owner
<1> DEFINE t == IF d.pageno > 0 THEN <<Header>> ELSE Append(d.doc, Header)
           f == d.firstPage /\ d.pageno = 0
           e == SvgNewPage(d)
<1>1. d \in Device /\ d.pageno \in {0, 1} /\ d.doc \in Seq({Header} \cup Marks)
  BY DEF DeviceOK, Device
<1>2. t \in Seq({Header}) /\ Len(t) = 1 /\ t[1] = Header
  <2>1. CASE d.pageno = 0
    <3>1. t = Append(d.doc, Header) /\ d.doc = <<>>
      BY <2>1 DEF DeviceOK, OnePage
    <3> HIDE DEF t
    <3>2. QED
      BY <3>1
  <2>2. CASE d.pageno = 1
    <3>1. t = <<Header>>
      BY <2>2
    <3> HIDE DEF t
    <3>2. QED
      BY <3>1
  <2>3. QED
    BY <1>1, <2>1, <2>2
<1>3. t \in Seq({Header} \cup Marks) /\ WholePage \in Refs /\ f \in BOOLEAN
  BY <1>2, RectsAssumption DEF Refs
<1>4. e = [d EXCEPT !.pageno = 1, !.clip = WholePage, !.doc = t, !.firstPage = f]
  BY DEF SvgNewPage
<1>5. /\ e \in Device
      /\ e.kind = d.kind /\ e.owner = d.owner /\ e.pageno = 1
      /\ e.clip = WholePage /\ e.clipid = d.clipid /\ e.doc = t
      /\ e.firstPage = f
  <2> HIDE DEF e, t, f
  <2>1. QED
    BY <1>1, <1>3, <1>4, Zenon DEF Device
<1>6. OnePage(e)
  BY <1>2, <1>5 DEF OnePage
<1>7. ASSUME e.firstPage PROVE ShapesClipped(e.doc) /\ InForce(e)
  <2>1. d.pageno = 0
    BY <1>5, <1>7, Zenon
  <2> HIDE DEF e, t, f
  <2>2. QED
    BY <1>2, <1>5, <2>1 DEF DeviceOK, OnePage, ShapesClipped, InForce, Header
<1>8. QED
  BY <1>5, <1>6, <1>7 DEF DeviceOK

(* svg_clip keeps a device that has a page as it should be: the new clip   *)
(* is in force.                                                            *)
LEMMA ClipKept ==
  ASSUME NEW d, DeviceOK(d), d.pageno > 0, NEW r \in Rects
  PROVE  /\ DeviceOK(SvgClip(d, r))
         /\ SvgClip(d, r).kind = d.kind
         /\ SvgClip(d, r).owner = d.owner
<1>1. CASE r = d.clip
  BY <1>1 DEF SvgClip
<1>2. CASE r # d.clip
  <2> DEFINE t == Append(d.doc, ClipPath(r))
             e == SvgClip(d, r)
  <2>1. /\ d \in Device /\ d.pageno = 1 /\ d.doc \in Seq({Header} \cup Marks)
        /\ ClipPath(r) \in Marks /\ r \in Refs
    BY DEF DeviceOK, Device, Marks, Refs
  <2>2. /\ t \in Seq({Header} \cup Marks) /\ Len(t) = Len(d.doc) + 1
        /\ t[Len(t)] = ClipPath(r)
        /\ \A k \in 1..Len(d.doc) : t[k] = d.doc[k]
    BY <2>1
  <2>3. e = [d EXCEPT !.clip = r, !.clipid = r, !.doc = t]
    BY <1>2 DEF SvgClip
  <2>4. /\ e \in Device /\ e.kind = d.kind /\ e.owner = d.owner
        /\ e.pageno = d.pageno /\ e.clip = r /\ e.clipid = r
        /\ e.doc = t /\ e.firstPage = d.firstPage
    <3> HIDE DEF e, t
    <3>1. QED
      BY <2>1, <2>2, <2>3, Zenon DEF Device
  <2> HIDE DEF e, t
  <2>5. OnePage(e)
    BY <2>1, <2>2, <2>4 DEF DeviceOK, OnePage
  <2>6. InForce(e)
    BY <2>1, <2>2, <2>4 DEF InForce
  <2>7. ASSUME e.firstPage PROVE ShapesClipped(e.doc)
    <3>1. ShapesClipped(d.doc)
      BY <2>4, <2>7, Zenon DEF DeviceOK
    <3>2. ClipPath(r).el # "shape"
      BY DEF ClipPath
    <3>3. QED
      BY <2>1, <2>2, <2>4, <3>1, <3>2 DEF ShapesClipped, ClippedAsAsked
  <2>8. QED
    BY <2>4, <2>5, <2>6, <2>7 DEF DeviceOK, e
<1>3. QED
  BY <1>1, <1>2

(* A drawing callback keeps a device that has a page as it should be.      *)
LEMMA ElementKept ==
  ASSUME NEW d, DeviceOK(d), d.pageno > 0
  PROVE  /\ DeviceOK(SvgElement(d))
         /\ SvgElement(d).kind = d.kind
         /\ SvgElement(d).owner = d.owner
<1> DEFINE m == Shape(d.clipid, d.clip)
           t == Append(d.doc, m)
           e == SvgElement(d)
<1>1. /\ d \in Device /\ d.pageno = 1 /\ d.doc \in Seq({Header} \cup Marks)
      /\ m \in Marks
  BY DEF DeviceOK, Device, Marks, Refs
<1>2. m.ref = d.clipid /\ m.in = d.clip
  BY DEF Shape
<1>3. /\ t \in Seq({Header} \cup Marks) /\ Len(t) = Len(d.doc) + 1
      /\ t[Len(t)] = m
      /\ \A k \in 1..Len(d.doc) : t[k] = d.doc[k]
  BY <1>1
<1>4. e = [d EXCEPT !.doc = t]
  BY DEF SvgElement
<1>5. /\ e \in Device /\ e.kind = d.kind /\ e.owner = d.owner
      /\ e.pageno = d.pageno /\ e.clip = d.clip /\ e.clipid = d.clipid
      /\ e.doc = t /\ e.firstPage = d.firstPage
  <2> HIDE DEF e, t, m
  <2>1. QED
    BY <1>1, <1>3, <1>4, Zenon DEF Device
<1> HIDE DEF e, t, m
<1>6. OnePage(e)
  BY <1>1, <1>3, <1>5 DEF DeviceOK, OnePage
<1>7. ASSUME e.firstPage PROVE ShapesClipped(e.doc) /\ InForce(e)
  <2>1. ShapesClipped(d.doc) /\ InForce(d)
    BY <1>1, <1>5, <1>7, Zenon DEF DeviceOK
  <2>2. InForce(e)
    BY <1>1, <1>3, <1>5, <2>1 DEF InForce
  <2>3. ClippedAsAsked(t, Len(t))
    BY <1>1, <1>2, <1>3, <2>1 DEF InForce, ClippedAsAsked
  <2>4. QED
    BY <1>1, <1>3, <1>5, <2>1, <2>2, <2>3 DEF ShapesClipped, ClippedAsAsked
<1>8. QED
  BY <1>5, <1>6, <1>7 DEF DeviceOK, e

-----------------------------------------------------------------------------
(* The devices.                                                            *)

(* svg_close publishes a well-formed document of the current request, or   *)
(* nothing.                                                                *)
LEMMA ClosePublishes ==
  ASSUME NEW d, DeviceOK(d), request \in Nat, PagesOK, SvgClose(d),
         d.kind = "juniper" => d.owner = request
  PROVE  \/ published' = published
         \/ /\ d.kind = "juniper"
            /\ \E p \in Page : /\ published' = Append(published, p)
                              /\ PageOK(p)
                              /\ p.drawn = request
<1>1. CASE ~(d.kind = "juniper" /\ d.doc # <<>>)
  BY <1>1 DEF SvgClose
<1>2. CASE d.kind = "juniper" /\ d.doc # <<>>
  <2> DEFINE t == Append(d.doc, Footer)
             p == [drawn |-> d.owner, under |-> request, doc |-> t,
                   first |-> d.firstPage]
  <2>1. /\ d.doc \in Seq({Header} \cup Marks) /\ d.pageno \in {0, 1}
        /\ d.firstPage \in BOOLEAN
    BY DEF DeviceOK, Device
  <2>2. /\ Len(d.doc) >= 1 /\ d.doc[1] = Header
        /\ \A k \in 2..Len(d.doc) : d.doc[k] \in Marks
    BY <1>2, <2>1 DEF DeviceOK, OnePage
  <2>3. /\ t \in Seq({Header, Footer} \cup Marks) /\ Len(t) = Len(d.doc) + 1
        /\ t[Len(t)] = Footer
        /\ \A k \in 1..Len(d.doc) : t[k] = d.doc[k]
    BY <2>1
  <2>4. published' = Append(published, p)
    BY <1>2 DEF SvgClose
  <2>5. /\ p.drawn = request /\ p.under = request /\ p.doc = t
        /\ p.first = d.firstPage
    BY <1>2
  <2>6. p \in Page
    <3> HIDE DEF t
    <3>1. QED
      BY <1>2, <2>1, <2>3 DEF Page
  <2> HIDE DEF t, p
  <2>7. ASSUME p.first PROVE ShapesClipped(p.doc)
    <3>1. ShapesClipped(d.doc)
      BY <2>5, <2>7, Zenon DEF DeviceOK
    <3>2. Footer.el # "shape"
      BY DEF Footer
    <3>3. QED
      BY <2>1, <2>3, <2>5, <3>1, <3>2 DEF ShapesClipped, ClippedAsAsked
  <2>8. PageOK(p)
    <3>1. Whole(p.doc)
      BY <2>1, <2>2, <2>3, <2>5 DEF Whole
    <3>2. QED
      BY <2>5, <2>7, <3>1, Zenon DEF PageOK
  <2>9. QED
    BY <1>2, <2>4, <2>5, <2>6, <2>8
<1>3. QED
  BY <1>1, <1>2

(* When R closes a device, that device is gone and the others stay as they *)
(* were, and if it was the request's own it has published for the first    *)
(* time.                                                                   *)
LEMMA KillEffect ==
  ASSUME DeviceInv, phase \in Within, request' = request, NEW n \in Slots,
         Kill(n)
  PROVE  /\ Open' = Open \ {n}
         /\ \A s \in Open' : devices'[s] = devices[s]
         /\ current' \in Open' \cup {0}
         /\ PagesOK'
         /\ \A i, j \in DOMAIN published' :
              published'[i].drawn = published'[j].drawn => i = j
         /\ \A s \in Open' : devices'[s].kind = "juniper" =>
              \A i \in DOMAIN published' : published'[i].drawn # request
<1> USE DEF DeviceInv
<1>1. CASE n \notin Open
  BY <1>1 DEF Kill, Open, DeviceTypeOK, PagesOK, Once
<1>2. CASE n \in Open
  <2>1. /\ Open' = Open \ {n}
        /\ \A s \in Open' : devices'[s] = devices[s]
    BY <1>2 DEF Kill, Open
  <2>2. current' \in Open' \cup {0}
    <3>1. Open \ {n} \in SUBSET Slots
      BY DEF DeviceTypeOK
    <3>2. NextOf(n, Open \ {n}) \in (Open \ {n}) \cup {0}
      BY <3>1, NextIsLeft
    <3>3. QED
      BY <1>2, <2>1, <3>2 DEF Kill, DeviceTypeOK
  <2>3. \/ published' = published
        \/ /\ devices[n].kind = "juniper"
           /\ \E p \in Page : /\ published' = Append(published, p)
                             /\ PageOK(p)
                             /\ p.drawn = request
    <3>1. DeviceOK(devices[n]) /\ SvgClose(devices[n]) /\ request \in Nat
      BY <1>2, DeviceBoundsAssumption DEF DevicesOK, Kill, DeviceTypeOK
    <3>2. devices[n].kind = "juniper" => devices[n].owner = request
      BY <1>2 DEF NoDeviceLeft
    <3>3. QED
      BY <3>1, <3>2, ClosePublishes
  <2>4. CASE published' = published
    <3>1. PagesOK'
      BY <2>4 DEF PagesOK
    <3>2. \A i, j \in DOMAIN published' :
            published'[i].drawn = published'[j].drawn => i = j
      BY <2>4 DEF Once
    <3>3. \A s \in Open' : devices'[s].kind = "juniper" =>
            \A i \in DOMAIN published' : published'[i].drawn # request
      BY <2>1, <2>4 DEF Once
    <3>4. QED
      BY <2>1, <2>2, <3>1, <3>2, <3>3
  <2>5. ASSUME NEW p \in Page, published' = Append(published, p), PageOK(p),
               p.drawn = request, devices[n].kind = "juniper"
        PROVE  /\ PagesOK'
               /\ \A i, j \in DOMAIN published' :
                    published'[i].drawn = published'[j].drawn => i = j
               /\ \A s \in Open' : devices'[s].kind # "juniper"
    <3>1. \A s \in Open' : devices'[s].kind # "juniper"
      BY <1>2, <2>1, <2>5 DEF NoDeviceLeft
    <3>2. \A i \in DOMAIN published : published[i].drawn # request
      BY <1>2, <2>5 DEF Once
    <3>3. /\ published \in Seq(Page) /\ published' \in Seq(Page)
          /\ Len(published') = Len(published) + 1
          /\ published'[Len(published')] = p
          /\ \A i \in 1..Len(published) : published'[i] = published[i]
      BY <2>5 DEF PagesOK
    <3>4. PagesOK'
      BY <2>5, <3>3, DeviceBoundsAssumption DEF PagesOK, DeviceTypeOK
    <3>5. \A i, j \in DOMAIN published' :
            published'[i].drawn = published'[j].drawn => i = j
      BY <2>5, <3>2, <3>3 DEF Once
    <3>6. QED
      BY <3>1, <3>4, <3>5
  <2>6. QED
    BY <2>1, <2>2, <2>3, <2>4, <2>5
<1>3. QED
  BY <1>1, <1>2

(* A drawing callback keeps the invariant if it keeps the device as it     *)
(* should be.                                                              *)
LEMMA OnCurrentInv ==
  ASSUME DeviceInv, NEW d, OnCurrent(d), DeviceOK(d),
         d.kind = devices[current].kind, d.owner = devices[current].owner
  PROVE  DeviceInv'
<1> USE DEF DeviceInv
<1>1. /\ current \in Open /\ Open' = Open /\ devices'[current] = d
      /\ \A n \in Open \ {current} : devices'[n] = devices[n]
  BY DEF OnCurrent, Open, DeviceTypeOK
<1>2. \A n \in Open : /\ devices'[n].kind = devices[n].kind
                     /\ devices'[n].owner = devices[n].owner
  BY <1>1
<1>3. UNCHANGED <<current, mine, phase, request, deviceOff, published, cellClosed>>
  BY DEF OnCurrent, Staying
<1>4. DeviceTypeOK'
  BY <1>1, <1>3 DEF DeviceTypeOK
<1>5. DevicesOK'
  BY <1>1 DEF DevicesOK
<1>6. NoDeviceLeft' /\ Kept'
  BY <1>1, <1>2, <1>3 DEF NoDeviceLeft, Kept
<1>7. PagesOK'
  BY <1>3 DEF PagesOK
<1>8. Once'
  BY <1>1, <1>2, <1>3 DEF Once
<1>9. QED
  BY <1>4, <1>5, <1>6, <1>7, <1>8

(* Opening a device puts it at its number and leaves the others.           *)
LEMMA Added ==
  ASSUME NEW d, NEW n, AddDevice(d, n), n \notin Open
  PROVE  /\ Open' = Open \cup {n} /\ devices'[n] = d
         /\ \A s \in Open : devices'[s] = devices[s]
BY DEF AddDevice, Open

(* Every step around a handler or of the client's code keeps the device    *)
(* invariant. One case per action.                                         *)
LEMMA DeviceStep ==
  DeviceInv /\ [DeviceNext]_deviceVars => DeviceInv'
<1> SUFFICES ASSUME DeviceInv, [DeviceNext]_deviceVars PROVE DeviceInv'
  OBVIOUS
<1> USE DEF DeviceInv, Within
<1> USE DeviceBoundsAssumption
<1>1. CASE OpenRequestDevice
  <2>1. /\ phase = "between" /\ phase' = "setup" /\ request' = request + 1
        /\ request' \in 0..MaxHandled /\ cellClosed' = FALSE
        /\ UNCHANGED <<deviceOff, published>>
    BY <1>1 DEF OpenRequestDevice, DeviceTypeOK
  <2>2. \A n \in Open : devices[n].kind # "juniper"
    BY <2>1 DEF NoDeviceLeft
  <2>3. PagesOK' /\ \A i \in DOMAIN published : published[i].drawn # request'
    <3>1. ASSUME NEW i \in DOMAIN published PROVE published[i].drawn \in Nat
      <4>1. published[i] \in Page
        BY DEF PagesOK
      <4>2. QED
        BY <4>1, Zenon DEF Page
    <3>2. QED
      BY <2>1, <3>1 DEF PagesOK, DeviceTypeOK
  <2>4. Once'
    BY <2>1, <2>3 DEF Once
  <2>5. CASE deviceOff
    <3>1. mine' = 0 /\ UNCHANGED <<devices, current>>
      BY <1>1, <2>5 DEF OpenRequestDevice
    <3>2. QED
      BY <2>1, <2>2, <2>3, <2>4, <3>1
      DEF DeviceTypeOK, DevicesOK, NoDeviceLeft, Kept, Open
  <2>6. CASE ~deviceOff
    <3> DEFINE n == Min(FreeSlots)
               d == [JKDesc EXCEPT !.owner = request + 1]
    <3>1. FreeSlots # {} /\ AddDevice(d, n) /\ mine' = n /\ current' = n
      BY <1>1, <2>6 DEF OpenRequestDevice
    <3>2. n \in Slots /\ n \notin Open /\ n # 0
      BY <3>1, LowestFree DEF FreeSlots, Slots
    <3>3. DeviceOK(d) /\ d.kind = "juniper" /\ d.owner = request'
      <4>1. request \in Nat /\ request + 1 \in Nat
        BY DEF DeviceTypeOK
      <4>2. QED
        BY <2>1, <4>1, FreshDevice
    <3> HIDE DEF n, d
    <3>4. /\ Open' = Open \cup {n} /\ devices'[n] = d
          /\ \A s \in Open : devices'[s] = devices[s]
      BY <3>1, <3>2, Added
    <3>5. DeviceTypeOK'
      BY <2>1, <3>1, <3>2, <3>4 DEF DeviceTypeOK
    <3>6. DevicesOK' /\ NoDeviceLeft' /\ Kept'
      BY <2>1, <2>2, <3>1, <3>2, <3>3, <3>4 DEF DevicesOK, NoDeviceLeft, Kept
    <3>7. QED
      BY <2>3, <2>4, <3>5, <3>6
  <2>7. QED
    BY <2>5, <2>6 DEF DeviceTypeOK
<1>2. CASE Plot
  <2>1. current \in Open
    BY <1>2 DEF Plot, OnCurrent, DeviceTypeOK
  <2>2. QED
    BY <1>2, <2>1, PageKept, OnCurrentInv DEF Plot, DevicesOK
<1>3. CASE Clip
  <2>1. PICK r \in Rects : /\ current # 0 => HasPage(current)
                           /\ OnCurrent(SvgClip(devices[current], r))
    BY <1>3 DEF Clip
  <2>2. current \in Open /\ devices[current].pageno > 0
    BY <2>1 DEF OnCurrent, DeviceTypeOK, HasPage
  <2>3. QED
    BY <2>1, <2>2, ClipKept, OnCurrentInv DEF DevicesOK
<1>4. CASE Draw
  <2>1. current \in Open /\ devices[current].pageno > 0
    BY <1>4 DEF Draw, OnCurrent, DeviceTypeOK, HasPage
  <2>2. QED
    BY <1>4, <2>1, ElementKept, OnCurrentInv DEF Draw, DevicesOK
<1>5. CASE OpenUserDevice
  <2> DEFINE n == Min(FreeSlots)
             d == UserDevice
  <2>1. /\ phase = "handler" /\ FreeSlots # {} /\ AddDevice(d, n)
        /\ current' = n
        /\ UNCHANGED <<mine, phase, request, deviceOff, published, cellClosed>>
    BY <1>5 DEF OpenUserDevice, Staying
  <2>2. n \in Slots /\ n \notin Open
    BY <2>1, LowestFree DEF FreeSlots
  <2>3. DeviceOK(d) /\ d.kind = "user"
    <3>1. request \in Nat
      BY DEF DeviceTypeOK
    <3>2. QED
      BY <3>1, FreshDevice
  <2> HIDE DEF n, d
  <2>4. /\ Open' = Open \cup {n} /\ devices'[n] = d
        /\ \A s \in Open : devices'[s] = devices[s]
    BY <2>1, <2>2, Added
  <2>5. DeviceTypeOK'
    BY <2>1, <2>2, <2>4 DEF DeviceTypeOK
  <2>6. DevicesOK' /\ NoDeviceLeft' /\ Kept'
    BY <2>1, <2>2, <2>3, <2>4 DEF DevicesOK, NoDeviceLeft, Kept
  <2>7. PagesOK' /\ Once'
    BY <2>1, <2>2, <2>3, <2>4 DEF PagesOK, Once
  <2>8. QED
    BY <2>5, <2>6, <2>7
<1>6. CASE CloseDevice
  <2>1. /\ phase = "handler" /\ current \in Open /\ current \in Slots
        /\ Kill(current) /\ cellClosed' = (cellClosed \/ current = mine)
        /\ UNCHANGED <<mine, phase, request, deviceOff>>
    BY <1>6 DEF CloseDevice, Staying, DeviceTypeOK
  <2>2. /\ Open' = Open \ {current}
        /\ \A s \in Open' : devices'[s] = devices[s]
        /\ current' \in Open' \cup {0}
        /\ PagesOK'
        /\ \A i, j \in DOMAIN published' :
             published'[i].drawn = published'[j].drawn => i = j
        /\ \A s \in Open' : devices'[s].kind = "juniper" =>
             \A i \in DOMAIN published' : published'[i].drawn # request
    BY <2>1, KillEffect
  <2>3. DeviceTypeOK'
    BY <2>1, <2>2 DEF DeviceTypeOK
  <2>4. DevicesOK' /\ NoDeviceLeft'
    BY <2>1, <2>2 DEF DevicesOK, NoDeviceLeft
  <2>5. Kept'
    BY <2>1, <2>2 DEF Kept, DeviceTypeOK
  <2>6. Once'
    BY <2>1, <2>2 DEF Once
  <2>7. QED
    BY <2>2, <2>3, <2>4, <2>5, <2>6
<1>7. CASE SelectDevice
  BY <1>7 DEF SelectDevice, Staying, DeviceTypeOK, DevicesOK, NoDeviceLeft,
     Kept, PagesOK, Once, Open
<1>8. CASE ToggleDevice
  BY <1>8 DEF ToggleDevice, Staying, DeviceTypeOK, DevicesOK, NoDeviceLeft,
     Kept, PagesOK, Once, Open
<1>9. CASE CloseRequestDevice
  <2>1. /\ phase \in Within /\ phase' \in {"between", "quitting"}
        /\ UNCHANGED <<mine, deviceOff, request, cellClosed>>
    BY <1>9 DEF CloseRequestDevice
  <2>2. CASE mine = 0
    <3>1. UNCHANGED <<devices, current, published>>
      BY <1>9, <2>2 DEF CloseRequestDevice
    <3>2. \A n \in Open : devices[n].kind # "juniper"
      <4>1. 0 \notin Open
        BY DEF DeviceTypeOK, Slots
      <4>2. QED
        BY <2>2, <4>1, Zenon DEF NoDeviceLeft
    <3>3. Open' = Open /\ phase' \notin Within
      BY <2>1, <3>1 DEF Open
    <3>4. DeviceTypeOK' /\ DevicesOK' /\ PagesOK'
      BY <2>1, <3>1, <3>3 DEF DeviceTypeOK, DevicesOK, PagesOK
    <3>5. NoDeviceLeft' /\ Kept' /\ Once'
      BY <3>1, <3>2, <3>3 DEF NoDeviceLeft, Kept, Once
    <3>6. QED
      BY <3>4, <3>5
  <2>3. CASE mine # 0
    <3>1. Kill(mine) /\ mine \in Slots
      BY <1>9, <2>3 DEF CloseRequestDevice, DeviceTypeOK
    <3>2. /\ Open' = Open \ {mine}
          /\ \A s \in Open' : devices'[s] = devices[s]
          /\ current' \in Open' \cup {0}
          /\ PagesOK'
          /\ \A i, j \in DOMAIN published' :
               published'[i].drawn = published'[j].drawn => i = j
      BY <2>1, <3>1, KillEffect
    <3>3. DeviceTypeOK'
      BY <2>1, <3>2 DEF DeviceTypeOK
    <3>4. DevicesOK' /\ NoDeviceLeft' /\ Kept' /\ Once'
      BY <2>1, <3>2 DEF DevicesOK, NoDeviceLeft, Kept, Once
    <3>5. QED
      BY <3>2, <3>3, <3>4
  <2>4. QED
    BY <2>2, <2>3
<1>10. CASE CallHandler \/ EndHandler \/ LoopEnds \/ Uncaught \/ Quit
  <2>1. /\ phase' \in Within \cup {"quitting", "aborting"}
        /\ phase' \in Within => phase \in Within
        /\ phase' = "quitting" => phase = "between"
        /\ UNCHANGED <<devices, current, mine, deviceOff, request, published,
                       cellClosed>>
    BY <1>10
    DEF CallHandler, EndHandler, LoopEnds, Uncaught, Quit, GoesTo
  <2>2. QED
    BY <2>1
    DEF DeviceTypeOK, DevicesOK, NoDeviceLeft, Kept, PagesOK, Once, Open
<1>11. CASE KillAllDevices
  <2>1. Open' = {}
    BY <1>11 DEF KillAllDevices, Open
  <2>2. QED
    BY <1>11, <2>1
    DEF KillAllDevices, DeviceTypeOK, DevicesOK, NoDeviceLeft, Kept, PagesOK, Once
<1>12. CASE UNCHANGED deviceVars
  BY <1>12 DEF deviceVars, DeviceTypeOK, DevicesOK, NoDeviceLeft, Kept,
     PagesOK, Once, Open
<1>13. QED
  BY <1>1, <1>2, <1>3, <1>4, <1>5, <1>6, <1>7, <1>8, <1>9, <1>10, <1>11, <1>12
  DEF DeviceNext, Drawing, ListOfDevices, Request, Exit

-----------------------------------------------------------------------------
(* The comms.                                                              *)

(* An object that is made is found under its id, and the others stay found *)
(* or have lost their id to it.                                            *)
LEMMA Made ==
  ASSUME CommInv, NEW t, NEW id \in Ids, Make(t, id), closed' = closed
  PROVE  CommInv'
<1> DEFINE o == [id |-> id, target |-> t]
<1> USE DEF CommInv
<1>0. PICK n \in Nat : n = Len(given) + 1
  OBVIOUS
<1>1. /\ given' \in Seq(Ids) /\ Len(given') = n /\ given'[n] = id
      /\ \A k \in 1..Len(given) : given'[k] = given[k]
      /\ n \notin 1..Len(given) /\ n \in 1..n /\ 1..Len(given) \subseteq 1..n
      /\ DOMAIN given = 1..Len(given) /\ DOMAIN given' = 1..n
  BY <1>0 DEF Make
<1>2. /\ DOMAIN objects' = DOMAIN objects \cup {n} /\ objects'[n] = o
      /\ \A k \in DOMAIN objects : objects'[k] = objects[k]
  BY <1>0, <1>1 DEF Make, With, Fresh
<1>3. /\ DOMAIN comms' = DOMAIN comms \cup {id} /\ comms'[id] = n
      /\ \A i \in DOMAIN comms \ {id} : comms'[i] = comms[i]
  BY <1>0 DEF Make, With, Fresh
<1>4. o.id = id
  OBVIOUS
<1> HIDE DEF o
<1>5. CommsAlive'
  BY <1>2, <1>3, <1>4 DEF CommsAlive
<1>6. Found(n)'
  BY <1>1, <1>3 DEF Found
<1>7. ASSUME NEW k \in DOMAIN objects PROVE Found(k)'
  <2>1. k \in 1..Len(given) /\ k # n /\ given'[k] = given[k] /\ Found(k)
    BY <1>1
  <2>2. CASE given[k] = id
    BY <1>1, <2>1, <2>2 DEF Found
  <2>3. CASE given[k] # id
    <3>1. CASE k \in closed
      BY <3>1 DEF Found
    <3>2. CASE \E j \in DOMAIN given : j # k /\ given[j] = given[k]
      BY <1>1, <2>1, <3>2 DEF Found
    <3>3. CASE given[k] \in DOMAIN comms /\ comms[given[k]] = k
      BY <1>3, <2>1, <2>3, <3>3 DEF Found
    <3>4. QED
      BY <2>1, <3>1, <3>2, <3>3 DEF Found
  <2>4. QED
    BY <2>2, <2>3
<1>8. QED
  BY <1>1, <1>2, <1>4, <1>5, <1>6, <1>7

(* An id is unregistered, with its object or without: of the other objects *)
(* only those of the same id can be lost, which two objects have had then. *)
LEMMA Unregistered ==
  ASSUME CommInv, NEW k \in DOMAIN objects, given' = given,
         comms' = Without(comms, objects[k].id),
         closed \subseteq closed',
         \/ objects' = Without(objects, k)
         \/ objects' = objects /\ k \in closed'
  PROVE  CommInv'
<1> USE DEF CommInv
<1>1. /\ DOMAIN objects' \subseteq DOMAIN objects
      /\ \A j \in DOMAIN objects' : objects'[j] = objects[j]
      /\ \A j \in DOMAIN objects \ {k} : j \in DOMAIN objects'
      /\ k \in DOMAIN objects' => k \in closed'
  BY DEF Without
<1>2. /\ DOMAIN comms' = DOMAIN comms \ {given[k]}
      /\ \A i \in DOMAIN comms' : comms'[i] = comms[i]
  BY DEF Without
<1>3. CommsAlive'
  BY <1>1, <1>2 DEF CommsAlive
<1>4. ASSUME NEW j \in DOMAIN objects' PROVE Found(j)'
  <2>1. j \in DOMAIN objects /\ j \in DOMAIN given /\ k \in DOMAIN given
    BY <1>1
  <2>2. Found(j)
    BY <2>1
  <2>3. CASE j = k
    BY <1>1, <2>3 DEF Found
  <2>4. CASE j # k /\ given[j] = given[k]
    BY <2>1, <2>4 DEF Found
  <2>5. CASE given[j] # given[k]
    BY <1>2, <2>2, <2>5 DEF Found
  <2>6. QED
    BY <2>3, <2>4, <2>5
<1>5. QED
  BY <1>1, <1>3, <1>4

(* An object that is made and destroyed in a callback takes its id with    *)
(* it: an object that had it before has shared it.                         *)
LEMMA MadeAndDropped ==
  ASSUME CommInv, NEW id \in Ids, given' = Append(given, id),
         comms' = Without(comms, id), objects' = objects, closed' = closed
  PROVE  CommInv'
<1> USE DEF CommInv
<1>1. /\ given' \in Seq(Ids)
      /\ DOMAIN given = 1..Len(given)
      /\ DOMAIN given' = 1..(Len(given) + 1)
      /\ Len(given') = Len(given) + 1
      /\ given'[Len(given) + 1] = id
      /\ \A k \in 1..Len(given) : given'[k] = given[k]
  OBVIOUS
<1>2. /\ DOMAIN comms' = DOMAIN comms \ {id}
      /\ \A i \in DOMAIN comms' : comms'[i] = comms[i]
  BY DEF Without
<1>3. CommsAlive'
  BY <1>2 DEF CommsAlive
<1>4. ASSUME NEW k \in DOMAIN objects PROVE k \in 1..Len(given') /\ Found(k)'
  <2>1. k \in 1..Len(given) /\ given'[k] = given[k] /\ Found(k)
    BY <1>1
  <2>2. CASE given[k] = id
    <3>1. Len(given) + 1 \in DOMAIN given' /\ Len(given) + 1 # k
      BY <1>1, <2>1
    <3>2. QED
      BY <1>1, <2>1, <2>2, <3>1 DEF Found
  <2>3. CASE given[k] # id
    BY <1>1, <1>2, <2>1, <2>3 DEF Found
  <2>4. QED
    BY <1>1, <2>1, <2>2, <2>3
<1>5. QED
  BY <1>1, <1>3, <1>4

(* Whatever packages and clients do with comms keeps the comm invariant.   *)
(* One case per action.                                                    *)
LEMMA CommStep ==
  CommInv /\ [CommNext]_commVars => CommInv'
<1> SUFFICES ASSUME CommInv, [CommNext]_commVars PROVE CommInv'
  OBVIOUS
<1>1. ASSUME UNCHANGED <<comms, objects, given, closed>>
      PROVE  CommInv'
  BY <1>1 DEF CommInv, CommsAlive, Found
<1>2. ASSUME NEW t \in Targets, RegisterTarget(t) \/ UnregisterTarget(t)
      PROVE  CommInv'
  BY <1>1, <1>2 DEF RegisterTarget, UnregisterTarget
<1>3. ASSUME NEW t \in Targets, NEW id \in Ids, NewComm(t, id)
      PROVE  CommInv'
  BY <1>3, Made DEF NewComm
<1>4. ASSUME NEW t \in Targets, NEW id \in Ids, CommOpen(t, id)
      PROVE  CommInv'
  <2>1. CASE OpenUnknown(t)
    BY <1>1, <2>1 DEF OpenUnknown
  <2>2. CASE OpenKept(t, id)
    BY <2>2, Made DEF OpenKept
  <2>3. CASE OpenDropped(t, id)
    BY <2>3, MadeAndDropped DEF OpenDropped
  <2>4. CASE Dies
    BY <1>1, <2>4 DEF Dies
  <2>5. QED
    BY <1>4, <2>1, <2>2, <2>3, <2>4 DEF CommOpen
<1>5. ASSUME NEW k \in DOMAIN objects, DropComm(k)
      PROVE  CommInv'
  BY <1>5, Unregistered DEF DropComm
<1>6. ASSUME NEW id \in Ids, CommMsg(id) \/ CommClose(id)
      PROVE  CommInv'
  <2>1. CASE Dies
    BY <1>1, <2>1 DEF Dies
  <2>2. CASE ~Dies /\ CommMsg(id)
    BY <1>1, <2>2 DEF CommMsg
  <2>3. CASE ~Dies /\ CommClose(id)
    <3>1. /\ id \in DOMAIN comms
          /\ objects' = objects \/ objects' = Without(objects, comms[id])
          /\ comms' = Without(comms, id)
          /\ closed' = closed \cup {comms[id]} /\ given' = given
      BY <2>3 DEF CommClose
    <3>2. comms[id] \in DOMAIN objects /\ objects[comms[id]].id = id
      BY <3>1 DEF CommInv, CommsAlive
    <3>3. QED
      BY <3>1, <3>2, Unregistered
  <2>4. QED
    BY <1>6, <2>1, <2>2, <2>3
<1>7. CASE UNCHANGED commVars
  BY <1>1, <1>7 DEF commVars
<1>8. QED
  BY <1>2, <1>3, <1>4, <1>5, <1>6, <1>7 DEF CommNext

-----------------------------------------------------------------------------
(* Requests.                                                               *)

(* A fresh kernel has no device, no comm and nothing published.            *)
LEMMA InitInv == HandlersInit => Inv
<1> SUFFICES ASSUME HandlersInit PROVE Inv
  OBVIOUS
<1>1. Open = {}
  BY DEF HandlersInit, DeviceInit, Open
<1>2. DeviceInv
  <2>1. /\ current = 0 /\ mine = 0 /\ deviceOff = FALSE /\ phase = "between"
        /\ request = 0 /\ published = <<>> /\ cellClosed = FALSE
    BY DEF HandlersInit, DeviceInit
  <2>2. DeviceTypeOK
    <3>1. Open \subseteq Slots /\ current \in Open \cup {0}
      BY <1>1, <2>1
    <3>2. mine \in Slots \cup {0} /\ request \in 0..MaxHandled
      BY <2>1, DeviceBoundsAssumption
    <3>3. deviceOff \in BOOLEAN /\ cellClosed \in BOOLEAN
      BY <2>1
    <3>4. QED
      BY <2>1, <3>1, <3>2, <3>3 DEF DeviceTypeOK
  <2>3. /\ DevicesOK
        /\ NoDeviceLeft
        /\ Kept
    BY <1>1, <2>1 DEF DevicesOK, NoDeviceLeft, Kept
  <2>4. PagesOK /\ Once
    <3>1. published \in Seq(Page) /\ DOMAIN published = {}
      BY <2>1
    <3>2. QED
      BY <1>1, <3>1 DEF PagesOK, Once
  <2>5. QED
    BY <2>2, <2>3, <2>4 DEF DeviceInv
<1>3. CommInv
  BY DEF HandlersInit, CommInit, CommInv, CommsAlive
<1>4. QED
  BY <1>2, <1>3 DEF Inv

(* A step of a request is a step of the devices, a step of the comms, or   *)
(* the end of the process in a comm request, which closes nothing.         *)
LEMMA NextInv == Inv /\ [HandlersNext]_handlerVars => Inv'
<1> SUFFICES ASSUME Inv, [HandlersNext]_handlerVars PROVE Inv'
  OBVIOUS
<1> USE DEF Inv
<1>1. CASE Around
  BY <1>1, DeviceStep, CommStep DEF Around, DeviceNext
<1>2. CASE UserCode
  BY <1>2, DeviceStep, CommStep DEF UserCode, DeviceNext, CommNext
<1>3. CASE CommRequest
  <2>1. CommInv'
    BY <1>3, CommStep DEF CommRequest, CommNext
  <2>2. /\ phase = "handler" /\ phase' \in {"handler", "gone"}
        /\ UNCHANGED <<devices, current, mine, deviceOff, request, published,
                       cellClosed>>
    BY <1>3 DEF CommRequest
  <2>3. DeviceInv'
    BY <2>2 DEF DeviceInv, DeviceTypeOK, DevicesOK, NoDeviceLeft, Kept,
       PagesOK, Once, Open, Within
  <2>4. QED
    BY <2>1, <2>3
<1>4. CASE UNCHANGED handlerVars
  <2>1. UNCHANGED deviceVars /\ UNCHANGED commVars
    BY <1>4 DEF handlerVars
  <2>2. QED
    BY <2>1, DeviceStep, CommStep
<1>5. QED
  BY <1>1, <1>2, <1>3, <1>4 DEF HandlersNext, Gone

(* The inductive invariant, of any number of requests, devices and comms.  *)
THEOREM Inductive == HandlersSpec => []Inv
BY InitInv, NextInv, PTL DEF HandlersSpec

(* The devices' variables keep their types; in particular the current      *)
(* device is always one that is open.                                      *)
THEOREM DeviceTypes == HandlersSpec => []DeviceTypeOK
<1>1. Inv => DeviceTypeOK
  BY DEF Inv, DeviceInv
<1>2. QED
  BY <1>1, Inductive, PTL

(* A request that draws is answered with one page of its own, whatever its *)
(* code does with pages and devices.                                       *)
THEOREM OnePageEachRequest == HandlersSpec => []OnePageEach
<1>1. Inv => OnePageEach
  <2> SUFFICES ASSUME Inv, NEW i \in DOMAIN published
               PROVE  LET doc == published[i].doc IN
                      /\ published[i].drawn = published[i].under
                      /\ \A j \in DOMAIN published :
                           published[i].drawn = published[j].drawn => i = j
                      /\ Len(doc) >= 2
                      /\ \A k \in DOMAIN doc : /\ doc[k] = Header <=> k = 1
                                               /\ doc[k] = Footer <=> k = Len(doc)
    BY DEF OnePageEach
  <2> DEFINE doc == published[i].doc
  <2>1. /\ published[i] \in Page /\ PageOK(published[i])
        /\ \A j \in DOMAIN published :
             published[i].drawn = published[j].drawn => i = j
    BY DEF Inv, DeviceInv, PagesOK, Once
  <2>2. doc \in Seq({Header, Footer} \cup Marks)
    BY <2>1, Zenon DEF Page
  <2>3. published[i].drawn = published[i].under /\ Whole(doc)
    BY <2>1, Zenon DEF PageOK
  <2> HIDE DEF doc
  <2>4. /\ Len(doc) >= 2
        /\ \A k \in DOMAIN doc : /\ doc[k] = Header <=> k = 1
                                 /\ doc[k] = Footer <=> k = Len(doc)
    BY <2>2, <2>3, Elements DEF Whole
  <2>5. QED
    BY <2>1, <2>3, <2>4 DEF doc
<1>2. QED
  BY <1>1, Inductive, PTL

(* A device of the kernel is open only while its request is handled, or at *)
(* R's exit if R was left from inside that request past its finally.       *)
THEOREM NoneLeft == HandlersSpec => []NoDeviceLeft
<1>1. Inv => NoDeviceLeft
  BY DEF Inv, DeviceInv
<1>2. QED
  BY <1>1, Inductive, PTL

(* On the first page of any device every shape is clipped to what R asked  *)
(* for.                                                                    *)
THEOREM FirstPages == HandlersSpec => []FirstPageClipped
<1>1. Inv => FirstPageClipped
  <2> SUFFICES ASSUME Inv, NEW i \in DOMAIN published, published[i].first
               PROVE  ShapesClipped(published[i].doc)
    BY DEF FirstPageClipped, Clipped, ShapesClipped
  <2>1. PageOK(published[i])
    BY DEF Inv, DeviceInv, PagesOK
  <2>2. QED
    BY <2>1, Zenon DEF PageOK
<1>2. QED
  BY <1>1, Inductive, PTL

(* The finally leaves every device of another package open, unless the     *)
(* cell has closed the request's own.                                      *)
THEOREM OthersStay == HandlersSpec => OthersStayOpen
<1>1. ASSUME Inv, CloseRequestDevice, ~cellClosed, NEW n \in Open,
             devices[n].kind = "user"
      PROVE  n \in DOMAIN devices' /\ devices'[n] = devices[n]
  <2>1. phase \in Within /\ request' = request
    BY <1>1 DEF CloseRequestDevice, Within
  <2>2. CASE mine = 0
    BY <1>1, <2>2 DEF CloseRequestDevice, Open
  <2>3. CASE mine # 0
    <3>1. Kill(mine) /\ mine \in Slots /\ n # mine
      BY <1>1, <2>1, <2>3
      DEF CloseRequestDevice, Inv, DeviceInv, DeviceTypeOK, Kept
    <3>2. Open' = Open \ {mine} /\ \A s \in Open' : devices'[s] = devices[s]
      BY <1>1, <2>1, <3>1, KillEffect DEF Inv
    <3>3. QED
      BY <3>1, <3>2 DEF Open
  <2>4. QED
    BY <2>2, <2>3
<1>2. Inv /\ [HandlersNext]_handlerVars =>
        [CloseRequestDevice /\ ~cellClosed
           => \A n \in Open : devices[n].kind = "user"
                 => n \in DOMAIN devices' /\ devices'[n] = devices[n]]_deviceVars
  BY <1>1
<1>3. QED
  BY <1>2, Inductive, PTL DEF HandlersSpec, OthersStayOpen

(* Every registered comm id leads to a living comm with that id, for any   *)
(* number of targets, ids and comms.                                       *)
THEOREM Alive == HandlersSpec => []CommsAlive
<1>1. Inv => CommsAlive
  BY DEF Inv, CommInv
<1>2. QED
  BY <1>1, Inductive, PTL

(* A comm that a package holds is found under its id and named for its     *)
(* target, unless it was closed by the client or its id was given twice,   *)
(* for any number of targets, ids and comms.                               *)
THEOREM FoundAgain == HandlersSpec => []CommsFound
<1>1. Inv => CommsFound
  <2> SUFFICES ASSUME CommInv, NEW k \in DOMAIN objects, k \notin closed,
                      ~ \E j \in DOMAIN given : j # k /\ given[j] = given[k]
               PROVE  /\ given[k] \in FilterComms(objects[k].target)
                      /\ given[k] \in FilterComms("")
                      /\ comms[given[k]] = k
    BY DEF Inv, CommsFound
  <2>1. given[k] \in DOMAIN comms /\ comms[given[k]] = k
    BY DEF CommInv, Found
  <2>2. QED
    BY <2>1 DEF FilterComms
<1>2. QED
  BY <1>1, Inductive, PTL
=============================================================================
