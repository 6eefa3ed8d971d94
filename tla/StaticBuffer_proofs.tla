------------------------ MODULE StaticBuffer_proofs ------------------------
(***************************************************************************)
(* Proofs about StaticBuffer for every number of blocks and frames: the    *)
(* inductive invariant of the frame table and the refinement of BlockStore.*)
(***************************************************************************)
EXTENDS StaticBuffer, SequenceLemmas, TLAPS

-----------------------------------------------------------------------------
(* The invariants as predicates of a frame table m, an allocation map al,  *)
(* frame contents by and a run copy d, so that they can be stated of the   *)
(* intermediate tables of an action.                                       *)

Typed(m) == m \in [Frames -> FrameInfo]

LiveOnce(m, al) ==
  \A f \in Frames : ~m[f].free =>
    /\ m[f].blockNum \in Block
    /\ al[m[f].blockNum] \in ClientType
    /\ \A g \in Frames : ~m[g].free /\ m[g].blockNum = m[f].blockNum => g = f

StaleAbove(m, al) ==
  \A f \in Frames :
    m[f].free /\ m[f].blockNum \in Block /\ al[m[f].blockNum] \in ClientType
      => \E g \in Frames : g < f /\ ~m[g].free /\ m[g].blockNum = m[f].blockNum

Stamped(m) ==
  /\ \A f \in Frames : ~m[f].free => m[f].timeStamp >= 0
  /\ \A f, g \in Frames :
       ~m[f].free /\ ~m[g].free /\ m[f].timeStamp = m[g].timeStamp => f = g

Sound(m, al) ==
  Typed(m) /\ LiveOnce(m, al) /\ StaleAbove(m, al) /\ Stamped(m)

Clean(m, by, d) ==
  \A f \in Frames : ~m[f].free /\ ~m[f].dirty => by[f] = d[m[f].blockNum]

\* frame f is live, dirty and carries block b
Holds(m, f, b) == ~m[f].free /\ m[f].dirty /\ m[f].blockNum = b

\* While a single index block is being filled its frame is the last one used,
\* so the block whose header is set next cannot push it out.
FillingRecent ==
  \A b \in filling : filling = {b} =>
    \E f \in Frames : Holds(metainfo, f, b) /\ metainfo[f].timeStamp = 0

\* The inductive invariant.
Inv ==
  /\ TypeOK
  /\ Sound(metainfo, blockAllocMap)
  /\ Clean(metainfo, blocks, disk)
  /\ FillingDirty
  /\ FillingRecent

-----------------------------------------------------------------------------
(* Lookups.                                                                *)

\* getBufferNum finds the live frame of an owned block.
LEMMA LookupLive ==
  ASSUME NEW m, NEW al, Sound(m, al),
         NEW b \in Block, al[b] \in ClientType,
         NEW g \in Frames, ~m[g].free, m[g].blockNum = b
  PROVE  getBufferNum(m, b) = g
<1> DEFINE P(f) == /\ m[f].blockNum = b
                   /\ \A h \in Frames : m[h].blockNum = b => f <= h
<1>1. P(g)
  <2> SUFFICES ASSUME NEW h \in Frames, m[h].blockNum = b
               PROVE  g <= h
    OBVIOUS
  <2>1. CASE m[h].free
    BY <2>1 DEF Sound, LiveOnce, StaleAbove, Typed, FrameInfo, Frames
  <2>2. CASE ~m[h].free
    BY <2>2 DEF Sound, LiveOnce, Frames
  <2> QED BY <2>1, <2>2
<1>2. \A f \in Frames : P(f) => f = g
  BY <1>1 DEF Frames
<1>3. getBufferNum(m, b) = CHOOSE f \in Frames : P(f)
  BY DEF getBufferNum
<1> QED BY <1>1, <1>2, <1>3

\* getBufferNum finds nothing for an owned block without a live frame.
LEMMA LookupNone ==
  ASSUME NEW m, NEW al, Sound(m, al),
         NEW b \in Block, al[b] \in ClientType,
         \A g \in Frames : ~m[g].free => m[g].blockNum # b
  PROVE  /\ getBufferNum(m, b) = E_BLOCKNOTINBUFFER
         /\ \A g \in Frames : m[g].blockNum # b
  BY DEF Sound, StaleAbove, Typed, FrameInfo, getBufferNum

\* getBufferNum finds a frame for every block that a frame carries.
LEMMA LookupCarried ==
  ASSUME NEW m, NEW b, \E f \in Frames : m[f].blockNum = b
  PROVE  getBufferNum(m, b) \in Frames
<1> DEFINE S == {f \in Frames : m[f].blockNum = b}
<1>1. S \subseteq Nat /\ S # {}
  BY BufferAssumption DEF Frames
<1>2. PICK f \in S : \A g \in S : f <= g
  <2> HIDE DEF S
  <2> QED BY <1>1, LeastNumber
<1> QED BY <1>2 DEF getBufferNum

\* Setting the dirty bit of any block keeps everything but dirty bits.
LEMMA SetDirty ==
  ASSUME NEW m, Typed(m), NEW b
  PROVE  /\ Typed(setDirtyBit(m, b))
         /\ \A f \in Frames :
              /\ setDirtyBit(m, b)[f].free = m[f].free
              /\ setDirtyBit(m, b)[f].blockNum = m[f].blockNum
              /\ setDirtyBit(m, b)[f].timeStamp = m[f].timeStamp
              /\ m[f].dirty => setDirtyBit(m, b)[f].dirty
              /\ f = getBufferNum(m, b) => setDirtyBit(m, b)[f].dirty
<1> DEFINE n == getBufferNum(m, b)
<1> HIDE DEF n
<1>1. CASE n = E_BLOCKNOTINBUFFER
  BY <1>1 DEF setDirtyBit, Typed, n, E_BLOCKNOTINBUFFER, Frames
<1>2. CASE n # E_BLOCKNOTINBUFFER
  <2>1. setDirtyBit(m, b) = [m EXCEPT ![n].dirty = TRUE]
    BY <1>2 DEF setDirtyBit, n
  <2>2. \A f \in Frames : m[f] \in FrameInfo
    BY DEF Typed
  <2>3. \A f \in Frames :
          setDirtyBit(m, b)[f] = IF f = n THEN [m[f] EXCEPT !.dirty = TRUE]
                                          ELSE m[f]
    BY <2>1 DEF Typed
  <2>4. \A f \in Frames :
          /\ setDirtyBit(m, b)[f] \in FrameInfo
          /\ setDirtyBit(m, b)[f].free = m[f].free
          /\ setDirtyBit(m, b)[f].blockNum = m[f].blockNum
          /\ setDirtyBit(m, b)[f].timeStamp = m[f].timeStamp
          /\ m[f].dirty => setDirtyBit(m, b)[f].dirty
          /\ f = n => setDirtyBit(m, b)[f].dirty
    BY <2>2, <2>3 DEF FrameInfo
  <2>5. DOMAIN setDirtyBit(m, b) = Frames
        /\ setDirtyBit(m, b) = [f \in Frames |-> setDirtyBit(m, b)[f]]
    BY <2>1 DEF Typed
  <2>6. Typed(setDirtyBit(m, b))
    BY <2>4, <2>5 DEF Typed
  <2> QED BY <2>4, <2>6 DEF n
<1> QED BY <1>1, <1>2

\* Soundness does not depend on dirty bits.
LEMMA SetDirtySound ==
  ASSUME NEW m, NEW al, Sound(m, al), NEW b
  PROVE  Sound(setDirtyBit(m, b), al)
<1> DEFINE s == setDirtyBit(m, b)
<1>1. Typed(s) /\ \A f \in Frames : /\ s[f].free = m[f].free
                                    /\ s[f].blockNum = m[f].blockNum
                                    /\ s[f].timeStamp = m[f].timeStamp
  BY SetDirty DEF Sound
<1> HIDE DEF s
<1>2. LiveOnce(s, al)   BY <1>1 DEF Sound, LiveOnce
<1>3. StaleAbove(s, al) BY <1>1 DEF Sound, StaleAbove
<1>4. Stamped(s)        BY <1>1 DEF Sound, Stamped
<1> QED BY <1>1, <1>2, <1>3, <1>4 DEF Sound, s

\* Loading a frame any number of times only moves timestamps.
LEMMA TouchFields ==
  ASSUME NEW m, Typed(m), NEW n, NEW k \in Nat \ {0}
  PROVE  /\ Typed(Touch(m, n, k))
         /\ \A f \in Frames :
              /\ Touch(m, n, k)[f].free = m[f].free
              /\ Touch(m, n, k)[f].blockNum = m[f].blockNum
              /\ Touch(m, n, k)[f].dirty = m[f].dirty
              /\ f = n => Touch(m, n, k)[f].timeStamp = 0
              /\ f # n /\ ~m[f].free
                   => Touch(m, n, k)[f].timeStamp = m[f].timeStamp + k
<1> SUFFICES ASSUME NEW f \in Frames
             PROVE  /\ Touch(m, n, k)[f] \in FrameInfo
                    /\ Touch(m, n, k)[f].free = m[f].free
                    /\ Touch(m, n, k)[f].blockNum = m[f].blockNum
                    /\ Touch(m, n, k)[f].dirty = m[f].dirty
                    /\ f = n => Touch(m, n, k)[f].timeStamp = 0
                    /\ f # n /\ ~m[f].free
                         => Touch(m, n, k)[f].timeStamp = m[f].timeStamp + k
  BY DEF Typed, Touch
<1>1. m[f] \in FrameInfo
  BY DEF Typed
<1>2. CASE f = n
  <2>1. Touch(m, n, k)[f] = [m[f] EXCEPT !.timeStamp = 0]
    BY <1>2 DEF Touch
  <2> QED BY <1>1, <1>2, <2>1 DEF FrameInfo
<1>3. CASE f # n /\ m[f].free
  <2>1. Touch(m, n, k)[f] = m[f]
    BY <1>3 DEF Touch
  <2> QED BY <1>1, <1>3, <2>1 DEF FrameInfo
<1>4. CASE f # n /\ ~m[f].free
  <2>1. Touch(m, n, k)[f] = [m[f] EXCEPT !.timeStamp = @ + k]
    BY <1>4 DEF Touch
  <2> QED BY <1>1, <1>4, <2>1 DEF FrameInfo
<1> QED BY <1>2, <1>3, <1>4

LEMMA TouchSound ==
  ASSUME NEW m, NEW al, Sound(m, al), NEW n, NEW k \in Nat \ {0}
  PROVE  Sound(Touch(m, n, k), al)
<1> DEFINE t == Touch(m, n, k)
<1>1. /\ Typed(t)
      /\ \A f \in Frames :
           /\ t[f].free = m[f].free
           /\ t[f].blockNum = m[f].blockNum
           /\ f = n => t[f].timeStamp = 0
           /\ f # n /\ ~m[f].free => t[f].timeStamp = m[f].timeStamp + k
  BY TouchFields DEF Sound
<1> HIDE DEF t
<1>2. LiveOnce(t, al)   BY <1>1 DEF Sound, LiveOnce
<1>3. StaleAbove(t, al) BY <1>1 DEF Sound, StaleAbove
<1>4. \A f \in Frames : m[f].timeStamp \in Int
  BY DEF Sound, Typed, FrameInfo
<1>5. Stamped(t)
  BY <1>1, <1>4 DEF Sound, Stamped
<1> QED BY <1>1, <1>2, <1>3, <1>5 DEF Sound, t

-----------------------------------------------------------------------------
(* Handing out a frame.                                                    *)

LEMMA GrabFields ==
  ASSUME Typed(metainfo), NEW f \in Frames, NEW b \in Block,
         NEW k \in Nat \ {0}
  PROVE  /\ Typed(Grab(f, b, k))
         /\ Grab(f, b, k)[f] = [free |-> FALSE, dirty |-> FALSE,
                                blockNum |-> b, timeStamp |-> 0]
         /\ \A g \in Frames : g # f =>
              /\ Grab(f, b, k)[g].free = metainfo[g].free
              /\ Grab(f, b, k)[g].blockNum = metainfo[g].blockNum
              /\ Grab(f, b, k)[g].dirty = metainfo[g].dirty
              /\ ~metainfo[g].free => Grab(f, b, k)[g].timeStamp
                                       = metainfo[g].timeStamp + k
<1> DEFINE t == Touch(metainfo, f, k)
           new == [free |-> FALSE, dirty |-> FALSE,
                   blockNum |-> b, timeStamp |-> 0]
<1>1. /\ Typed(t)
      /\ \A g \in Frames :
           /\ t[g].free = metainfo[g].free
           /\ t[g].blockNum = metainfo[g].blockNum
           /\ t[g].dirty = metainfo[g].dirty
           /\ g # f /\ ~metainfo[g].free
                => t[g].timeStamp = metainfo[g].timeStamp + k
  BY TouchFields
<1>2. new \in FrameInfo
  BY DEF FrameInfo
<1>3. Grab(f, b, k) = [t EXCEPT ![f] = new]
  BY DEF Grab
<1> HIDE DEF t, new
<1>4. Grab(f, b, k)[f] = new /\ Typed(Grab(f, b, k))
  BY <1>1, <1>2, <1>3 DEF Typed
<1>5. \A g \in Frames : g # f => Grab(f, b, k)[g] = t[g]
  BY <1>1, <1>3 DEF Typed
<1> QED BY <1>1, <1>4, <1>5 DEF new

LEMMA GrabOthers ==
  ASSUME Typed(metainfo), NEW f \in Frames, NEW b \in Block,
         NEW k \in Nat \ {0}, NEW g \in Frames, g # f
  PROVE  /\ Grab(f, b, k)[g].free = metainfo[g].free
         /\ Grab(f, b, k)[g].blockNum = metainfo[g].blockNum
         /\ Grab(f, b, k)[g].dirty = metainfo[g].dirty
         /\ ~metainfo[g].free => Grab(f, b, k)[g].timeStamp
                                  = metainfo[g].timeStamp + k
BY GrabFields

\* Handing out the lowest free frame, or evicting when none is free, keeps the
\* table sound: every abandoned copy of b lies above the frame b gets.
LEMMA GrabSound ==
  ASSUME NEW al, NEW al2, Sound(metainfo, al),
         NEW f \in Frames, Replaceable(f), NEW b \in Block, NEW k \in Nat \ {0},
         \A c \in Block : c # b => al2[c] = al[c],
         al2[b] \in ClientType,
         \A g \in Frames : Live(g) => metainfo[g].blockNum # b
  PROVE  Sound(Grab(f, b, k), al2)
<1> DEFINE m == Grab(f, b, k)
<1>1. /\ Typed(m)
      /\ ~m[f].free /\ m[f].blockNum = b /\ m[f].timeStamp = 0
      /\ \A g \in Frames : g # f =>
           /\ m[g].free = metainfo[g].free
           /\ m[g].blockNum = metainfo[g].blockNum
           /\ ~metainfo[g].free => m[g].timeStamp = metainfo[g].timeStamp + k
  <2>1. Typed(metainfo)
    BY DEF Sound
  <2>2. m[f] = [free |-> FALSE, dirty |-> FALSE, blockNum |-> b, timeStamp |-> 0]
    BY <2>1, GrabFields
  <2>3. ~m[f].free /\ m[f].blockNum = b /\ m[f].timeStamp = 0
    BY <2>2
  <2>4. Typed(m)
    BY <2>1, GrabFields
  <2>5. ASSUME NEW g \in Frames, g # f
        PROVE  /\ m[g].free = metainfo[g].free
               /\ m[g].blockNum = metainfo[g].blockNum
               /\ ~metainfo[g].free => m[g].timeStamp = metainfo[g].timeStamp + k
    BY <2>1, <2>5, GrabOthers
  <2> QED BY <2>3, <2>4, <2>5
<1> HIDE DEF m
<1>2. LiveOnce(m, al2)
  BY <1>1 DEF Sound, LiveOnce, Live
<1>3. StaleAbove(m, al2)
  <2> SUFFICES ASSUME NEW g \in Frames, m[g].free, m[g].blockNum \in Block,
                      al2[m[g].blockNum] \in ClientType
               PROVE  \E h \in Frames :
                        h < g /\ ~m[h].free /\ m[h].blockNum = m[g].blockNum
    BY DEF StaleAbove
  <2>1. g # f /\ metainfo[g].free /\ metainfo[g].blockNum = m[g].blockNum
    BY <1>1
  <2>2. metainfo[f].free /\ f <= g
    BY <2>1 DEF Replaceable, Live
  <2>3. CASE m[g].blockNum = b
    BY <1>1, <2>1, <2>2, <2>3 DEF Frames
  <2>4. CASE m[g].blockNum # b
    <3>1. PICK h \in Frames : h < g /\ ~metainfo[h].free
                               /\ metainfo[h].blockNum = metainfo[g].blockNum
      BY <2>1, <2>4 DEF Sound, StaleAbove
    <3> QED BY <1>1, <2>1, <2>2, <3>1
  <2> QED BY <2>3, <2>4
<1>4. \A g \in Frames : metainfo[g].timeStamp \in Int
  BY DEF Sound, Typed, FrameInfo
<1>5. Stamped(m)
  BY <1>1, <1>4 DEF Sound, Stamped
<1> QED BY <1>1, <1>2, <1>3, <1>5 DEF Sound, m

-----------------------------------------------------------------------------
(* Loading a block.                                                        *)

\* The content of an owned block in given tables.
ContentIn(m, by, d, c) ==
  IF getBufferNum(m, c) # E_BLOCKNOTINBUFFER THEN by[getBufferNum(m, c)] ELSE d[c]

Bytes(by) == by \in [Frames -> Values \cup {NoContent}]
Run(d)    == d \in [Block -> Values \cup {NoContent}]

\* A frame f of an outcome o of a load that had to take a frame.
Miss(o, b, k) ==
  /\ o.frame \in Frames /\ Replaceable(o.frame)
  /\ o.meta = Grab(o.frame, b, k)
  /\ o.bytes = [blocks EXCEPT ![o.frame] = WriteBack(o.frame)[b]]
  /\ o.run = WriteBack(o.frame)

LEMMA LoadCases ==
  ASSUME Inv, NEW b \in Block, Owned(b), NEW k \in Nat \ {0},
         NEW o \in Loaded(b, k)
  PROVE  \/ /\ o.frame \in Frames /\ Live(o.frame)
            /\ metainfo[o.frame].blockNum = b
            /\ o.meta = Touch(metainfo, o.frame, k)
            /\ o.bytes = blocks /\ o.run = disk
         \/ /\ \A g \in Frames : metainfo[g].blockNum # b
            /\ Miss(o, b, k)
<1> USE DEF Inv
<1>1. CASE \E g \in Frames : Live(g) /\ metainfo[g].blockNum = b
  <2>1. PICK g \in Frames : Live(g) /\ metainfo[g].blockNum = b
    BY <1>1
  <2>2. getBufferNum(metainfo, b) = g
    BY <2>1, LookupLive DEF Live, Owned
  <2>3. g # E_BLOCKNOTINBUFFER
    BY DEF Frames, E_BLOCKNOTINBUFFER
  <2> QED BY <2>1, <2>2, <2>3 DEF Loaded
<1>2. CASE \A g \in Frames : Live(g) => metainfo[g].blockNum # b
  <2>1. /\ getBufferNum(metainfo, b) = E_BLOCKNOTINBUFFER
        /\ \A g \in Frames : metainfo[g].blockNum # b
    BY <1>2, LookupNone DEF Live, Owned
  <2> QED BY <2>1 DEF Loaded, Miss
<1> QED BY <1>1, <1>2

\* Writing back the frame that is taken: the run copy of its block becomes the
\* frame's bytes whether the dirty bit was set or not, the rest stays.
LEMMA WriteBackOk ==
  ASSUME Inv, NEW f \in Frames
  PROVE  /\ Run(WriteBack(f))
         /\ \A c \in Block : ~(Live(f) /\ metainfo[f].blockNum = c)
                               => WriteBack(f)[c] = disk[c]
         /\ \A c \in Block : Live(f) /\ metainfo[f].blockNum = c
                               => WriteBack(f)[c] = blocks[f]
<1>1. Run(disk) /\ Bytes(blocks)
  BY DEF Inv, TypeOK, Run, Bytes
<1>2. CASE Live(f) /\ metainfo[f].dirty
  BY <1>1, <1>2 DEF WriteBack, Run, Bytes
<1>3. CASE ~(Live(f) /\ metainfo[f].dirty)
  BY <1>1, <1>3 DEF WriteBack, Run, Inv, Clean, Live
<1> QED BY <1>2, <1>3

\* The content of an owned block, by where its live frame is.
LEMMA ContentCases ==
  ASSUME NEW m, NEW al, Sound(m, al), NEW by, NEW d,
         NEW c \in Block, al[c] \in ClientType
  PROVE  /\ \A g \in Frames :
              ~m[g].free /\ m[g].blockNum = c => ContentIn(m, by, d, c) = by[g]
         /\ (\A g \in Frames : ~m[g].free => m[g].blockNum # c)
              => ContentIn(m, by, d, c) = d[c]
<1>1. ASSUME NEW g \in Frames, ~m[g].free, m[g].blockNum = c
      PROVE  ContentIn(m, by, d, c) = by[g]
  <2>1. getBufferNum(m, c) = g
    BY <1>1, LookupLive
  <2>2. g # E_BLOCKNOTINBUFFER
    BY DEF Frames, E_BLOCKNOTINBUFFER
  <2> QED BY <2>1, <2>2 DEF ContentIn
<1>2. ASSUME \A g \in Frames : ~m[g].free => m[g].blockNum # c
      PROVE  ContentIn(m, by, d, c) = d[c]
  <2>1. getBufferNum(m, c) = E_BLOCKNOTINBUFFER
    BY <1>2, LookupNone
  <2> QED BY <2>1 DEF ContentIn
<1> QED BY <1>1, <1>2

\* Taking a frame for block b, which is in no live frame, when b has an owner
\* (al = blockAllocMap) or gets one: nothing is lost.
LEMMA MissOk ==
  ASSUME Inv, NEW b \in Block, NEW al, al[b] \in ClientType,
         \A c \in Block : c # b => al[c] = blockAllocMap[c],
         \A g \in Frames : Live(g) => metainfo[g].blockNum # b,
         NEW k \in Nat \ {0}, NEW o, Miss(o, b, k)
  PROVE  /\ Sound(o.meta, al)
         /\ ~o.meta[o.frame].free /\ o.meta[o.frame].blockNum = b
         /\ o.meta[o.frame].timeStamp = 0
         /\ \A g \in Frames : g # o.frame =>
              /\ o.meta[g].free = metainfo[g].free
              /\ o.meta[g].blockNum = metainfo[g].blockNum
              /\ o.meta[g].dirty = metainfo[g].dirty
         /\ Clean(o.meta, o.bytes, o.run) /\ Bytes(o.bytes) /\ Run(o.run)
         /\ ContentIn(o.meta, o.bytes, o.run, b) = disk[b]
         /\ \A c \in Block \ {b} : Owned(c) =>
              ContentIn(o.meta, o.bytes, o.run, c)
                = ContentIn(metainfo, blocks, disk, c)
<1> DEFINE f == o.frame
           m == o.meta
           d == WriteBack(f)
<1>1. f \in Frames /\ Replaceable(f)
  BY DEF Miss
<1>2. Sound(metainfo, blockAllocMap) /\ Typed(metainfo) /\ Bytes(blocks)
  BY DEF Inv, Sound, TypeOK, Bytes
<1>3. m = Grab(f, b, k) /\ o.bytes = [blocks EXCEPT ![f] = d[b]] /\ o.run = d
  BY DEF Miss
<1>4. m[f] = [free |-> FALSE, dirty |-> FALSE, blockNum |-> b, timeStamp |-> 0]
  BY <1>1, <1>2, <1>3, GrabFields
<1>5. ~m[f].free /\ m[f].blockNum = b /\ m[f].timeStamp = 0
  BY <1>4
<1>6. ASSUME NEW g \in Frames, g # f
      PROVE  /\ m[g].free = metainfo[g].free
             /\ m[g].blockNum = metainfo[g].blockNum
             /\ m[g].dirty = metainfo[g].dirty
  <2> HIDE DEF m, f
  <2>1. /\ Grab(f, b, k)[g].free = metainfo[g].free
        /\ Grab(f, b, k)[g].blockNum = metainfo[g].blockNum
        /\ Grab(f, b, k)[g].dirty = metainfo[g].dirty
    BY <1>1, <1>2, <1>6, GrabOthers
  <2> QED BY <2>1, <1>3
<1>7. Sound(m, al)
  BY <1>1, <1>2, <1>3, GrabSound
<1>8. /\ Run(d)
      /\ \A c \in Block : ~(Live(f) /\ metainfo[f].blockNum = c) => d[c] = disk[c]
      /\ \A c \in Block : Live(f) /\ metainfo[f].blockNum = c => d[c] = blocks[f]
  BY <1>1, WriteBackOk
<1>9. /\ o.bytes[f] = d[b]
      /\ \A g \in Frames : g # f => o.bytes[g] = blocks[g]
      /\ Bytes(o.bytes)
  BY <1>1, <1>2, <1>3, <1>8 DEF Bytes, Run
<1> HIDE DEF f, m, d
<1>10. Clean(m, o.bytes, d)
  <2> SUFFICES ASSUME NEW g \in Frames, ~m[g].free, ~m[g].dirty
               PROVE  o.bytes[g] = d[m[g].blockNum]
    BY DEF Clean
  <2>1. CASE g = f
    BY <2>1, <1>5, <1>9
  <2>2. CASE g # f
    <3>1. /\ Live(g) /\ metainfo[g].blockNum \in Block
          /\ blocks[g] = disk[metainfo[g].blockNum]
      BY <2>2, <1>2, <1>6 DEF Inv, Clean, Live, Sound, LiveOnce
    <3>2. ~(Live(f) /\ metainfo[f].blockNum = metainfo[g].blockNum)
      BY <2>2, <3>1, <1>1, <1>2 DEF Sound, LiveOnce, Live
    <3> QED BY <2>2, <3>1, <3>2, <1>6, <1>8, <1>9
  <2> QED BY <2>1, <2>2
<1>11. ContentIn(m, o.bytes, d, b) = disk[b]
  BY <1>1, <1>5, <1>7, <1>8, <1>9, ContentCases
<1>12. ASSUME NEW c \in Block \ {b}, Owned(c)
       PROVE  ContentIn(m, o.bytes, d, c) = ContentIn(metainfo, blocks, disk, c)
  <2>1. al[c] \in ClientType
    BY <1>12 DEF Owned
  <2>2. CASE \E g \in Frames : g # f /\ Live(g) /\ metainfo[g].blockNum = c
    <3>1. PICK g \in Frames : g # f /\ Live(g) /\ metainfo[g].blockNum = c
      BY <2>2
    <3>2. ContentIn(metainfo, blocks, disk, c) = blocks[g]
      BY <3>1, <1>2, <1>12, ContentCases DEF Owned, Live
    <3>3. ContentIn(m, o.bytes, d, c) = o.bytes[g]
      BY <3>1, <1>6, <1>7, <2>1, ContentCases DEF Live
    <3> QED BY <3>1, <3>2, <3>3, <1>9
  <2>3. CASE \A g \in Frames : g # f => ~(Live(g) /\ metainfo[g].blockNum = c)
    <3>1. ContentIn(m, o.bytes, d, c) = d[c]
      <4>1. \A g \in Frames : ~m[g].free => m[g].blockNum # c
        BY <2>3, <1>5, <1>6 DEF Live
      <4> QED BY <4>1, <1>7, <2>1, ContentCases
    <3>2. CASE Live(f) /\ metainfo[f].blockNum = c
      <4>1. ContentIn(metainfo, blocks, disk, c) = blocks[f]
        BY <3>2, <1>1, <1>2, <1>12, ContentCases DEF Owned, Live
      <4> QED BY <3>1, <3>2, <4>1, <1>8
    <3>3. CASE ~(Live(f) /\ metainfo[f].blockNum = c)
      <4>1. ContentIn(metainfo, blocks, disk, c) = disk[c]
        BY <2>3, <3>3, <1>2, <1>12, ContentCases DEF Owned, Live
      <4> QED BY <3>1, <3>3, <4>1, <1>8
    <3> QED BY <3>2, <3>3
  <2> QED BY <2>2, <2>3
<1> QED BY <1>3, <1>5, <1>6, <1>7, <1>8, <1>9, <1>10, <1>11, <1>12 DEF f, m, d

\* Loading an owned block, in a frame or not: the table stays sound, contents
\* stay what they are, and a dirty frame stays unless it is the one replaced.
LEMMA LoadedOk ==
  ASSUME Inv, NEW b \in Block, Owned(b), NEW k \in Nat \ {0},
         NEW o \in Loaded(b, k)
  PROVE  /\ o.frame \in Frames
         /\ Sound(o.meta, blockAllocMap)
         /\ ~o.meta[o.frame].free /\ o.meta[o.frame].blockNum = b
         /\ o.meta[o.frame].timeStamp = 0
         /\ Clean(o.meta, o.bytes, o.run) /\ Bytes(o.bytes) /\ Run(o.run)
         /\ \A c \in Block : Owned(c) =>
              ContentIn(o.meta, o.bytes, o.run, c)
                = ContentIn(metainfo, blocks, disk, c)
         /\ \A g \in Frames, c \in Block : Holds(metainfo, g, c) =>
              \/ Holds(o.meta, g, c)
              \/ Replaceable(g) /\ \A h \in Frames : metainfo[h].blockNum # b
<1>1. Sound(metainfo, blockAllocMap) /\ Typed(metainfo) /\ Bytes(blocks) /\ Run(disk)
  BY DEF Inv, Sound, TypeOK, Bytes, Run
<1>2. CASE /\ o.frame \in Frames /\ Live(o.frame)
           /\ metainfo[o.frame].blockNum = b
           /\ o.meta = Touch(metainfo, o.frame, k)
           /\ o.bytes = blocks /\ o.run = disk
  <2> DEFINE f == o.frame
             t == Touch(metainfo, f, k)
  <2> HIDE DEF f, t
  <2>1. /\ \A g \in Frames : /\ t[g].free = metainfo[g].free
                             /\ t[g].blockNum = metainfo[g].blockNum
                             /\ t[g].dirty = metainfo[g].dirty
                             /\ g = f => t[g].timeStamp = 0
        /\ Sound(t, blockAllocMap)
    BY <1>1, TouchFields, TouchSound DEF t
  <2>2. f \in Frames /\ ~metainfo[f].free /\ metainfo[f].blockNum = b
    BY <1>2 DEF Live, f
  <2>3. Clean(t, blocks, disk)
    BY <2>1 DEF Inv, Clean
  <2>4. ASSUME NEW c \in Block, Owned(c)
        PROVE  ContentIn(t, blocks, disk, c) = ContentIn(metainfo, blocks, disk, c)
    <3>1. CASE \E g \in Frames : ~metainfo[g].free /\ metainfo[g].blockNum = c
      BY <3>1, <1>1, <2>1, <2>4, ContentCases DEF Owned
    <3>2. CASE \A g \in Frames : ~metainfo[g].free => metainfo[g].blockNum # c
      BY <3>2, <1>1, <2>1, <2>4, ContentCases DEF Owned
    <3> QED BY <3>1, <3>2
  <2>5. \A g \in Frames, c \in Block : Holds(metainfo, g, c) => Holds(t, g, c)
    BY <2>1 DEF Holds
  <2>6. o.meta = t /\ o.frame = f
    BY <1>2 DEF t, f
  <2> QED BY <1>1, <1>2, <2>1, <2>2, <2>3, <2>4, <2>5, <2>6
<1>3. CASE (\A g \in Frames : metainfo[g].blockNum # b) /\ Miss(o, b, k)
  <2>1. o.frame \in Frames /\ Replaceable(o.frame)
    BY <1>3 DEF Miss
  <2>2. /\ Sound(o.meta, blockAllocMap)
        /\ ~o.meta[o.frame].free /\ o.meta[o.frame].blockNum = b
        /\ o.meta[o.frame].timeStamp = 0
        /\ \A g \in Frames : g # o.frame =>
             /\ o.meta[g].free = metainfo[g].free
             /\ o.meta[g].blockNum = metainfo[g].blockNum
             /\ o.meta[g].dirty = metainfo[g].dirty
        /\ Clean(o.meta, o.bytes, o.run) /\ Bytes(o.bytes) /\ Run(o.run)
        /\ ContentIn(o.meta, o.bytes, o.run, b) = disk[b]
        /\ \A c \in Block \ {b} : Owned(c) =>
             ContentIn(o.meta, o.bytes, o.run, c)
               = ContentIn(metainfo, blocks, disk, c)
    BY <1>3, MissOk DEF Owned
  <2>3. ContentIn(metainfo, blocks, disk, b) = disk[b]
    BY <1>1, <1>3, ContentCases DEF Owned
  <2>4. \A g \in Frames, c \in Block :
          Holds(metainfo, g, c) => Holds(o.meta, g, c) \/ Replaceable(g)
    BY <2>1, <2>2 DEF Holds
  <2> QED BY <1>3, <2>1, <2>2, <2>3, <2>4
<1> QED BY <1>2, <1>3, LoadCases

\* Storing v into b sets the dirty bit of its frame, either because d is b or
\* because the bit is set already.
LEMMA StoreOk ==
  ASSUME Inv, NEW b \in Block, Owned(b), NEW k \in Nat \ {0},
         NEW v \in Values, NEW d, StoreInto(b, k, v, d),
         d = b \/ \E f \in Frames : Holds(metainfo, f, b)
  PROVE  /\ Sound(metainfo', blockAllocMap)
         /\ Clean(metainfo', blocks', disk') /\ Bytes(blocks') /\ Run(disk')
         /\ \E f \in Frames : Holds(metainfo', f, b) /\ metainfo'[f].timeStamp = 0
         /\ \A g \in Frames, c \in Block : Holds(metainfo, g, c) =>
              \/ Holds(metainfo', g, c)
              \/ Replaceable(g) /\ \A h \in Frames : metainfo[h].blockNum # b
         /\ ContentIn(metainfo', blocks', disk', b) = v
         /\ \A c \in Block \ {b} : Owned(c) =>
              ContentIn(metainfo', blocks', disk', c)
                = ContentIn(metainfo, blocks, disk, c)
<1>1. PICK o \in Loaded(b, k) :
         /\ metainfo' = setDirtyBit(o.meta, d)
         /\ blocks' = [o.bytes EXCEPT ![o.frame] = v]
         /\ disk' = o.run
  BY DEF StoreInto
<1> DEFINE f == o.frame
           m == o.meta
           s == setDirtyBit(m, d)
           by == [o.bytes EXCEPT ![f] = v]
<1>2. /\ f \in Frames
      /\ Sound(m, blockAllocMap)
      /\ ~m[f].free /\ m[f].blockNum = b /\ m[f].timeStamp = 0
      /\ Clean(m, o.bytes, o.run) /\ Bytes(o.bytes) /\ Run(o.run)
  BY LoadedOk
<1>3. \A c \in Block : Owned(c) =>
        ContentIn(m, o.bytes, o.run, c) = ContentIn(metainfo, blocks, disk, c)
  BY LoadedOk
<1>4. \A g \in Frames, c \in Block : Holds(metainfo, g, c) =>
        \/ Holds(m, g, c)
        \/ Replaceable(g) /\ \A h \in Frames : metainfo[h].blockNum # b
  BY LoadedOk
<1> HIDE DEF f, m
<1>5. /\ \A g \in Frames : /\ s[g].free = m[g].free
                           /\ s[g].blockNum = m[g].blockNum
                           /\ s[g].timeStamp = m[g].timeStamp
                           /\ m[g].dirty => s[g].dirty
                           /\ g = getBufferNum(m, d) => s[g].dirty
      /\ Sound(s, blockAllocMap)
  BY <1>2, SetDirty, SetDirtySound DEF Sound
<1> HIDE DEF s
<1>6. s[f].dirty
  <2>1. CASE d = b
    <3>1. getBufferNum(m, b) = f
      BY <1>2, LookupLive DEF Owned
    <3> QED BY <2>1, <3>1, <1>2, <1>5
  <2>2. CASE \E g \in Frames : Holds(metainfo, g, b)
    <3>1. PICK g \in Frames : Holds(metainfo, g, b)
      BY <2>2
    <3>2. Holds(m, g, b)
      BY <3>1, <1>4 DEF Holds
    <3>3. g = f
      BY <3>2, <1>2 DEF Holds, Sound, LiveOnce
    <3> QED BY <3>2, <3>3, <1>2, <1>5 DEF Holds
  <2> QED BY <2>1, <2>2
<1>7. /\ Bytes(by) /\ by[f] = v
      /\ \A g \in Frames : g # f => by[g] = o.bytes[g]
  BY <1>2 DEF Bytes
<1> HIDE DEF by
<1>8. Clean(s, by, o.run)
  BY <1>2, <1>5, <1>6, <1>7 DEF Clean
<1>9. Holds(s, f, b) /\ s[f].timeStamp = 0
  BY <1>2, <1>5, <1>6 DEF Holds
<1>10. \A g \in Frames, c \in Block : Holds(m, g, c) => Holds(s, g, c)
  BY <1>5 DEF Holds
<1>11. ContentIn(s, by, o.run, b) = v
  BY <1>2, <1>5, <1>7, ContentCases DEF Owned
<1>12. ASSUME NEW c \in Block \ {b}, Owned(c)
       PROVE  ContentIn(s, by, o.run, c) = ContentIn(m, o.bytes, o.run, c)
  <2>1. CASE \E g \in Frames : ~m[g].free /\ m[g].blockNum = c
    <3>1. PICK g \in Frames : ~m[g].free /\ m[g].blockNum = c
      BY <2>1
    <3>2. g # f
      BY <3>1, <1>2
    <3>3. ContentIn(s, by, o.run, c) = by[g]
      BY <3>1, <1>5, <1>12, ContentCases DEF Owned
    <3>4. ContentIn(m, o.bytes, o.run, c) = o.bytes[g]
      BY <3>1, <1>2, <1>12, ContentCases DEF Owned
    <3> QED BY <3>1, <3>2, <3>3, <3>4, <1>7
  <2>2. CASE \A g \in Frames : ~m[g].free => m[g].blockNum # c
    <3>1. ContentIn(s, by, o.run, c) = o.run[c]
      BY <2>2, <1>5, <1>12, ContentCases DEF Owned
    <3>2. ContentIn(m, o.bytes, o.run, c) = o.run[c]
      BY <2>2, <1>2, <1>12, ContentCases DEF Owned
    <3> QED BY <3>1, <3>2
  <2> QED BY <2>1, <2>2
<1>13. metainfo' = s /\ blocks' = by /\ disk' = o.run
  BY <1>1 DEF s, by, m, f
<1> QED BY <1>2, <1>3, <1>4, <1>5, <1>7, <1>8, <1>9, <1>10, <1>11, <1>12, <1>13

\* Allocating an unused block: it is live in the frame handed out, dirty, and
\* the contents of all other blocks stay.
LEMMA AllocateOk ==
  ASSUME Inv, NEW b \in Unused, NEW t \in NewTypes, NEW v \in Values,
         AllocateAt(b, t, v)
  PROVE  /\ Sound(metainfo', blockAllocMap')
         /\ Clean(metainfo', blocks', disk') /\ Bytes(blocks') /\ Run(disk')
         /\ blockAllocMap' = [blockAllocMap EXCEPT ![b] = t]
         /\ blockAllocMap' \in [Block -> BlockType] /\ t \in ClientType
         /\ ContentIn(metainfo', blocks', disk', b) = v
         /\ \A c \in Block \ {b} : Owned(c) =>
              ContentIn(metainfo', blocks', disk', c)
                = ContentIn(metainfo, blocks, disk, c)
<1> DEFINE al == [blockAllocMap EXCEPT ![b] = t]
<1>1. /\ b \in Block /\ blockAllocMap[b] = "UNUSED_BLK" /\ ~Owned(b)
      /\ blockAllocMap \in [Block -> BlockType] /\ t \in ClientType
  BY BufferAssumption DEF Unused, Inv, TypeOK, Owned, ClientType
<1>2. /\ al \in [Block -> BlockType] /\ al[b] = t
      /\ \A c \in Block : c # b => al[c] = blockAllocMap[c]
  BY <1>1 DEF BlockType
<1>3. \A g \in Frames : Live(g) => metainfo[g].blockNum # b
  BY <1>1 DEF Inv, Sound, LiveOnce, Live, Owned
<1>4. PICK f \in Frames :
        LET n == getBufferNum(Grab(f, b, 1), b) IN
        /\ Replaceable(f)
        /\ metainfo' = setDirtyBit(Touch(Grab(f, b, 1), n, 2), b)
        /\ blocks' = [blocks EXCEPT ![n] = v]
        /\ disk' = WriteBack(f)
        /\ blockAllocMap' = al
  BY DEF AllocateAt
<1> HIDE DEF al
<1> DEFINE o == [frame |-> f, meta |-> Grab(f, b, 1),
                 bytes |-> [blocks EXCEPT ![f] = WriteBack(f)[b]],
                 run |-> WriteBack(f)]
           m == Grab(f, b, 1)
           d == WriteBack(f)
           by == [blocks EXCEPT ![f] = WriteBack(f)[b]]
<1>5. Miss(o, b, 1)
  BY <1>4 DEF Miss
<1>6. /\ Sound(m, al)
      /\ ~m[f].free /\ m[f].blockNum = b
      /\ Clean(m, by, d) /\ Bytes(by) /\ Run(d)
      /\ \A c \in Block \ {b} : Owned(c) =>
           ContentIn(m, by, d, c) = ContentIn(metainfo, blocks, disk, c)
  <2>1. /\ Sound(o.meta, al)
        /\ ~o.meta[o.frame].free /\ o.meta[o.frame].blockNum = b
        /\ Clean(o.meta, o.bytes, o.run) /\ Bytes(o.bytes) /\ Run(o.run)
        /\ \A c \in Block \ {b} : Owned(c) =>
             ContentIn(o.meta, o.bytes, o.run, c)
               = ContentIn(metainfo, blocks, disk, c)
    <3> HIDE DEF o
    <3> QED BY <1>1, <1>2, <1>3, <1>5, MissOk
  <2>2. o.meta = m /\ o.frame = f /\ o.bytes = by /\ o.run = d
    OBVIOUS
  <2> HIDE DEF o, m, by, d
  <2> QED BY <2>1, <2>2
<1>7. getBufferNum(m, b) = f
  BY <1>1, <1>2, <1>4, <1>6, LookupLive
<1> DEFINE u == Touch(m, f, 2)
           s == setDirtyBit(u, b)
           by2 == [blocks EXCEPT ![f] = v]
<1>8. metainfo' = s /\ blocks' = by2 /\ disk' = d
  BY <1>4, <1>7
<1>9. /\ by2[f] = v /\ Bytes(by2)
      /\ \A g \in Frames : g # f => by2[g] = by[g]
  BY <1>4 DEF Inv, TypeOK, Bytes
<1> HIDE DEF m, d, by, by2, o
<1>10. /\ Sound(u, al)
       /\ \A g \in Frames : /\ u[g].free = m[g].free
                            /\ u[g].blockNum = m[g].blockNum
                            /\ u[g].dirty = m[g].dirty
  BY <1>6, TouchFields, TouchSound DEF Sound
<1> HIDE DEF u
<1>11. /\ Sound(s, al)
       /\ \A g \in Frames : /\ s[g].free = m[g].free
                            /\ s[g].blockNum = m[g].blockNum
                            /\ m[g].dirty => s[g].dirty
                            /\ g = getBufferNum(u, b) => s[g].dirty
  BY <1>10, SetDirty, SetDirtySound DEF Sound
<1>12. getBufferNum(u, b) = f
  BY <1>1, <1>2, <1>4, <1>6, <1>10, LookupLive
<1> HIDE DEF s
<1>13. Clean(s, by2, d)
  BY <1>6, <1>9, <1>11, <1>12 DEF Clean
<1>14. ContentIn(s, by2, d, b) = v
  BY <1>1, <1>2, <1>4, <1>6, <1>9, <1>11, ContentCases
<1>15. ASSUME NEW c \in Block \ {b}, Owned(c)
       PROVE  ContentIn(s, by2, d, c) = ContentIn(m, by, d, c)
  <2>1. al[c] \in ClientType
    BY <1>2, <1>15 DEF Owned
  <2>2. CASE \E g \in Frames : ~m[g].free /\ m[g].blockNum = c
    <3>1. PICK g \in Frames : ~m[g].free /\ m[g].blockNum = c
      BY <2>2
    <3>2. g # f
      BY <3>1, <1>6
    <3>3. ContentIn(s, by2, d, c) = by2[g]
      BY <3>1, <2>1, <1>11, ContentCases
    <3>4. ContentIn(m, by, d, c) = by[g]
      BY <3>1, <2>1, <1>6, ContentCases
    <3> QED BY <3>2, <3>3, <3>4, <1>9
  <2>3. CASE \A g \in Frames : ~m[g].free => m[g].blockNum # c
    <3>1. ContentIn(s, by2, d, c) = d[c]
      BY <2>1, <2>3, <1>11, ContentCases
    <3>2. ContentIn(m, by, d, c) = d[c]
      BY <2>1, <2>3, <1>6, ContentCases
    <3> QED BY <3>1, <3>2
  <2> QED BY <2>2, <2>3
<1>16. blockAllocMap' = al
  BY <1>4
<1>17. /\ Sound(metainfo', blockAllocMap')
       /\ Clean(metainfo', blocks', disk') /\ Bytes(blocks') /\ Run(disk')
       /\ ContentIn(metainfo', blocks', disk', b) = v
  BY <1>6, <1>8, <1>9, <1>11, <1>13, <1>14, <1>16
<1>18. \A c \in Block \ {b} : Owned(c) =>
         ContentIn(metainfo', blocks', disk', c)
           = ContentIn(metainfo, blocks, disk, c)
  BY <1>6, <1>8, <1>15
<1> QED BY <1>1, <1>2, <1>16, <1>17, <1>18 DEF al

-----------------------------------------------------------------------------
(* The inductive invariant.                                                *)

LEMMA InitInv == Init => Inv
<1> SUFFICES ASSUME Init PROVE Inv
  OBVIOUS
<1>1. \A f \in Frames : /\ metainfo[f] = [free |-> TRUE, dirty |-> FALSE,
                                          blockNum |-> -1, timeStamp |-> -1]
                        /\ metainfo[f].free /\ metainfo[f].blockNum = -1
  BY DEF Init
<1>2. -1 \notin Block
  BY BufferAssumption DEF Block
<1>3. Typed(metainfo)
  <2>1. [free |-> TRUE, dirty |-> FALSE,
         blockNum |-> -1, timeStamp |-> -1] \in FrameInfo
    BY DEF FrameInfo
  <2> QED BY <2>1 DEF Init, Typed
<1>4. Sound(metainfo, blockAllocMap)
  BY <1>1, <1>2, <1>3 DEF Sound, LiveOnce, StaleAbove, Stamped
<1>5. Clean(metainfo, blocks, disk) /\ FillingDirty /\ FillingRecent
  BY <1>1 DEF Clean, Init, FillingDirty, FillingRecent
<1>6. TypeOK
  BY <1>3, BufferAssumption DEF TypeOK, Typed, Init, BlockType, NoHandle
<1> QED BY <1>4, <1>5, <1>6 DEF Inv

\* A store into an owned block outside a fill.
LEMMA WriteInv ==
  ASSUME Inv, NEW b \in Block, NEW k \in 1 .. 2, NEW v \in Values, Write(b, k, v)
  PROVE  Inv'
<1>1. Owned(b) /\ StoreInto(b, k, v, b) /\ filling' = {} /\ k \in Nat \ {0}
  BY DEF Write
<1>2. /\ Sound(metainfo', blockAllocMap)
      /\ Clean(metainfo', blocks', disk') /\ Bytes(blocks') /\ Run(disk')
  BY <1>1, StoreOk
<1>3. blockAllocMap' = blockAllocMap /\ handle' = NoHandle
  BY <1>1 DEF StoreInto
<1>4. TypeOK'
  BY <1>1, <1>2, <1>3 DEF TypeOK, Inv, Sound, Typed, Bytes, Run
<1> QED BY <1>1, <1>2, <1>3, <1>4 DEF Inv, FillingDirty, FillingRecent

LEMMA ReadInv ==
  ASSUME Inv, NEW b \in Block, NEW k \in 1 .. 2, Read(b, k)
  PROVE  Inv'
<1>1. PICK o \in Loaded(b, k) :
        metainfo' = o.meta /\ blocks' = o.bytes /\ disk' = o.run
  BY DEF Read
<1>2. /\ Owned(b) /\ filling' = {} /\ k \in Nat \ {0}
      /\ blockAllocMap' = blockAllocMap /\ handle' = NoHandle
  BY DEF Read
<1>3. /\ Sound(o.meta, blockAllocMap)
      /\ Clean(o.meta, o.bytes, o.run) /\ Bytes(o.bytes) /\ Run(o.run)
  BY <1>2, LoadedOk
<1>4. /\ Sound(metainfo', blockAllocMap')
      /\ Clean(metainfo', blocks', disk') /\ Bytes(blocks') /\ Run(disk')
  BY <1>1, <1>2, <1>3
<1>5. TypeOK'
  BY <1>2, <1>4 DEF TypeOK, Inv, Sound, Typed, Bytes, Run
<1> QED BY <1>2, <1>4, <1>5 DEF Inv, FillingDirty, FillingRecent

\* The frame of the single block being filled is never the one replaced: it
\* was used last, and there is a second frame.
LEMMA RecentStays ==
  ASSUME Inv, NEW g \in Frames, NEW b \in Block, Holds(metainfo, g, b),
         metainfo[g].timeStamp = 0
  PROVE  ~Replaceable(g)
<1> SUFFICES ASSUME Replaceable(g) PROVE FALSE
  OBVIOUS
<1>1. ~metainfo[g].free
  BY DEF Holds
<1>2. \A h \in Frames : Live(h) /\ metainfo[h].timeStamp <= 0
  BY <1>1 DEF Replaceable
<1>3. \A h \in Frames : metainfo[h].timeStamp >= 0 /\ metainfo[h].timeStamp \in Int
  BY <1>2 DEF Inv, Sound, Stamped, Typed, FrameInfo, Live
<1>4. \A h \in Frames : metainfo[h].timeStamp = 0
  BY <1>2, <1>3
<1>5. \A h \in Frames : h = g
  BY <1>1, <1>2, <1>4 DEF Inv, Sound, Stamped, Live
<1>6. 0 \in Frames /\ 1 \in Frames
  BY BufferAssumption DEF Frames
<1> QED BY <1>5, <1>6

LEMMA BeginFillInv ==
  ASSUME Inv, NEW b \in Block, NEW v \in Values, BeginFill(b, v)
  PROVE  Inv'
<1>1. /\ Owned(b) /\ StoreInto(b, 1, v, b) /\ filling' = filling \cup {b}
      /\ filling = {} \/ \E c \in Block : filling = {c} /\ c # b
      /\ blockAllocMap' = blockAllocMap /\ handle' = NoHandle
  BY DEF BeginFill, StoreInto
<1>2. /\ Sound(metainfo', blockAllocMap)
      /\ Clean(metainfo', blocks', disk') /\ Bytes(blocks') /\ Run(disk')
      /\ \E f \in Frames : Holds(metainfo', f, b) /\ metainfo'[f].timeStamp = 0
  BY <1>1, StoreOk
<1>3. \A g \in Frames, c \in Block : Holds(metainfo, g, c) =>
        Holds(metainfo', g, c) \/ Replaceable(g)
  BY <1>1, StoreOk
<1>4. filling' = {b} \/ \E c \in Block : filling = {c} /\ filling' = {b, c} /\ c # b
  BY <1>1
<1>5. TypeOK'
  BY <1>1, <1>2, <1>4 DEF TypeOK, Inv, Sound, Typed, Bytes, Run
<1>6. FillingRecent'
  BY <1>2, <1>4 DEF FillingRecent
<1>7. FillingDirty'
  <2> SUFFICES ASSUME NEW c \in filling'
               PROVE  \E f \in Frames : Holds(metainfo', f, c)
    BY DEF FillingDirty, Holds, Live
  <2>1. CASE c = b
    BY <2>1, <1>2
  <2>2. CASE c # b
    <3>1. filling = {c} /\ c \in Block
      BY <2>2, <1>4
    <3>2. PICK g \in Frames : Holds(metainfo, g, c) /\ metainfo[g].timeStamp = 0
      BY <3>1 DEF Inv, FillingRecent
    <3>3. ~Replaceable(g)
      BY <3>1, <3>2, RecentStays
    <3> QED BY <3>1, <3>2, <3>3, <1>3
  <2> QED BY <2>1, <2>2
<1> QED BY <1>1, <1>2, <1>5, <1>6, <1>7 DEF Inv

\* A block being filled has an owner and a live dirty frame.
LEMMA FillingHeld ==
  ASSUME Inv, NEW b \in filling
  PROVE  b \in Block /\ Owned(b) /\ \E f \in Frames : Holds(metainfo, f, b)
<1>1. \E f \in Frames : Holds(metainfo, f, b)
  BY DEF Inv, FillingDirty, Holds, Live
<1> QED BY <1>1 DEF Inv, Sound, LiveOnce, Holds, Owned

LEMMA SetEntryInv ==
  ASSUME Inv, NEW b \in Block, NEW i \in EntryIndex, NEW v \in Values,
         SetEntry(b, i, v)
  PROVE  Inv'
<1>1. /\ b \in filling /\ StoreInto(b, 1, v, i) /\ filling' = filling
      /\ blockAllocMap' = blockAllocMap /\ handle' = NoHandle
  BY DEF SetEntry, StoreInto
<1>2. Owned(b) /\ \E f \in Frames : Holds(metainfo, f, b)
  BY <1>1, FillingHeld
<1>3. /\ Sound(metainfo', blockAllocMap)
      /\ Clean(metainfo', blocks', disk') /\ Bytes(blocks') /\ Run(disk')
      /\ \E f \in Frames : Holds(metainfo', f, b) /\ metainfo'[f].timeStamp = 0
      /\ \A g \in Frames, c \in Block : Holds(metainfo, g, c) =>
              \/ Holds(metainfo', g, c)
              \/ Replaceable(g) /\ \A h \in Frames : metainfo[h].blockNum # b
  BY <1>1, <1>2, StoreOk
<1>4. \A g \in Frames, c \in Block : Holds(metainfo, g, c) => Holds(metainfo', g, c)
  BY <1>2, <1>3 DEF Holds
<1>5. TypeOK'
  BY <1>1, <1>3 DEF TypeOK, Inv, Sound, Typed, Bytes, Run
<1>6. FillingRecent'
  BY <1>1, <1>3 DEF FillingRecent
<1>7. FillingDirty'
  <2> SUFFICES ASSUME NEW c \in filling
               PROVE  \E f \in Frames : Holds(metainfo', f, c)
    BY <1>1 DEF FillingDirty, Holds, Live
  <2> QED BY <1>4, FillingHeld
<1> QED BY <1>1, <1>3, <1>5, <1>6, <1>7 DEF Inv

LEMMA NewBlockInv ==
  ASSUME Inv, NEW t \in NewTypes, NEW v \in Values, NewBlock(t, v)
  PROVE  Inv'
<1>1. PICK b \in Unused : AllocateAt(b, t, v)
  BY DEF NewBlock
<1>2. b \in Block /\ filling' = {} /\ handle' = b
  BY <1>1 DEF Unused, NewBlock, AllocateAt
<1>3. /\ Sound(metainfo', blockAllocMap')
      /\ Clean(metainfo', blocks', disk') /\ Bytes(blocks') /\ Run(disk')
      /\ blockAllocMap' \in [Block -> BlockType]
  BY <1>1, AllocateOk
<1>4. TypeOK'
  BY <1>2, <1>3 DEF TypeOK, Inv, Sound, Typed, Bytes, Run
<1> QED BY <1>2, <1>3, <1>4 DEF Inv, FillingDirty, FillingRecent

LEMMA NewBlockDiskFullInv ==
  ASSUME GarbageOutside, Inv, NEW t \in NewTypes, NEW v \in Values,
         NewBlockDiskFull(t, v)
  PROVE  /\ UNCHANGED <<metainfo, blocks, blockAllocMap, disk, filling>>
         /\ Inv'
<1>1. /\ UNCHANGED <<metainfo, blocks, blockAllocMap, disk, filling>>
      /\ handle' \in Garbage
  BY DEF GarbageOutside, NewBlockDiskFull
<1> QED BY <1>1 DEF Inv, TypeOK, Sound, Typed, LiveOnce, StaleAbove, Stamped,
                   Clean, FillingDirty, FillingRecent, Holds, Live

\* Releasing a block frees its live frame; the frames above it that carried the
\* block before are abandoned copies of a block nobody owns.
LEMMA ReleaseOk ==
  ASSUME Inv, NEW b \in Block, releaseBlock(b)
  PROVE  /\ Sound(metainfo', blockAllocMap') /\ Clean(metainfo', blocks', disk')
         /\ blockAllocMap' = [blockAllocMap EXCEPT ![b] = "UNUSED_BLK"]
         /\ blockAllocMap' \in [Block -> BlockType]
         /\ \A c \in Block \ {b} : Owned(c) =>
              ContentIn(metainfo', blocks', disk', c)
                = ContentIn(metainfo, blocks, disk, c)
<1> DEFINE n == getBufferNum(metainfo, b)
           al == [blockAllocMap EXCEPT ![b] = "UNUSED_BLK"]
<1>1. /\ Owned(b) /\ blockAllocMap' = al /\ UNCHANGED <<blocks, disk, filling>>
      /\ metainfo' = IF n = E_BLOCKNOTINBUFFER
                     THEN metainfo ELSE [metainfo EXCEPT ![n].free = TRUE]
  BY DEF releaseBlock
<1>2. /\ Sound(metainfo, blockAllocMap) /\ Typed(metainfo)
      /\ blockAllocMap \in [Block -> BlockType]
  BY DEF Inv, Sound, TypeOK
<1>3. /\ al \in [Block -> BlockType] /\ al[b] \notin ClientType
      /\ \A c \in Block : c # b => al[c] = blockAllocMap[c]
  BY <1>2 DEF BlockType, ClientType
<1> HIDE DEF al
<1>4. /\ \A f \in Frames : n # f => metainfo[f].free \/ metainfo[f].blockNum # b
      /\ n \in Frames => metainfo[n].blockNum = b
      /\ n \in Frames \/ n = E_BLOCKNOTINBUFFER
  <2>1. CASE \E f \in Frames : ~metainfo[f].free /\ metainfo[f].blockNum = b
    <3>1. PICK f \in Frames : ~metainfo[f].free /\ metainfo[f].blockNum = b
      BY <2>1
    <3>2. n = f
      BY <3>1, <1>1, <1>2, LookupLive DEF Owned
    <3> QED BY <3>1, <3>2, <1>2 DEF Sound, LiveOnce
  <2>2. CASE \A f \in Frames : ~metainfo[f].free => metainfo[f].blockNum # b
    <3>1. n = E_BLOCKNOTINBUFFER
      BY <2>2, <1>1, <1>2, LookupNone DEF Owned
    <3>2. n \notin Frames
      BY <3>1 DEF E_BLOCKNOTINBUFFER, Frames
    <3> QED BY <2>2, <3>1, <3>2
  <2> QED BY <2>1, <2>2
<1> HIDE DEF n
<1>5. \A f \in Frames :
        /\ metainfo'[f] \in FrameInfo
        /\ metainfo'[f].free <=> (metainfo[f].free \/ f = n)
        /\ metainfo'[f].blockNum = metainfo[f].blockNum
        /\ metainfo'[f].dirty = metainfo[f].dirty
        /\ metainfo'[f].timeStamp = metainfo[f].timeStamp
  <2>1. CASE n = E_BLOCKNOTINBUFFER
    <3>1. \A f \in Frames : f # n /\ metainfo[f] \in FrameInfo
      BY <2>1, <1>2 DEF E_BLOCKNOTINBUFFER, Frames, Typed
    <3> QED BY <2>1, <3>1, <1>1 DEF FrameInfo
  <2>2. CASE n \in Frames
    <3>1. n # E_BLOCKNOTINBUFFER
      BY <2>2 DEF E_BLOCKNOTINBUFFER, Frames
    <3>2. \A f \in Frames : metainfo[f] \in FrameInfo
      BY <1>2 DEF Typed
    <3>3. \A f \in Frames :
            metainfo'[f] = IF f = n THEN [metainfo[f] EXCEPT !.free = TRUE]
                                    ELSE metainfo[f]
      BY <3>1, <1>1, <1>2 DEF Typed
    <3> QED BY <3>2, <3>3 DEF FrameInfo
  <2> QED BY <2>1, <2>2, <1>4
<1>6. Typed(metainfo')
  <2>1. metainfo' = [f \in Frames |-> metainfo'[f]]
    BY <1>1, <1>2 DEF Typed
  <2> QED BY <2>1, <1>5 DEF Typed
<1>7. LiveOnce(metainfo', al)
  <2> SUFFICES ASSUME NEW f \in Frames, ~metainfo'[f].free
               PROVE  /\ metainfo'[f].blockNum \in Block
                      /\ al[metainfo'[f].blockNum] \in ClientType
                      /\ \A g \in Frames :
                           /\ ~metainfo'[g].free
                           /\ metainfo'[g].blockNum = metainfo'[f].blockNum
                           => g = f
    BY DEF LiveOnce
  <2>1. ~metainfo[f].free /\ f # n
    BY <1>5
  <2>2. metainfo[f].blockNum # b
    BY <2>1, <1>4
  <2> QED BY <2>1, <2>2, <1>2, <1>3, <1>5 DEF Sound, LiveOnce
<1>8. StaleAbove(metainfo', al)
  <2> SUFFICES ASSUME NEW f \in Frames, metainfo'[f].free,
                      metainfo'[f].blockNum \in Block,
                      al[metainfo'[f].blockNum] \in ClientType
               PROVE  \E g \in Frames :
                        /\ g < f /\ ~metainfo'[g].free
                        /\ metainfo'[g].blockNum = metainfo'[f].blockNum
    BY DEF StaleAbove
  <2>1. /\ metainfo[f].blockNum # b /\ metainfo[f].blockNum \in Block
        /\ blockAllocMap[metainfo[f].blockNum] \in ClientType
    BY <1>3, <1>5
  <2>2. metainfo[f].free
    BY <2>1, <1>4, <1>5
  <2>3. PICK g \in Frames : /\ g < f /\ ~metainfo[g].free
                            /\ metainfo[g].blockNum = metainfo[f].blockNum
    BY <2>1, <2>2, <1>2 DEF Sound, StaleAbove
  <2>4. g # n
    BY <2>1, <2>3, <1>4
  <2> QED BY <2>3, <2>4, <1>5
<1>9. Stamped(metainfo')
  BY <1>2, <1>5 DEF Sound, Stamped
<1>10. Sound(metainfo', al)
  BY <1>6, <1>7, <1>8, <1>9 DEF Sound
<1>11. Clean(metainfo', blocks', disk')
  BY <1>1, <1>5 DEF Inv, Clean
<1>12. ASSUME NEW c \in Block \ {b}, Owned(c)
       PROVE  ContentIn(metainfo', blocks', disk', c)
                = ContentIn(metainfo, blocks, disk, c)
  <2>1. al[c] \in ClientType /\ blockAllocMap[c] \in ClientType
    BY <1>3, <1>12 DEF Owned
  <2>2. CASE \E g \in Frames : ~metainfo[g].free /\ metainfo[g].blockNum = c
    <3>1. PICK g \in Frames : ~metainfo[g].free /\ metainfo[g].blockNum = c
      BY <2>2
    <3>2. ~metainfo'[g].free /\ metainfo'[g].blockNum = c
      BY <3>1, <1>4, <1>5
    <3>3. ContentIn(metainfo, blocks, disk, c) = blocks[g]
      BY <3>1, <2>1, <1>2, ContentCases
    <3>4. ContentIn(metainfo', blocks', disk', c) = blocks'[g]
      BY <3>2, <2>1, <1>10, ContentCases
    <3> QED BY <3>3, <3>4, <1>1
  <2>3. CASE \A g \in Frames : ~metainfo[g].free => metainfo[g].blockNum # c
    <3>1. \A g \in Frames : ~metainfo'[g].free => metainfo'[g].blockNum # c
      BY <2>3, <1>5
    <3>2. ContentIn(metainfo, blocks, disk, c) = disk[c]
      BY <2>1, <2>3, <1>2, ContentCases
    <3>3. ContentIn(metainfo', blocks', disk', c) = disk'[c]
      BY <2>1, <3>1, <1>10, ContentCases
    <3> QED BY <3>2, <3>3, <1>1
  <2> QED BY <2>2, <2>3
<1> QED BY <1>1, <1>3, <1>10, <1>11, <1>12 DEF al

LEMMA ReleaseInv ==
  ASSUME Inv, NEW b \in Block, releaseBlock(b)
  PROVE  Inv'
<1>1. /\ Sound(metainfo', blockAllocMap') /\ Clean(metainfo', blocks', disk')
      /\ blockAllocMap' \in [Block -> BlockType]
  BY ReleaseOk
<1>2. UNCHANGED <<blocks, disk, filling>> /\ filling = {} /\ handle' = NoHandle
  BY DEF releaseBlock
<1>3. TypeOK'
  BY <1>1, <1>2 DEF TypeOK, Inv, Sound, Typed
<1> QED BY <1>1, <1>2, <1>3 DEF Inv, FillingDirty, FillingRecent

\* Reading a released block moves timestamps and nothing else.
LEMMA ReadReleasedOk ==
  ASSUME ReleasedInFrame, Inv, NEW b \in Block, NEW k \in 1 .. 2, ReadReleased(b, k)
  PROVE  /\ Inv'
         /\ UNCHANGED <<blocks, disk, blockAllocMap>>
         /\ \A c \in Block : Owned(c) =>
              ContentIn(metainfo', blocks, disk, c)
                = ContentIn(metainfo, blocks, disk, c)
<1> DEFINE n == getBufferNum(metainfo, b)
<1>1. /\ metainfo' = Touch(metainfo, n, k) /\ k \in Nat \ {0}
      /\ UNCHANGED <<blocks, disk, blockAllocMap>>
      /\ filling' = {} /\ handle' = NoHandle
  <2>1. \E f \in Frames : metainfo[f].blockNum = b
    BY DEF ReadReleased, ReleasedInFrame
  <2>2. n \in Frames
    BY <2>1, LookupCarried
  <2>3. n # E_BLOCKNOTINBUFFER
    BY <2>2, BufferAssumption DEF Frames, E_BLOCKNOTINBUFFER
  <2>4. Loaded(b, k) = {[frame |-> n, meta |-> Touch(metainfo, n, k),
                         bytes |-> blocks, run |-> disk]}
    BY <2>3 DEF Loaded
  <2> QED BY <2>4 DEF ReadReleased
<1>2. Sound(metainfo, blockAllocMap) /\ Typed(metainfo)
  BY DEF Inv, Sound
<1> HIDE DEF n
<1>3. /\ Sound(metainfo', blockAllocMap)
      /\ \A f \in Frames : /\ metainfo'[f].free = metainfo[f].free
                           /\ metainfo'[f].blockNum = metainfo[f].blockNum
                           /\ metainfo'[f].dirty = metainfo[f].dirty
  BY <1>1, <1>2, TouchFields, TouchSound
<1>4. Clean(metainfo', blocks, disk)
  BY <1>3 DEF Inv, Clean
<1>5. TypeOK'
  BY <1>1, <1>3 DEF TypeOK, Inv, Sound, Typed
<1>6. Inv'
  BY <1>1, <1>3, <1>4, <1>5 DEF Inv, FillingDirty, FillingRecent
<1>7. ASSUME NEW c \in Block, Owned(c)
      PROVE  ContentIn(metainfo', blocks, disk, c)
               = ContentIn(metainfo, blocks, disk, c)
  <2>1. CASE \E g \in Frames : ~metainfo[g].free /\ metainfo[g].blockNum = c
    BY <2>1, <1>2, <1>3, <1>7, ContentCases DEF Owned
  <2>2. CASE \A g \in Frames : ~metainfo[g].free => metainfo[g].blockNum # c
    BY <2>2, <1>2, <1>3, <1>7, ContentCases DEF Owned
  <2> QED BY <2>1, <2>2
<1> QED BY <1>1, <1>6, <1>7

\* Every operation of the buffer keeps the invariant.
LEMMA StepInv == ASSUME GarbageOutside, ReleasedInFrame PROVE Inv /\ [Next]_vars => Inv'
<1> SUFFICES ASSUME Inv, [Next]_vars PROVE Inv'
  OBVIOUS
<1>1. ASSUME NEW b \in Block, NEW k \in 1 .. 2, Read(b, k) PROVE Inv'
  BY <1>1, ReadInv
<1>2. ASSUME NEW b \in Block, NEW k \in 1 .. 2, ReadReleased(b, k) PROVE Inv'
  BY <1>2, ReadReleasedOk
<1>3. ASSUME NEW b \in Block, NEW k \in 1 .. 2, NEW v \in Values, Write(b, k, v)
      PROVE  Inv'
  BY <1>3, WriteInv
<1>4. ASSUME NEW b \in Block, NEW v \in Values, BeginFill(b, v) PROVE Inv'
  BY <1>4, BeginFillInv
<1>5. ASSUME NEW b \in Block, NEW i \in EntryIndex, NEW v \in Values,
             SetEntry(b, i, v)
      PROVE  Inv'
  BY <1>5, SetEntryInv
<1>6. CASE EndFill
  BY <1>6 DEF EndFill, Inv, TypeOK, Sound, Typed, LiveOnce, StaleAbove,
              Stamped, Clean, FillingDirty, FillingRecent
<1>7. ASSUME NEW t \in NewTypes, NEW v \in Values, NewBlock(t, v) PROVE Inv'
  BY <1>7, NewBlockInv
<1>8. ASSUME NEW t \in NewTypes, NEW v \in Values, NewBlockDiskFull(t, v)
      PROVE  Inv'
  BY <1>8, NewBlockDiskFullInv
<1>9. ASSUME NEW b \in Block, releaseBlock(b) PROVE Inv'
  BY <1>9, ReleaseInv
<1>10. CASE UNCHANGED vars
  BY <1>10 DEF vars, Inv, TypeOK, Sound, Typed, LiveOnce, StaleAbove, Stamped,
               Clean, FillingDirty, FillingRecent, Holds, Live
<1> QED BY <1>1, <1>2, <1>3, <1>4, <1>5, <1>6, <1>7, <1>8, <1>9, <1>10 DEF Next

THEOREM Invariance == ASSUME GarbageOutside, ReleasedInFrame PROVE Spec => []Inv
<1>1. Init => Inv
  BY InitInv
<1>2. Inv /\ [Next]_vars => Inv'
  BY StepInv
<1> QED BY <1>1, <1>2, PTL DEF Spec

-----------------------------------------------------------------------------
(* The safety properties.                                                  *)

\* Every variable keeps its type.
THEOREM TypeCorrect == ASSUME GarbageOutside, ReleasedInFrame PROVE Spec => []TypeOK
<1>1. Inv => TypeOK
  BY DEF Inv
<1> QED BY <1>1, Invariance, PTL

\* Only owned blocks are in live frames, and none is in two: getFreeBuffer never
\* makes a second copy of a block.
THEOREM LiveFrameUnique == ASSUME GarbageOutside, ReleasedInFrame PROVE Spec => []OneLiveFrame
<1>1. Inv => OneLiveFrame
  BY DEF Inv, Sound, LiveOnce, Live, Owned, OneLiveFrame
<1> QED BY <1>1, Invariance, PTL

\* The bytes releaseBlock abandons are never found by getBufferNum once their
\* block has an owner again: a lower frame holds the block.
THEOREM StaleCopiesSafe == ASSUME GarbageOutside, ReleasedInFrame PROVE Spec => []StaleBehindLive
<1>1. Inv => StaleBehindLive
  BY DEF Inv, Sound, StaleAbove, Live, Owned, StaleBehindLive
<1> QED BY <1>1, Invariance, PTL

\* A live frame that is not dirty agrees with the run copy, so replacing it
\* without a write loses nothing.
THEOREM CleanFramesSafe == ASSUME GarbageOutside, ReleasedInFrame PROVE Spec => []CleanMatchesDisk
<1>1. Inv => CleanMatchesDisk
  BY DEF Inv, Sound, Clean, Live, Owned, CleanMatchesDisk
<1> QED BY <1>1, Invariance, PTL

\* An index block between its setHeader and its last setEntry is in a dirty live
\* frame, although setEntry sets the dirty bit of another block.
THEOREM FillingStaysDirty == ASSUME GarbageOutside, ReleasedInFrame PROVE Spec => []FillingDirty
<1>1. Inv => FillingDirty
  BY DEF Inv, Sound
<1> QED BY <1>1, Invariance, PTL

\* Ending the session at any moment loses no write.
THEOREM FlushLosesNothing == ASSUME GarbageOutside, ReleasedInFrame PROVE Spec => []FlushComplete
<1>1. Inv => FlushComplete
  <2> SUFFICES ASSUME Inv, NEW b \in Block, Owned(b)
               PROVE  AfterFlush(b) = Content(b)
    BY DEF FlushComplete
  <2>1. Sound(metainfo, blockAllocMap) /\ Content(b) = ContentIn(metainfo, blocks, disk, b)
    BY DEF Inv, Content, BytesOf, ContentIn
  <2>2. CASE \E g \in Frames : Live(g) /\ metainfo[g].blockNum = b
    <3>1. PICK g \in Frames : Live(g) /\ metainfo[g].blockNum = b
      BY <2>2
    <3>2. Content(b) = blocks[g]
      BY <2>1, <3>1, ContentCases DEF Live, Owned
    <3>3. \A f \in Frames : Live(f) /\ metainfo[f].blockNum = b => f = g
      BY <2>1, <3>1 DEF Sound, LiveOnce, Live
    <3>4. CASE metainfo[g].dirty
      <4>1. DirtyFrames(b) = {g}
        BY <3>1, <3>3, <3>4 DEF DirtyFrames
      <4>2. (CHOOSE f \in {g} : \A h \in {g} : h <= f) = g
        BY DEF Frames
      <4> QED BY <3>2, <4>1, <4>2 DEF AfterFlush
    <3>5. CASE ~metainfo[g].dirty
      <4>1. DirtyFrames(b) = {}
        BY <3>3, <3>5 DEF DirtyFrames
      <4> QED BY <3>1, <3>2, <3>5, <4>1 DEF AfterFlush, Inv, Clean, Live
    <3> QED BY <3>4, <3>5
  <2>3. CASE \A g \in Frames : Live(g) => metainfo[g].blockNum # b
    <3>1. Content(b) = disk[b]
      BY <2>1, <2>3, ContentCases DEF Live, Owned
    <3>2. DirtyFrames(b) = {}
      BY <2>3 DEF DirtyFrames
    <3> QED BY <3>1, <3>2 DEF AfterFlush
  <2> QED BY <2>2, <2>3
<1> QED BY <1>1, Invariance, PTL

-----------------------------------------------------------------------------
(* The buffer implements the block store.                                  *)

Contents == [b \in Block |-> Content(b)]

LEMMA ContentIs ==
  \A b \in Block :
    Contents[b] = IF Owned(b) THEN ContentIn(metainfo, blocks, disk, b) ELSE NoContent
BY DEF Contents, Content, BytesOf, ContentIn

LEMMA InitRefines == Init => Store!Init
<1> SUFFICES ASSUME Init PROVE Store!Init
  OBVIOUS
<1>1. ASSUME NEW b \in Block, Owned(b)
      PROVE  ContentIn(metainfo, blocks, disk, b) = disk[b]
  <2>1. Sound(metainfo, blockAllocMap) /\ \A f \in Frames : metainfo[f].free
    BY InitInv DEF Inv, Init
  <2> QED BY <2>1, <1>1, ContentCases DEF Owned
<1>2. \A b \in Block : Contents[b] = IF Owned(b) THEN disk[b] ELSE NoContent
  BY <1>1, ContentIs
<1>3. \A b \in Block : /\ Contents[b] \in Values \cup {NoContent}
                       /\ Contents[b] = NoContent <=> ~Owned(b)
  BY <1>2, BufferAssumption DEF Init
<1>4. Contents \in [Block -> Values \cup {NoContent}]
  BY <1>3 DEF Contents
<1>5. blockAllocMap \in [Block -> BlockType]
  BY InitInv DEF Inv, TypeOK
<1> QED BY <1>3, <1>4, <1>5
        DEF Store!Init, Store!Block, Store!BlockType, Store!ClientType,
            Store!Owned, Contents, Block, BlockType, ClientType, Owned

\* A step that keeps the allocation map and the content of every owned block
\* is a stutter of the store.
LEMMA StutterRefines ==
  ASSUME blockAllocMap' = blockAllocMap,
         \A c \in Block : Owned(c) =>
           ContentIn(metainfo', blocks', disk', c)
             = ContentIn(metainfo, blocks, disk, c)
  PROVE  UNCHANGED Store!storeVars
<1>1. \A c \in Block : Contents'[c] = Contents[c]
  BY ContentIs DEF Contents, Content, BytesOf, ContentIn, Owned
<1>2. Contents' = Contents
  BY <1>1 DEF Contents
<1> QED BY <1>2 DEF Store!storeVars, Contents

\* A step that gives b the content v and keeps all else writes b.
LEMMA StoreRefines ==
  ASSUME Inv, NEW b \in Block, Owned(b), NEW k \in Nat \ {0}, NEW v \in Values,
         NEW d, StoreInto(b, k, v, d),
         d = b \/ \E f \in Frames : Holds(metainfo, f, b)
  PROVE  Store!Write(b, v)
<1>1. blockAllocMap' = blockAllocMap
  BY DEF StoreInto
<1>2. /\ ContentIn(metainfo', blocks', disk', b) = v
      /\ \A c \in Block \ {b} : Owned(c) =>
           ContentIn(metainfo', blocks', disk', c)
             = ContentIn(metainfo, blocks, disk, c)
  BY StoreOk
<1>3. \A c \in Block : Contents'[c] = [Contents EXCEPT ![b] = v][c]
  BY <1>1, <1>2 DEF Contents, Content, BytesOf, ContentIn, Owned
<1>4. Contents' = [Contents EXCEPT ![b] = v]
  BY <1>3 DEF Contents
<1> QED BY <1>1, <1>4 DEF Store!Write, Store!Owned, Store!ClientType, Owned,
                          ClientType, Contents

LEMMA StepRefines ==
  ASSUME GarbageOutside, ReleasedInFrame
  PROVE  Inv /\ [Next]_vars => [Store!Next]_(Store!storeVars)
<1> SUFFICES ASSUME Inv, [Next]_vars PROVE [Store!Next]_(Store!storeVars)
  OBVIOUS
<1>0. Store!Block = Block /\ Store!ClientType = ClientType
  BY DEF Store!Block, Block, Store!ClientType, ClientType
<1>1. ASSUME NEW b \in Block, NEW k \in 1 .. 2, Read(b, k)
      PROVE  UNCHANGED Store!storeVars
  <2>1. PICK o \in Loaded(b, k) :
          metainfo' = o.meta /\ blocks' = o.bytes /\ disk' = o.run
    BY <1>1 DEF Read
  <2>2. Owned(b) /\ k \in Nat \ {0} /\ blockAllocMap' = blockAllocMap
    BY <1>1 DEF Read
  <2>3. \A c \in Block : Owned(c) =>
          ContentIn(o.meta, o.bytes, o.run, c) = ContentIn(metainfo, blocks, disk, c)
    BY <2>2, LoadedOk
  <2> QED BY <2>1, <2>2, <2>3, StutterRefines
<1>2. ASSUME NEW b \in Block, NEW k \in 1 .. 2, ReadReleased(b, k)
      PROVE  UNCHANGED Store!storeVars
  BY <1>2, ReadReleasedOk, StutterRefines
<1>3. ASSUME NEW b \in Block, NEW k \in 1 .. 2, NEW v \in Values, Write(b, k, v)
      PROVE  Store!Next
  <2>1. Owned(b) /\ StoreInto(b, k, v, b) /\ k \in Nat \ {0}
    BY <1>3 DEF Write
  <2> QED BY <2>1, <1>0, StoreRefines DEF Store!Next
<1>4. ASSUME NEW b \in Block, NEW v \in Values, BeginFill(b, v) PROVE Store!Next
  <2>1. Owned(b) /\ StoreInto(b, 1, v, b)
    BY <1>4 DEF BeginFill
  <2> QED BY <2>1, <1>0, StoreRefines DEF Store!Next
<1>5. ASSUME NEW b \in Block, NEW i \in EntryIndex, NEW v \in Values,
             SetEntry(b, i, v)
      PROVE  Store!Next
  <2>1. Owned(b) /\ StoreInto(b, 1, v, i) /\ \E f \in Frames : Holds(metainfo, f, b)
    BY <1>5, FillingHeld DEF SetEntry
  <2> QED BY <2>1, <1>0, StoreRefines DEF Store!Next
<1>6. CASE EndFill
  BY <1>6, StutterRefines DEF EndFill
<1>7. ASSUME NEW t \in NewTypes, NEW v \in Values, NewBlock(t, v) PROVE Store!Next
  <2>1. PICK b \in Unused : (\A c \in Unused : b <= c) /\ AllocateAt(b, t, v)
    BY <1>7 DEF NewBlock
  <2>2. /\ blockAllocMap' = [blockAllocMap EXCEPT ![b] = t] /\ t \in ClientType
        /\ ContentIn(metainfo', blocks', disk', b) = v
        /\ \A c \in Block \ {b} : Owned(c) =>
             ContentIn(metainfo', blocks', disk', c)
               = ContentIn(metainfo, blocks, disk, c)
    BY <2>1, AllocateOk
  <2>3. /\ b \in Block /\ blockAllocMap[b] = "UNUSED_BLK"
        /\ \A c \in Block : c < b => blockAllocMap[c] # "UNUSED_BLK"
    BY <2>1 DEF Unused, Block
  <2>4. blockAllocMap \in [Block -> BlockType]
    BY DEF Inv, TypeOK
  <2>5. \A c \in Block : Contents'[c] = [Contents EXCEPT ![b] = v][c]
    BY <2>2, <2>3, <2>4 DEF Contents, Content, BytesOf, ContentIn, Owned
  <2>6. Contents' = [Contents EXCEPT ![b] = v]
    BY <2>5 DEF Contents
  <2>7. Store!Allocate(b, t, v)
    BY <2>2, <2>3, <2>6, <1>0 DEF Store!Allocate, Contents
  <2> QED BY <2>2, <2>3, <2>7, <1>0 DEF Store!Next
<1>8. ASSUME NEW t \in NewTypes, NEW v \in Values, NewBlockDiskFull(t, v)
      PROVE  UNCHANGED Store!storeVars
  <2>1. UNCHANGED <<metainfo, blocks, blockAllocMap, disk>>
    BY <1>8, NewBlockDiskFullInv
  <2> QED BY <2>1, StutterRefines
<1>9. ASSUME NEW b \in Block, releaseBlock(b) PROVE Store!Next
  <2>1. /\ blockAllocMap' = [blockAllocMap EXCEPT ![b] = "UNUSED_BLK"]
        /\ \A c \in Block \ {b} : Owned(c) =>
             ContentIn(metainfo', blocks', disk', c)
               = ContentIn(metainfo, blocks, disk, c)
    BY <1>9, ReleaseOk
  <2>2. Owned(b) /\ blockAllocMap \in [Block -> BlockType]
    BY <1>9 DEF releaseBlock, Inv, TypeOK
  <2>3. \A c \in Block : Contents'[c] = [Contents EXCEPT ![b] = NoContent][c]
    BY <2>1, <2>2 DEF Contents, Content, BytesOf, ContentIn, Owned, ClientType
  <2>4. Contents' = [Contents EXCEPT ![b] = NoContent]
    BY <2>3 DEF Contents
  <2>5. Store!Release(b)
    BY <2>1, <2>2, <2>4, <1>0 DEF Store!Release, Store!Owned, Owned, Contents
  <2> QED BY <2>5, <1>0 DEF Store!Next
<1>10. CASE UNCHANGED vars
  BY <1>10, StutterRefines DEF vars
<1> QED BY <1>1, <1>2, <1>3, <1>4, <1>5, <1>6, <1>7, <1>8, <1>9, <1>10 DEF Next

\* Whatever the buffer evicts, writes back and reloads, a client sees a store of
\* blocks in which a read returns what was written last.
THEOREM Refinement == ASSUME GarbageOutside, ReleasedInFrame PROVE Spec => ImplementsBlockStore
<1>1. Init => Store!Init
  BY InitRefines
<1>2. Inv /\ [Next]_vars => [Store!Next]_(Store!storeVars)
  BY StepRefines
<1> QED BY <1>1, <1>2, Invariance, PTL DEF Spec, Store!Spec, ImplementsBlockStore
=============================================================================
