--------------------------- MODULE UIWindowProofs ---------------------------
(* Proofs about UIWindow and GPUDriverGL, for any number of textures, render *)
(* buffers, geometries and commands.                                        *)
EXTENDS UIWindow, FiniteSetTheorems, FunctionTheorems, SequenceTheorems,
        WellFoundedInduction, TLAPS

-----------------------------------------------------------------------------
(* The inductive invariant.                                                 *)

\* Functions from a part of S to T.
Maps(S, T) == UNION {[D -> T] : D \in SUBSET S}

TextureEntry  == [tex : Nat, buffer : Nat]
BufferEntry   == [texture : Nat, fbo : [Contexts -> Nat]]
GeometryEntry == [vertices : Nat, indices : Nat, vao : [Contexts -> Nat]]
Command       == [serial : Nat, type : {"draw", "clear"}, geometry : Nat, buffer : Nat,
                  texture : Nat]

DriverTypes ==
  /\ texture_map \in Maps(Nat, TextureEntry)
  /\ render_buffer_map \in Maps(Nat, BufferEntry)
  /\ geometry_map \in Maps(Nat, GeometryEntry)
  /\ next_id \in [texture : Nat, buffer : Nat, geometry : Nat]
  /\ gl \in [textures : SUBSET Nat, buffers : SUBSET Nat,
             framebuffers : Maps(Contexts \X Nat, Nat),
             arrays : Maps(Contexts \X Nat, Nat \X Nat)]

LoopTypes ==
  /\ command_list \in Seq(Command)
  /\ cursor \in Nat /\ submitted \in Nat /\ drawn \in Nat
  /\ engine \in [geometry : Nat, texture : Nat]
  /\ target \in Nat
  /\ alive \in [texture : SUBSET Nat, buffer : SUBSET Nat, geometry : SUBSET Nat]

\* An id is given out once, and an object that is in use has an entry.
IdsInv ==
  /\ \A t \in DOMAIN texture_map : t < next_id.texture
  /\ \A b \in DOMAIN render_buffer_map : b < next_id.buffer
  /\ \A g \in DOMAIN geometry_map : g < next_id.geometry
  /\ next_id.texture > 0 /\ next_id.buffer > 0 /\ next_id.geometry > 0
  /\ alive.texture \subseteq DOMAIN texture_map \ {0}
  /\ alive.buffer = DOMAIN render_buffer_map \ {0}
  /\ \A b \in alive.buffer : render_buffer_map[b].texture \in DOMAIN texture_map \ {0}
  /\ 0 \in DOMAIN render_buffer_map => render_buffer_map[0] = NoBuffer
  /\ DOMAIN geometry_map = Geometries /\ 0 \notin Geometries
  /\ engine.geometry \notin alive.geometry

\* The textures that OpenGL has are those of the library, each of one.
TexturesInv ==
  /\ IsFiniteSet(gl.textures)
  /\ \A t \in alive.texture : texture_map[t].tex \in gl.textures
  /\ \A n \in gl.textures : \E t \in alive.texture : texture_map[t].tex = n
  /\ \A t, u \in alive.texture : texture_map[t].tex = texture_map[u].tex => t = u

\* Two buffers for each geometry.
BuffersInv ==
  /\ IsFiniteSet(gl.buffers)
  /\ \A g \in Geometries : /\ geometry_map[g].vertices \in gl.buffers
                           /\ geometry_map[g].indices \in gl.buffers
                           /\ geometry_map[g].vertices # geometry_map[g].indices
  /\ \A n \in gl.buffers :
       \E g \in Geometries : n \in {geometry_map[g].vertices, geometry_map[g].indices}
  /\ \A g, h \in Geometries :
       g # h => {geometry_map[g].vertices, geometry_map[g].indices}
                  \cap {geometry_map[h].vertices, geometry_map[h].indices} = {}

\* Framebuffers are made in the context of the window only; each is of one render
\* buffer, and of its texture.
FramebuffersInv ==
  /\ IsFiniteSet(OwnNames(gl.framebuffers))
  /\ \A b \in alive.buffer : render_buffer_map[b].fbo["render"] = 0
  /\ \A b \in alive.buffer :
       LET n == render_buffer_map[b].fbo[Window]
       IN  n # 0 => /\ <<Window, n>> \in DOMAIN gl.framebuffers
                    /\ gl.framebuffers[<<Window, n>>]
                         = texture_map[render_buffer_map[b].texture].tex
  /\ \A p \in DOMAIN gl.framebuffers :
       /\ p[1] = Window /\ p[2] # 0
       /\ \E b \in alive.buffer : render_buffer_map[b].fbo[Window] = p[2]
  /\ \A b, c \in alive.buffer :
       render_buffer_map[b].fbo[Window] = render_buffer_map[c].fbo[Window]
         => b = c \/ render_buffer_map[b].fbo[Window] = 0

\* So are vertex arrays, of a geometry and its buffers.
ArraysInv ==
  /\ IsFiniteSet(OwnNames(gl.arrays))
  /\ \A g \in Geometries : geometry_map[g].vao["render"] = 0
  /\ \A g \in Geometries :
       LET n == geometry_map[g].vao[Window]
       IN  n # 0 => /\ <<Window, n>> \in DOMAIN gl.arrays
                    /\ gl.arrays[<<Window, n>>]
                         = <<geometry_map[g].vertices, geometry_map[g].indices>>
  /\ \A p \in DOMAIN gl.arrays :
       /\ p[1] = Window /\ p[2] # 0
       /\ \E g \in Geometries : geometry_map[g].vao[Window] = p[2]
  /\ \A g, h \in Geometries :
       geometry_map[g].vao[Window] = geometry_map[h].vao[Window]
         => g = h \/ geometry_map[g].vao[Window] = 0

\* A command can be executed.
Executable(c) ==
  /\ c.buffer \in Drawable
  /\ c.type = "draw" => c.geometry \in alive.geometry /\ c.texture \in alive.texture

\* The list holds what is submitted and not drawn, from the cursor on; there is none
\* before the library submits.
ListInv ==
  /\ cursor <= Len(command_list)
  /\ submitted = drawn + (Len(command_list) - cursor)
  /\ \A i \in 1..Len(command_list) :
       i > cursor => command_list[i].serial = drawn + (i - cursor)
  /\ at \notin {"submitted", "check", "draw"} => command_list = <<>>
  /\ at # "draw" => cursor = 0
  /\ \A i \in 1..Len(command_list) : Executable(command_list[i])

\* Before anything is drawn the library has made the render buffer of the view, on a
\* texture that it keeps.
TargetInv ==
  /\ target # 0 => target \in alive.texture
  /\ alive.buffer # {} => target # 0
  /\ at = "draw" => command_list # <<>>
  /\ at = "window" \/ engine.geometry # 0 => target # 0
  /\ engine.geometry # 0 => engine.texture = target

NamesInv == TexturesInv /\ BuffersInv /\ FramebuffersInv /\ ArraysInv

TypesInv == DriverTypes /\ LoopTypes

IInv == TypesInv /\ IdsInv /\ NamesInv /\ ListInv /\ TargetInv


-----------------------------------------------------------------------------
(* Maps, and fresh names.                                                   *)

\* What it is to be a map.
LEMMA MapsAre ==
  ASSUME NEW S, NEW T, NEW f
  PROVE  f \in Maps(S, T) <=> DOMAIN f \subseteq S /\ f \in [DOMAIN f -> T]
<1>1. ASSUME f \in Maps(S, T) PROVE DOMAIN f \subseteq S /\ f \in [DOMAIN f -> T]
  <2>1. PICK D \in SUBSET S : f \in [D -> T]
    BY <1>1 DEF Maps
  <2> QED BY <2>1
<1>2. ASSUME DOMAIN f \subseteq S, f \in [DOMAIN f -> T] PROVE f \in Maps(S, T)
  BY <1>2 DEF Maps
<1> QED BY <1>1, <1>2

\* A map into which an entry is put is a map of the same type.
LEMMA MapPut ==
  ASSUME NEW S, NEW T, NEW f \in Maps(S, T), NEW x \in S, NEW e \in T
  PROVE  Put(f, x, e) \in Maps(S, T)
<1>1. DOMAIN f \subseteq S /\ f \in [DOMAIN f -> T]
  BY MapsAre
<1>2. DOMAIN Put(f, x, e) \subseteq S /\ Put(f, x, e) \in [DOMAIN Put(f, x, e) -> T]
  BY <1>1 DEF Put
<1> QED BY <1>2, MapsAre

\* The maps of the driver.
LEMMA PutTypes ==
  /\ \A f \in Maps(Nat, TextureEntry), x \in Nat, e \in TextureEntry :
       Put(f, x, e) \in Maps(Nat, TextureEntry)
  /\ \A f \in Maps(Nat, BufferEntry), x \in Nat, e \in BufferEntry :
       Put(f, x, e) \in Maps(Nat, BufferEntry)
  /\ \A f \in Maps(Nat, GeometryEntry), x \in Nat, e \in GeometryEntry :
       Put(f, x, e) \in Maps(Nat, GeometryEntry)
  /\ \A f \in Maps(Contexts \X Nat, Nat), x \in Contexts \X Nat, e \in Nat :
       Put(f, x, e) \in Maps(Contexts \X Nat, Nat)
  /\ \A f \in Maps(Contexts \X Nat, Nat \X Nat), x \in Contexts \X Nat, e \in Nat \X Nat :
       Put(f, x, e) \in Maps(Contexts \X Nat, Nat \X Nat)
  BY MapPut

\* A part of a map is a map.
LEMMA MapPart ==
  ASSUME NEW S, NEW T, NEW f \in Maps(S, T), NEW D, D \subseteq DOMAIN f
  PROVE  [x \in D |-> f[x]] \in Maps(S, T)
<1>1. DOMAIN f \subseteq S /\ f \in [DOMAIN f -> T]
  BY MapsAre
<1>2. [x \in D |-> f[x]] \in [D -> T] /\ D \in SUBSET S
  BY <1>1
<1> QED BY <1>2 DEF Maps

\* The name that OpenGL gives out is free.
LEMMA FreshNameIsFree ==
  ASSUME NEW used, IsFiniteSet(used)
  PROVE  FreshName(used) \in Nat \ {0} /\ FreshName(used) \notin used
<1> DEFINE size == Cardinality(used)
<1>1. size \in Nat
  BY FS_CardinalityType
<1>2. IsFiniteSet(1..size + 1) /\ Cardinality(1..size + 1) = size + 1
  <2>1. 1 \in Int /\ size + 1 \in Int /\ ~(1 > size + 1) /\ (size + 1) - 1 + 1 = size + 1
    BY <1>1
  <2> QED BY <2>1, FS_Interval
<1>3. ~(1..size + 1 \subseteq used)
  BY <1>1, <1>2, FS_Subset
<1>4. PICK n \in 1..size + 1 :
        n \notin used /\ \A m \in 1..size + 1 : m \notin used => n <= m
  <2> DEFINE R == OpToRel(<, Nat)
             free == (1..size + 1) \ used
  <2>1. free # {} /\ free \subseteq Nat
    BY <1>1, <1>3
  <2>2. PICK n \in free : \A m \in free : ~(<<m, n>> \in R)
    <3> HIDE DEF R, free
    <3> QED BY <2>1, NatLessThanWellFounded, WFMin DEF R
  <2>3. \A m \in free : ~(m < n)
    BY <2>1, <2>2 DEF OpToRel
  <2> QED BY <1>1, <2>3
<1>5. \A m \in 1..n - 1 : m \in used
  BY <1>1, <1>4
<1> QED BY <1>4, <1>5 DEF FreshName


-----------------------------------------------------------------------------
(* What keeps each part of the invariant.                                   *)

\* The entries of the maps.
LEMMA EntryTypes ==
  ASSUME DriverTypes
  PROVE  /\ \A t \in DOMAIN texture_map : t \in Nat /\ texture_map[t] \in TextureEntry
         /\ \A b \in DOMAIN render_buffer_map :
              b \in Nat /\ render_buffer_map[b] \in BufferEntry
         /\ \A g \in DOMAIN geometry_map : g \in Nat /\ geometry_map[g] \in GeometryEntry
         /\ \A p \in DOMAIN gl.framebuffers : p \in Contexts \X Nat /\ gl.framebuffers[p] \in Nat
         /\ \A p \in DOMAIN gl.arrays : p \in Contexts \X Nat /\ gl.arrays[p] \in Nat \X Nat
<1>1. /\ texture_map \in Maps(Nat, TextureEntry)
      /\ render_buffer_map \in Maps(Nat, BufferEntry)
      /\ geometry_map \in Maps(Nat, GeometryEntry)
      /\ gl.framebuffers \in Maps(Contexts \X Nat, Nat)
      /\ gl.arrays \in Maps(Contexts \X Nat, Nat \X Nat)
  BY DEF DriverTypes
<1>2. \A S, T : \A f \in Maps(S, T) : DOMAIN f \subseteq S /\ \A x \in DOMAIN f : f[x] \in T
  BY MapsAre
<1> QED BY <1>1, <1>2

\* What has no name yet.
LEMMA NothingTypes ==
  /\ NoTexture \in TextureEntry /\ NoTexture.tex = 0 /\ NoTexture.buffer = 0
  /\ NoBuffer \in BufferEntry /\ NoBuffer.texture = 0
  /\ NoGeometry \in GeometryEntry
  /\ \A c \in Contexts : NoBuffer.fbo[c] = 0 /\ NoGeometry.vao[c] = 0
  /\ Window \in Contexts /\ "render" \in Contexts /\ Window # "render"
  /\ Contexts = {"render", Window}
  BY DEF NoTexture, TextureEntry, NoBuffer, BufferEntry, NoGeometry, GeometryEntry, Window,
         Contexts

\* The textures stay as they are.
LEMMA TexturesSame ==
  ASSUME TexturesInv, gl'.textures = gl.textures, alive'.texture = alive.texture,
         \A t \in alive.texture : texture_map'[t].tex = texture_map[t].tex
  PROVE  TexturesInv'
  BY DEF TexturesInv

\* The buffers of geometries stay as they are.
LEMMA BuffersSame ==
  ASSUME BuffersInv, gl'.buffers = gl.buffers, Geometries' = Geometries,
         \A g \in Geometries : /\ geometry_map'[g].vertices = geometry_map[g].vertices
                               /\ geometry_map'[g].indices = geometry_map[g].indices
  PROVE  BuffersInv'
<1> HIDE DEF Geometries
<1> QED BY DEF BuffersInv

\* The framebuffers stay as they are.
LEMMA FramebuffersSame ==
  ASSUME FramebuffersInv, gl'.framebuffers = gl.framebuffers, alive'.buffer = alive.buffer,
         \A b \in alive.buffer :
           /\ render_buffer_map'[b].fbo = render_buffer_map[b].fbo
           /\ texture_map'[render_buffer_map'[b].texture].tex
                = texture_map[render_buffer_map[b].texture].tex
  PROVE  FramebuffersInv'
<1>1. IsFiniteSet(OwnNames(gl'.framebuffers))
  BY DEF FramebuffersInv, OwnNames
<1>2. IsFiniteSet(OwnNames(gl.framebuffers)')
  BY <1>1 DEF OwnNames
<1>3. \A b \in alive.buffer :
        LET n == render_buffer_map[b].fbo[Window]
        IN  n # 0 => /\ <<Window, n>> \in DOMAIN gl.framebuffers
                     /\ gl.framebuffers[<<Window, n>>]
                          = texture_map[render_buffer_map[b].texture].tex
  BY DEF FramebuffersInv
<1>4. \A p \in DOMAIN gl.framebuffers :
        /\ p[1] = Window /\ p[2] # 0
        /\ \E b \in alive.buffer : render_buffer_map[b].fbo[Window] = p[2]
  BY DEF FramebuffersInv
<1>5. /\ \A b \in alive'.buffer : render_buffer_map'[b].fbo["render"] = 0
      /\ \A b, c \in alive'.buffer :
           render_buffer_map'[b].fbo[Window] = render_buffer_map'[c].fbo[Window]
             => b = c \/ render_buffer_map'[b].fbo[Window] = 0
  BY DEF FramebuffersInv
<1>6. \A b \in alive'.buffer :
        LET n == render_buffer_map'[b].fbo[Window]
        IN  n # 0 => /\ <<Window, n>> \in DOMAIN gl'.framebuffers
                     /\ gl'.framebuffers[<<Window, n>>]
                          = texture_map'[render_buffer_map'[b].texture].tex
  BY <1>3
<1>7. \A p \in DOMAIN gl'.framebuffers :
        /\ p[1] = Window /\ p[2] # 0
        /\ \E b \in alive'.buffer : render_buffer_map'[b].fbo[Window] = p[2]
  BY <1>4
<1> QED BY <1>2, <1>5, <1>6, <1>7 DEF FramebuffersInv

\* The vertex arrays stay as they are.
LEMMA ArraysSame ==
  ASSUME ArraysInv, gl'.arrays = gl.arrays, Geometries' = Geometries,
         \A g \in Geometries : geometry_map'[g] = geometry_map[g]
  PROVE  ArraysInv'
<1> HIDE DEF Geometries
<1> QED BY DEF ArraysInv, OwnNames

-----------------------------------------------------------------------------
(* What the library calls.                                                  *)

\* A texture is created.
LEMMA CreateTextureNames ==
  ASSUME TypesInv, IdsInv, NamesInv, CreateTexture, UNCHANGED engine,
         alive'.texture = alive.texture \cup {next_id.texture},
         alive'.buffer = alive.buffer, alive'.geometry = alive.geometry
  PROVE  DriverTypes' /\ IdsInv' /\ NamesInv'
<1> DEFINE entry == [At(texture_map, next_id.texture, NoTexture) EXCEPT
                       !.tex = FreshName(gl.textures)]
<1>1. DriverTypes /\ LoopTypes
  BY DEF TypesInv
<1>2. PICK id \in Nat : id = next_id.texture
  BY <1>1 DEF DriverTypes
<1>3. PICK n \in Nat \ {0} : n = FreshName(gl.textures) /\ n \notin gl.textures
  BY FreshNameIsFree DEF NamesInv, TexturesInv
<1>4. id \notin DOMAIN texture_map /\ id # 0
  BY <1>1, <1>2 DEF IdsInv, DriverTypes
<1>5. entry \in TextureEntry /\ entry.tex = n
  BY <1>2, <1>3, <1>4 DEF At, NoTexture, TextureEntry
<1>6. /\ texture_map' = Put(texture_map, id, entry)
      /\ next_id' = [next_id EXCEPT !.texture = id + 1]
      /\ gl' = [gl EXCEPT !.textures = @ \cup {n}]
      /\ UNCHANGED <<render_buffer_map, geometry_map>>
  BY <1>2, <1>3 DEF CreateTexture
<1> HIDE DEF entry
<1>7. /\ texture_map' \in Maps(Nat, TextureEntry)
      /\ DOMAIN texture_map' = DOMAIN texture_map \cup {id}
      /\ texture_map'[id].tex = n
      /\ \A t \in DOMAIN texture_map : texture_map'[t] = texture_map[t]
  <2>1. Put(texture_map, id, entry) \in Maps(Nat, TextureEntry)
    BY <1>1, <1>5, PutTypes DEF DriverTypes
  <2>2. texture_map' = [t \in DOMAIN texture_map \cup {id} |->
                          IF t = id THEN entry ELSE texture_map[t]]
    BY <1>6 DEF Put
  <2> QED BY <1>4, <1>5, <1>6, <2>1, <2>2
<1>8. /\ alive'.texture = alive.texture \cup {id} /\ alive'.buffer = alive.buffer
      /\ alive'.geometry = alive.geometry /\ Geometries' = Geometries
  BY <1>1, <1>2 DEF LoopTypes, Geometries
<1>9. /\ gl'.textures = gl.textures \cup {n} /\ gl'.buffers = gl.buffers
      /\ gl'.framebuffers = gl.framebuffers /\ gl'.arrays = gl.arrays
  BY <1>1, <1>6 DEF DriverTypes
<1>10. DriverTypes'
  BY <1>1, <1>6, <1>7 DEF DriverTypes
<1>11. IdsInv'
  <2>1. /\ next_id'.texture = id + 1 /\ next_id'.buffer = next_id.buffer
        /\ next_id'.geometry = next_id.geometry
    BY <1>1, <1>6 DEF DriverTypes
  <2>2. \A t \in DOMAIN texture_map' : t < next_id'.texture
    BY <1>1, <1>2, <1>7, <2>1, EntryTypes DEF IdsInv
  <2>3. alive'.texture \subseteq DOMAIN texture_map' \ {0}
    BY <1>4, <1>7, <1>8 DEF IdsInv
  <2>4. next_id'.texture > 0
    BY <1>2, <2>1
  <2>5. DOMAIN geometry_map' = Geometries' /\ 0 \notin Geometries'
    BY <1>6, <1>8 DEF IdsInv
  <2> QED BY <1>6, <1>7, <1>8, <2>1, <2>2, <2>3, <2>4, <2>5 DEF IdsInv
<1>12. TexturesInv'
  <2>1. IsFiniteSet(gl.textures \cup {n})
    BY FS_AddElement DEF NamesInv, TexturesInv
  <2>2. alive.texture \subseteq DOMAIN texture_map
    BY DEF IdsInv
  <2>3. IsFiniteSet(gl'.textures)
    BY <1>9, <2>1
  <2> QED BY <1>3, <1>4, <1>7, <1>8, <1>9, <2>2, <2>3 DEF NamesInv, TexturesInv
<1>13. BuffersInv' /\ ArraysInv'
  BY <1>6, <1>8, <1>9, BuffersSame, ArraysSame DEF NamesInv
<1>14. FramebuffersInv'
  <2>1. \A b \in alive.buffer : texture_map'[render_buffer_map[b].texture]
                                  = texture_map[render_buffer_map[b].texture]
    BY <1>7 DEF IdsInv
  <2> QED BY <1>6, <1>8, <1>9, <2>1, FramebuffersSame DEF NamesInv
<1> QED BY <1>10, <1>11, <1>12, <1>13, <1>14 DEF NamesInv


\* A geometry is created, by the library or by Engine.
LEMMA CreateGeometryNames ==
  ASSUME TypesInv, IdsInv, NamesInv, CreateGeometry,
         alive'.texture = alive.texture, alive'.buffer = alive.buffer,
         Geometries' = Geometries \cup {next_id.geometry},
         engine'.geometry \notin alive'.geometry
  PROVE  DriverTypes' /\ IdsInv' /\ NamesInv'
<1>1. DriverTypes /\ LoopTypes
  BY DEF TypesInv
<1>2. PICK id \in Nat : id = next_id.geometry
  BY <1>1 DEF DriverTypes
<1>3. IsFiniteSet(gl.buffers) /\ gl.buffers \subseteq Nat
  BY <1>1 DEF NamesInv, BuffersInv, DriverTypes
<1>4. PICK v \in Nat \ {0} : v = FreshName(gl.buffers) /\ v \notin gl.buffers
  BY <1>3, FreshNameIsFree
<1>5. IsFiniteSet(gl.buffers \cup {v})
  BY <1>3, FS_AddElement
<1>6. PICK i \in Nat \ {0} : i = FreshName(gl.buffers \cup {v}) /\ i \notin gl.buffers \cup {v}
  BY <1>5, FreshNameIsFree
<1>7. IsFiniteSet((gl.buffers \cup {v}) \cup {i})
  BY <1>5, FS_AddElement
<1>8. id \notin DOMAIN geometry_map /\ id # 0
  BY <1>1, <1>2 DEF IdsInv, DriverTypes
<1> DEFINE entry == [NoGeometry EXCEPT !.vertices = v, !.indices = i]
<1>9. /\ entry \in GeometryEntry /\ entry.vertices = v /\ entry.indices = i
      /\ entry.vao["render"] = 0 /\ entry.vao[Window] = 0
  BY DEF NoGeometry, GeometryEntry, Contexts, Window
<1>10. /\ geometry_map' = Put(geometry_map, id, entry)
       /\ next_id' = [next_id EXCEPT !.geometry = id + 1]
       /\ gl' = [gl EXCEPT !.buffers = @ \cup {v, i}]
       /\ UNCHANGED <<render_buffer_map, texture_map>>
  BY <1>2, <1>4, <1>6 DEF CreateGeometry
<1> HIDE DEF entry
<1>11. /\ geometry_map' \in Maps(Nat, GeometryEntry)
       /\ DOMAIN geometry_map' = DOMAIN geometry_map \cup {id}
       /\ geometry_map'[id] = entry
       /\ \A g \in DOMAIN geometry_map : geometry_map'[g] = geometry_map[g]
  <2>1. Put(geometry_map, id, entry) \in Maps(Nat, GeometryEntry)
    BY <1>1, <1>9, PutTypes DEF DriverTypes
  <2>2. geometry_map' = [t \in DOMAIN geometry_map \cup {id} |->
                           IF t = id THEN entry ELSE geometry_map[t]]
    BY <1>10 DEF Put
  <2> QED BY <1>8, <1>10, <2>1, <2>2
<1>12. /\ gl'.textures = gl.textures /\ gl'.buffers = gl.buffers \cup {v, i}
       /\ gl'.framebuffers = gl.framebuffers /\ gl'.arrays = gl.arrays
  BY <1>1, <1>10 DEF DriverTypes
<1>13. DriverTypes'
  BY <1>1, <1>10, <1>11 DEF DriverTypes
<1> HIDE DEF Geometries
<1>14. DOMAIN geometry_map = Geometries /\ Geometries' = Geometries \cup {id} /\ 0 \notin Geometries
  BY <1>2 DEF IdsInv
<1>15. IdsInv'
  <2>1. /\ next_id'.geometry = id + 1 /\ next_id'.buffer = next_id.buffer
        /\ next_id'.texture = next_id.texture
    BY <1>1, <1>10 DEF DriverTypes
  <2>2. \A g \in DOMAIN geometry_map' : g < next_id'.geometry
    BY <1>1, <1>2, <1>11, <2>1, EntryTypes DEF IdsInv
  <2>3. next_id'.geometry > 0
    BY <1>2, <2>1
  <2>4. DOMAIN geometry_map' = Geometries' /\ 0 \notin Geometries'
    BY <1>8, <1>11, <1>14
  <2> QED BY <1>10, <2>1, <2>2, <2>3, <2>4 DEF IdsInv
<1>16. TexturesInv'
  BY <1>10, <1>12, TexturesSame DEF NamesInv
<1>17. FramebuffersInv'
  BY <1>10, <1>12, FramebuffersSame DEF NamesInv
<1>18. BuffersInv'
  <2>1. gl'.buffers = (gl.buffers \cup {v}) \cup {i}
    BY <1>12
  <2>2. IsFiniteSet(gl'.buffers)
    BY <1>7, <2>1
  <2>3. \A g \in Geometries : geometry_map'[g] = geometry_map[g]
    BY <1>11, <1>14
  <2>4. /\ \A g \in Geometries : /\ geometry_map[g].vertices \in gl.buffers
                                 /\ geometry_map[g].indices \in gl.buffers
                                 /\ geometry_map[g].vertices # geometry_map[g].indices
        /\ \A n \in gl.buffers :
             \E g \in Geometries : n \in {geometry_map[g].vertices, geometry_map[g].indices}
        /\ \A g, h \in Geometries :
             g # h => {geometry_map[g].vertices, geometry_map[g].indices}
                        \cap {geometry_map[h].vertices, geometry_map[h].indices} = {}
    BY DEF NamesInv, BuffersInv
  <2>5. geometry_map'[id].vertices = v /\ geometry_map'[id].indices = i
    BY <1>9, <1>11
  <2>6. \A g \in Geometries' : /\ geometry_map'[g].vertices \in gl'.buffers
                               /\ geometry_map'[g].indices \in gl'.buffers
                               /\ geometry_map'[g].vertices # geometry_map'[g].indices
    BY <1>6, <1>14, <2>1, <2>3, <2>4, <2>5
  <2>7. \A n \in gl'.buffers :
          \E g \in Geometries' : n \in {geometry_map'[g].vertices, geometry_map'[g].indices}
    BY <1>14, <2>1, <2>3, <2>4, <2>5
  <2>8. \A g, h \in Geometries' :
          g # h => {geometry_map'[g].vertices, geometry_map'[g].indices}
                     \cap {geometry_map'[h].vertices, geometry_map'[h].indices} = {}
    BY <1>4, <1>6, <1>14, <2>3, <2>4, <2>5
  <2> QED BY <2>2, <2>6, <2>7, <2>8 DEF BuffersInv
<1>19. ArraysInv'
  <2>1. IsFiniteSet(OwnNames(gl'.arrays))
    BY <1>12 DEF NamesInv, ArraysInv
  <2>2. \A g \in Geometries : geometry_map'[g] = geometry_map[g]
    BY <1>11, <1>14
  <2>3. geometry_map'[id].vao["render"] = 0 /\ geometry_map'[id].vao[Window] = 0
    BY <1>9, <1>11
  <2> QED BY <1>12, <1>14, <2>1, <2>2, <2>3 DEF NamesInv, ArraysInv, OwnNames
<1> QED BY <1>13, <1>15, <1>16, <1>17, <1>18, <1>19 DEF NamesInv

\* A render buffer is created on a texture.
LEMMA CreateRenderBufferNames ==
  ASSUME TypesInv, IdsInv, NamesInv, NEW t \in alive.texture, CreateRenderBuffer(t),
         UNCHANGED engine, alive'.texture = alive.texture,
         alive'.buffer = alive.buffer \cup {next_id.buffer},
         alive'.geometry = alive.geometry
  PROVE  DriverTypes' /\ IdsInv' /\ NamesInv'
<1>1. DriverTypes /\ LoopTypes
  BY DEF TypesInv
<1>2. PICK id \in Nat : id = next_id.buffer
  BY <1>1 DEF DriverTypes
<1>3. id \notin DOMAIN render_buffer_map /\ id # 0
  BY <1>1, <1>2 DEF IdsInv, DriverTypes
<1>4. /\ t \in DOMAIN texture_map /\ t \in Nat /\ t # 0
      /\ texture_map[t] \in TextureEntry
  BY <1>1, EntryTypes DEF IdsInv
<1> DEFINE entry == [NoBuffer EXCEPT !.texture = t]
           texture == [texture_map[t] EXCEPT !.buffer = id]
<1>5. /\ entry \in BufferEntry /\ entry.texture = t
      /\ entry.fbo["render"] = 0 /\ entry.fbo[Window] = 0
  BY <1>4 DEF NoBuffer, BufferEntry, Contexts, Window
<1>6. texture \in TextureEntry /\ texture.tex = texture_map[t].tex
  BY <1>4 DEF TextureEntry
<1>7. /\ render_buffer_map' = Put(render_buffer_map, id, entry)
      /\ texture_map' = Put(texture_map, t, texture)
      /\ next_id' = [next_id EXCEPT !.buffer = id + 1]
      /\ UNCHANGED <<geometry_map, gl>>
  BY <1>2, <1>3, <1>4 DEF CreateRenderBuffer, At
<1> HIDE DEF entry, texture
<1>8. /\ render_buffer_map' \in Maps(Nat, BufferEntry)
      /\ DOMAIN render_buffer_map' = DOMAIN render_buffer_map \cup {id}
      /\ render_buffer_map'[id] = entry
      /\ \A b \in DOMAIN render_buffer_map : render_buffer_map'[b] = render_buffer_map[b]
  <2>1. Put(render_buffer_map, id, entry) \in Maps(Nat, BufferEntry)
    BY <1>1, <1>5, PutTypes DEF DriverTypes
  <2>2. render_buffer_map' = [b \in DOMAIN render_buffer_map \cup {id} |->
                                IF b = id THEN entry ELSE render_buffer_map[b]]
    BY <1>7 DEF Put
  <2> QED BY <1>3, <1>7, <2>1, <2>2
<1>9. /\ texture_map' \in Maps(Nat, TextureEntry)
      /\ DOMAIN texture_map' = DOMAIN texture_map
      /\ \A u \in DOMAIN texture_map : texture_map'[u].tex = texture_map[u].tex
  <2>1. Put(texture_map, t, texture) \in Maps(Nat, TextureEntry)
    BY <1>1, <1>4, <1>6, PutTypes DEF DriverTypes
  <2>2. texture_map' = [u \in DOMAIN texture_map \cup {t} |->
                          IF u = t THEN texture ELSE texture_map[u]]
    BY <1>7 DEF Put
  <2> QED BY <1>4, <1>6, <1>7, <2>1, <2>2
<1>10. DriverTypes'
  BY <1>1, <1>7, <1>8, <1>9 DEF DriverTypes
<1>11. alive'.buffer = alive.buffer \cup {id} /\ Geometries' = Geometries
  BY <1>2 DEF Geometries
<1> HIDE DEF Geometries
<1>12. IdsInv'
  <2>1. /\ next_id'.buffer = id + 1 /\ next_id'.texture = next_id.texture
        /\ next_id'.geometry = next_id.geometry
    BY <1>1, <1>7 DEF DriverTypes
  <2>2. \A b \in DOMAIN render_buffer_map' : b < next_id'.buffer
    BY <1>1, <1>2, <1>8, <2>1, EntryTypes DEF IdsInv
  <2>3. next_id'.buffer > 0
    BY <1>2, <2>1
  <2>4. alive'.buffer = DOMAIN render_buffer_map' \ {0}
    BY <1>3, <1>8, <1>11 DEF IdsInv
  <2>5. \A b \in alive'.buffer : render_buffer_map'[b].texture \in DOMAIN texture_map' \ {0}
    BY <1>4, <1>5, <1>8, <1>9, <1>11 DEF IdsInv
  <2>6. 0 \in DOMAIN render_buffer_map' => render_buffer_map'[0] = NoBuffer
    BY <1>3, <1>8 DEF IdsInv
  <2>7. DOMAIN geometry_map' = Geometries' /\ 0 \notin Geometries'
    BY <1>7, <1>11 DEF IdsInv
  <2>8. /\ \A u \in DOMAIN texture_map' : u < next_id'.texture
        /\ next_id'.texture > 0 /\ next_id'.geometry > 0
        /\ \A g \in DOMAIN geometry_map' : g < next_id'.geometry
    BY <1>7, <1>9, <2>1 DEF IdsInv
  <2>9. alive'.texture \subseteq DOMAIN texture_map' \ {0} /\ engine'.geometry \notin alive'.geometry
    BY <1>9 DEF IdsInv
  <2> QED BY <2>2, <2>3, <2>4, <2>5, <2>6, <2>7, <2>8, <2>9 DEF IdsInv
<1>13. TexturesInv'
  BY <1>7, <1>9, TexturesSame DEF NamesInv, IdsInv
<1>14. BuffersInv' /\ ArraysInv'
  BY <1>7, <1>11, BuffersSame, ArraysSame DEF NamesInv
<1>15. FramebuffersInv'
  <2>1. IsFiniteSet(OwnNames(gl.framebuffers)')
    BY <1>7 DEF NamesInv, FramebuffersInv, OwnNames
  <2>2. \A b \in alive.buffer : /\ render_buffer_map'[b] = render_buffer_map[b]
                                /\ texture_map'[render_buffer_map'[b].texture].tex
                                     = texture_map[render_buffer_map[b].texture].tex
    BY <1>8, <1>9 DEF IdsInv
  <2>3. render_buffer_map'[id].fbo["render"] = 0 /\ render_buffer_map'[id].fbo[Window] = 0
    BY <1>5, <1>8
  <2>4. gl'.framebuffers = gl.framebuffers
    BY <1>7
  <2>5. /\ \A b \in alive.buffer : render_buffer_map[b].fbo["render"] = 0
        /\ \A b \in alive.buffer :
             LET n == render_buffer_map[b].fbo[Window]
             IN  n # 0 => /\ <<Window, n>> \in DOMAIN gl.framebuffers
                          /\ gl.framebuffers[<<Window, n>>]
                               = texture_map[render_buffer_map[b].texture].tex
        /\ \A p \in DOMAIN gl.framebuffers :
             /\ p[1] = Window /\ p[2] # 0
             /\ \E b \in alive.buffer : render_buffer_map[b].fbo[Window] = p[2]
        /\ \A b, c \in alive.buffer :
             render_buffer_map[b].fbo[Window] = render_buffer_map[c].fbo[Window]
               => b = c \/ render_buffer_map[b].fbo[Window] = 0
    BY DEF NamesInv, FramebuffersInv
  <2>6. \A b \in alive'.buffer : render_buffer_map'[b].fbo["render"] = 0
    BY <1>11, <2>2, <2>3, <2>5
  <2>7. \A b \in alive'.buffer :
          LET n == render_buffer_map'[b].fbo[Window]
          IN  n # 0 => /\ <<Window, n>> \in DOMAIN gl'.framebuffers
                       /\ gl'.framebuffers[<<Window, n>>]
                            = texture_map'[render_buffer_map'[b].texture].tex
    <3> SUFFICES ASSUME NEW b \in alive.buffer, render_buffer_map[b].fbo[Window] # 0
                 PROVE  LET n == render_buffer_map[b].fbo[Window]
                        IN  /\ <<Window, n>> \in DOMAIN gl.framebuffers
                            /\ gl.framebuffers[<<Window, n>>]
                                 = texture_map[render_buffer_map[b].texture].tex
      BY <1>11, <2>2, <2>3, <2>4
    <3> QED BY <2>5
  <2>8. \A p \in DOMAIN gl'.framebuffers :
          /\ p[1] = Window /\ p[2] # 0
          /\ \E b \in alive'.buffer : render_buffer_map'[b].fbo[Window] = p[2]
    BY <1>11, <2>2, <2>4, <2>5
  <2>9. \A b, c \in alive'.buffer :
          render_buffer_map'[b].fbo[Window] = render_buffer_map'[c].fbo[Window]
            => b = c \/ render_buffer_map'[b].fbo[Window] = 0
    BY <1>11, <2>2, <2>3, <2>5
  <2> QED BY <2>1, <2>6, <2>7, <2>8, <2>9 DEF FramebuffersInv
<1> QED BY <1>10, <1>12, <1>13, <1>14, <1>15 DEF NamesInv


\* A texture is destroyed: its entry stays.
LEMMA DestroyTextureNames ==
  ASSUME TypesInv, IdsInv, NamesInv, NEW t \in alive.texture, DestroyTexture(t),
         UNCHANGED engine, alive'.texture = alive.texture \ {t},
         alive'.buffer = alive.buffer, alive'.geometry = alive.geometry
  PROVE  DriverTypes' /\ IdsInv' /\ NamesInv'
<1>1. DriverTypes /\ LoopTypes
  BY DEF TypesInv
<1>2. t \in DOMAIN texture_map
  BY DEF IdsInv
<1>3. /\ gl' = [gl EXCEPT !.textures = @ \ {texture_map[t].tex}]
      /\ UNCHANGED <<texture_map, render_buffer_map, geometry_map, next_id>>
  BY <1>2 DEF DestroyTexture, At, driverMaps
<1>4. /\ gl'.textures = gl.textures \ {texture_map[t].tex} /\ gl'.buffers = gl.buffers
      /\ gl'.framebuffers = gl.framebuffers /\ gl'.arrays = gl.arrays
  BY <1>1, <1>3 DEF DriverTypes
<1>5. DriverTypes'
  BY <1>1, <1>3 DEF DriverTypes
<1>6. Geometries' = Geometries
  BY DEF Geometries
<1> HIDE DEF Geometries
<1>7. IdsInv'
  BY <1>3, <1>6 DEF IdsInv
<1>8. BuffersInv' /\ ArraysInv' /\ FramebuffersInv'
  BY <1>3, <1>4, <1>6, BuffersSame, ArraysSame, FramebuffersSame DEF NamesInv
<1>9. TexturesInv'
  <2>1. IsFiniteSet(gl.textures \ {texture_map[t].tex})
    BY FS_RemoveElement DEF NamesInv, TexturesInv
  <2>2. IsFiniteSet(gl'.textures)
    BY <1>4, <2>1
  <2> QED BY <1>3, <1>4, <2>2 DEF NamesInv, TexturesInv
<1> QED BY <1>5, <1>7, <1>8, <1>9 DEF NamesInv

\* A render buffer is destroyed, with its framebuffers.
LEMMA DestroyRenderBufferNames ==
  ASSUME TypesInv, IdsInv, NamesInv, NEW b \in alive.buffer, DestroyRenderBuffer(b),
         UNCHANGED engine, alive'.texture = alive.texture,
         alive'.buffer = alive.buffer \ {b}, alive'.geometry = alive.geometry
  PROVE  DriverTypes' /\ IdsInv' /\ NamesInv'
<1>1. DriverTypes /\ LoopTypes
  BY DEF TypesInv
<1>2. b \in DOMAIN render_buffer_map /\ b # 0
  BY DEF IdsInv
<1> DEFINE rest == DOMAIN gl.framebuffers \ {<<c, render_buffer_map[b].fbo[c]>> : c \in Contexts}
<1>3. /\ gl' = [gl EXCEPT !.framebuffers = [p \in rest |-> gl.framebuffers[p]]]
      /\ render_buffer_map' = [c \in DOMAIN render_buffer_map \ {b} |-> render_buffer_map[c]]
      /\ UNCHANGED <<texture_map, geometry_map, next_id>>
  BY <1>1, <1>2 DEF DestroyRenderBuffer, At, Drop, DriverTypes
<1>4. rest = {p \in DOMAIN gl.framebuffers : p # <<Window, render_buffer_map[b].fbo[Window]>>}
  <2>1. \A p \in DOMAIN gl.framebuffers : p[1] = Window /\ p # <<"render", render_buffer_map[b].fbo["render"]>>
    BY NothingTypes DEF NamesInv, FramebuffersInv
  <2> QED BY <2>1, NothingTypes
<1> HIDE DEF rest
<1>5. /\ gl'.textures = gl.textures /\ gl'.buffers = gl.buffers /\ gl'.arrays = gl.arrays
      /\ gl'.framebuffers = [p \in rest |-> gl.framebuffers[p]]
  BY <1>1, <1>3 DEF DriverTypes
<1>6. DriverTypes'
  <2>1. [p \in rest |-> gl.framebuffers[p]] \in Maps(Contexts \X Nat, Nat)
    <3>1. rest \subseteq DOMAIN gl.framebuffers
      BY <1>4
    <3> QED BY <1>1, <3>1, MapPart DEF DriverTypes
  <2>2. render_buffer_map' \in Maps(Nat, BufferEntry)
    BY <1>1, <1>3, MapPart DEF DriverTypes
  <2> QED BY <1>1, <1>3, <2>1, <2>2 DEF DriverTypes
<1>7. Geometries' = Geometries
  BY DEF Geometries
<1> HIDE DEF Geometries
<1>8. IdsInv'
  BY <1>2, <1>3, <1>7 DEF IdsInv
<1>9. TexturesInv' /\ BuffersInv' /\ ArraysInv'
  BY <1>3, <1>5, <1>7, TexturesSame, BuffersSame, ArraysSame DEF NamesInv
<1>10. FramebuffersInv'
  <2>1. IsFiniteSet(OwnNames(gl.framebuffers)')
    <3>1. OwnNames(gl'.framebuffers) \subseteq OwnNames(gl.framebuffers)
      BY <1>4, <1>5 DEF OwnNames
    <3>2. IsFiniteSet(OwnNames(gl'.framebuffers))
      BY <3>1, FS_Subset DEF NamesInv, FramebuffersInv
    <3> QED BY <3>2 DEF OwnNames
  <2>2. \A c \in alive'.buffer : c \in alive.buffer /\ c # b
    OBVIOUS
  <2>3. \A c \in alive'.buffer : render_buffer_map'[c] = render_buffer_map[c]
    BY <1>3 DEF IdsInv
  <2>4. \A c \in alive'.buffer : render_buffer_map'[c].fbo["render"] = 0
    BY <2>2, <2>3 DEF NamesInv, FramebuffersInv
  <2>5. \A c \in alive'.buffer :
          LET n == render_buffer_map'[c].fbo[Window]
          IN  n # 0 => /\ <<Window, n>> \in DOMAIN gl'.framebuffers
                       /\ gl'.framebuffers[<<Window, n>>]
                            = texture_map'[render_buffer_map'[c].texture].tex
    <3> SUFFICES ASSUME NEW c \in alive'.buffer, render_buffer_map'[c].fbo[Window] # 0
                 PROVE  LET n == render_buffer_map'[c].fbo[Window]
                        IN  /\ <<Window, n>> \in DOMAIN gl'.framebuffers
                            /\ gl'.framebuffers[<<Window, n>>]
                                 = texture_map'[render_buffer_map'[c].texture].tex
      OBVIOUS
    <3>1. c \in alive.buffer /\ c # b /\ render_buffer_map'[c] = render_buffer_map[c]
      BY <2>2, <2>3
    <3> DEFINE n == render_buffer_map[c].fbo[Window]
    <3>2. /\ n # 0 /\ <<Window, n>> \in DOMAIN gl.framebuffers
          /\ gl.framebuffers[<<Window, n>>] = texture_map[render_buffer_map[c].texture].tex
      BY <3>1 DEF NamesInv, FramebuffersInv
    <3>3. n # render_buffer_map[b].fbo[Window]
      BY <3>1, <3>2 DEF NamesInv, FramebuffersInv
    <3> HIDE DEF n
    <3>4. <<Window, n>> \in rest
      BY <1>4, <3>2, <3>3
    <3>5. /\ <<Window, n>> \in DOMAIN gl'.framebuffers
          /\ gl'.framebuffers[<<Window, n>>] = gl.framebuffers[<<Window, n>>]
      BY <1>5, <3>4
    <3> QED BY <1>3, <3>1, <3>2, <3>5 DEF n
  <2>6. \A p \in DOMAIN gl'.framebuffers :
          /\ p[1] = Window /\ p[2] # 0
          /\ \E c \in alive'.buffer : render_buffer_map'[c].fbo[Window] = p[2]
    <3> SUFFICES ASSUME NEW p \in rest
                 PROVE  /\ p[1] = Window /\ p[2] # 0
                        /\ \E c \in alive'.buffer : render_buffer_map'[c].fbo[Window] = p[2]
      BY <1>5
    <3>1. p \in DOMAIN gl.framebuffers /\ p # <<Window, render_buffer_map[b].fbo[Window]>>
      BY <1>4
    <3>2. p[1] = Window /\ p[2] # 0 /\ p \in Contexts \X Nat
      BY <1>1, <3>1, EntryTypes DEF NamesInv, FramebuffersInv
    <3>3. PICK c \in alive.buffer : render_buffer_map[c].fbo[Window] = p[2]
      BY <3>1 DEF NamesInv, FramebuffersInv
    <3>4. c # b
      BY <3>1, <3>2, <3>3
    <3> QED BY <2>3, <3>2, <3>3, <3>4
  <2>7. \A c, d \in alive'.buffer :
          render_buffer_map'[c].fbo[Window] = render_buffer_map'[d].fbo[Window]
            => c = d \/ render_buffer_map'[c].fbo[Window] = 0
    BY <2>2, <2>3 DEF NamesInv, FramebuffersInv
  <2> QED BY <2>1, <2>4, <2>5, <2>6, <2>7 DEF FramebuffersInv
<1> QED BY <1>6, <1>8, <1>9, <1>10 DEF NamesInv

\* A geometry is destroyed, with its buffers and vertex arrays.
LEMMA DestroyGeometryNames ==
  ASSUME TypesInv, IdsInv, NamesInv, NEW g \in alive.geometry, DestroyGeometry(g),
         UNCHANGED engine, alive'.texture = alive.texture,
         alive'.buffer = alive.buffer, alive'.geometry = alive.geometry \ {g}
  PROVE  DriverTypes' /\ IdsInv' /\ NamesInv'
<1>1. DriverTypes /\ LoopTypes
  BY DEF TypesInv
<1>2. g \in Geometries /\ g \in DOMAIN geometry_map /\ Geometries' = Geometries \ {g}
  BY DEF IdsInv, Geometries
<1> HIDE DEF Geometries
<1> DEFINE rest == DOMAIN gl.arrays \ {<<c, geometry_map[g].vao[c]>> : c \in Contexts}
           two == {geometry_map[g].vertices, geometry_map[g].indices}
<1>3. /\ gl' = [gl EXCEPT !.buffers = @ \ two, !.arrays = [p \in rest |-> gl.arrays[p]]]
      /\ geometry_map' = [h \in DOMAIN geometry_map \ {g} |-> geometry_map[h]]
      /\ UNCHANGED <<texture_map, render_buffer_map, next_id>>
  BY <1>1, <1>2 DEF DestroyGeometry, At, Drop, DriverTypes
<1>4. rest = {p \in DOMAIN gl.arrays : p # <<Window, geometry_map[g].vao[Window]>>}
  <2>1. \A p \in DOMAIN gl.arrays : p[1] = Window /\ p # <<"render", geometry_map[g].vao["render"]>>
    BY NothingTypes DEF NamesInv, ArraysInv
  <2> QED BY <2>1, NothingTypes
<1> HIDE DEF rest
<1>5. /\ gl'.textures = gl.textures /\ gl'.framebuffers = gl.framebuffers
      /\ gl'.buffers = gl.buffers \ two /\ gl'.arrays = [p \in rest |-> gl.arrays[p]]
  BY <1>1, <1>3 DEF DriverTypes
<1>6. DriverTypes'
  <2>1. [p \in rest |-> gl.arrays[p]] \in Maps(Contexts \X Nat, Nat \X Nat)
    <3>1. rest \subseteq DOMAIN gl.arrays
      BY <1>4
    <3> QED BY <1>1, <3>1, MapPart DEF DriverTypes
  <2>2. geometry_map' \in Maps(Nat, GeometryEntry)
    BY <1>1, <1>3, MapPart DEF DriverTypes
  <2> QED BY <1>1, <1>3, <2>1, <2>2 DEF DriverTypes
<1>7. IdsInv'
  BY <1>2, <1>3 DEF IdsInv
<1>8. TexturesInv' /\ FramebuffersInv'
  BY <1>3, <1>5, TexturesSame, FramebuffersSame DEF NamesInv
<1>9. \A h \in Geometries' : h \in Geometries /\ h # g /\ geometry_map'[h] = geometry_map[h]
  BY <1>2, <1>3 DEF IdsInv
<1>10. BuffersInv'
  <2>1. IsFiniteSet(gl'.buffers)
    <3>1. gl.buffers \ two \subseteq gl.buffers /\ IsFiniteSet(gl.buffers)
      BY DEF NamesInv, BuffersInv
    <3> QED BY <1>5, <3>1, FS_Subset
  <2>2. \A h \in Geometries' : /\ geometry_map'[h].vertices \in gl'.buffers
                               /\ geometry_map'[h].indices \in gl'.buffers
                               /\ geometry_map'[h].vertices # geometry_map'[h].indices
    BY <1>2, <1>5, <1>9 DEF NamesInv, BuffersInv
  <2>3. \A n \in gl'.buffers :
          \E h \in Geometries' : n \in {geometry_map'[h].vertices, geometry_map'[h].indices}
    BY <1>2, <1>5, <1>9 DEF NamesInv, BuffersInv
  <2>4. \A h, j \in Geometries' :
          h # j => {geometry_map'[h].vertices, geometry_map'[h].indices}
                     \cap {geometry_map'[j].vertices, geometry_map'[j].indices} = {}
    BY <1>9 DEF NamesInv, BuffersInv
  <2> QED BY <2>1, <2>2, <2>3, <2>4 DEF BuffersInv
<1>11. ArraysInv'
  <2>1. IsFiniteSet(OwnNames(gl.arrays)')
    <3>1. OwnNames(gl'.arrays) \subseteq OwnNames(gl.arrays)
      BY <1>4, <1>5 DEF OwnNames
    <3>2. IsFiniteSet(OwnNames(gl'.arrays))
      BY <3>1, FS_Subset DEF NamesInv, ArraysInv
    <3> QED BY <3>2 DEF OwnNames
  <2>2. \A h \in Geometries' : geometry_map'[h].vao["render"] = 0
    BY <1>9 DEF NamesInv, ArraysInv
  <2>3. \A h \in Geometries' :
          LET n == geometry_map'[h].vao[Window]
          IN  n # 0 => /\ <<Window, n>> \in DOMAIN gl'.arrays
                       /\ gl'.arrays[<<Window, n>>]
                            = <<geometry_map'[h].vertices, geometry_map'[h].indices>>
    <3> SUFFICES ASSUME NEW h \in Geometries', geometry_map'[h].vao[Window] # 0
                 PROVE  LET n == geometry_map'[h].vao[Window]
                        IN  /\ <<Window, n>> \in DOMAIN gl'.arrays
                            /\ gl'.arrays[<<Window, n>>]
                                 = <<geometry_map'[h].vertices, geometry_map'[h].indices>>
      OBVIOUS
    <3>1. h \in Geometries /\ h # g /\ geometry_map'[h] = geometry_map[h]
      BY <1>9
    <3> DEFINE n == geometry_map[h].vao[Window]
    <3>2. /\ n # 0 /\ <<Window, n>> \in DOMAIN gl.arrays
          /\ gl.arrays[<<Window, n>>] = <<geometry_map[h].vertices, geometry_map[h].indices>>
      BY <3>1 DEF NamesInv, ArraysInv
    <3>3. n # geometry_map[g].vao[Window]
      BY <1>2, <3>1, <3>2 DEF NamesInv, ArraysInv
    <3> HIDE DEF n
    <3>4. <<Window, n>> \in rest
      BY <1>4, <3>2, <3>3
    <3>5. /\ <<Window, n>> \in DOMAIN gl'.arrays
          /\ gl'.arrays[<<Window, n>>] = gl.arrays[<<Window, n>>]
      BY <1>5, <3>4
    <3> QED BY <3>1, <3>2, <3>5 DEF n
  <2>4. \A p \in DOMAIN gl'.arrays :
          /\ p[1] = Window /\ p[2] # 0
          /\ \E h \in Geometries' : geometry_map'[h].vao[Window] = p[2]
    <3> SUFFICES ASSUME NEW p \in rest
                 PROVE  /\ p[1] = Window /\ p[2] # 0
                        /\ \E h \in Geometries' : geometry_map'[h].vao[Window] = p[2]
      BY <1>5
    <3>1. p \in DOMAIN gl.arrays /\ p # <<Window, geometry_map[g].vao[Window]>>
      BY <1>4
    <3>2. p[1] = Window /\ p[2] # 0 /\ p \in Contexts \X Nat
      BY <1>1, <3>1, EntryTypes DEF NamesInv, ArraysInv
    <3>3. PICK h \in Geometries : geometry_map[h].vao[Window] = p[2]
      BY <3>1 DEF NamesInv, ArraysInv
    <3>4. h # g
      BY <3>1, <3>2, <3>3
    <3> QED BY <1>2, <1>9, <3>2, <3>3, <3>4
  <2>5. \A h, j \in Geometries' :
          geometry_map'[h].vao[Window] = geometry_map'[j].vao[Window]
            => h = j \/ geometry_map'[h].vao[Window] = 0
    BY <1>9 DEF NamesInv, ArraysInv
  <2> QED BY <2>1, <2>2, <2>3, <2>4, <2>5 DEF ArraysInv
<1> QED BY <1>6, <1>7, <1>8, <1>10, <1>11 DEF NamesInv


-----------------------------------------------------------------------------
(* Drawing.                                                                 *)

\* Binding a render buffer makes at most a framebuffer for it in the window's context.
LEMMA BindTypes ==
  ASSUME TypesInv, IdsInv, NamesInv, NEW b \in alive.buffer \cup {0}
  PROVE  /\ BoundBuffers(b) \in Maps(Nat, BufferEntry)
         /\ BoundFramebuffers(b) \in Maps(Contexts \X Nat, Nat)
         /\ DOMAIN BoundBuffers(b) = DOMAIN render_buffer_map
         /\ \A c \in DOMAIN render_buffer_map :
              /\ BoundBuffers(b)[c].texture = render_buffer_map[c].texture
              /\ c # b => BoundBuffers(b)[c] = render_buffer_map[c]
<1>1. DriverTypes
  BY DEF TypesInv
<1>2. CASE ~NeedsFBO(b)
  BY <1>1, <1>2 DEF BoundBuffers, BoundFramebuffers, DriverTypes
<1>3. CASE NeedsFBO(b)
  <2>1. /\ b \in DOMAIN render_buffer_map /\ b # 0 /\ b \in Nat
        /\ render_buffer_map[b] \in BufferEntry
        /\ render_buffer_map[b].texture \in DOMAIN texture_map
    BY <1>1, <1>3, EntryTypes DEF NeedsFBO, IdsInv
  <2>2. PICK n \in Nat \ {0} : n = FreshName(OwnNames(gl.framebuffers))
    BY FreshNameIsFree DEF NamesInv, FramebuffersInv
  <2>3. PICK x \in Nat : x = texture_map[render_buffer_map[b].texture].tex
    BY <1>1, <2>1, EntryTypes DEF TextureEntry
  <2>4. /\ BoundFramebuffers(b) = Put(gl.framebuffers, <<Window, n>>, x)
        /\ BoundBuffers(b) = [render_buffer_map EXCEPT ![b].fbo[Window] = n]
    BY <1>3, <2>2, <2>3 DEF BoundFramebuffers, BoundBuffers
  <2>5. BoundFramebuffers(b) \in Maps(Contexts \X Nat, Nat)
    <3>1. PICK p \in Contexts \X Nat : p = <<Window, n>>
      BY NothingTypes
    <3>2. Put(gl.framebuffers, p, x) \in Maps(Contexts \X Nat, Nat)
      BY <1>1, PutTypes DEF DriverTypes
    <3> QED BY <2>4, <3>1, <3>2
  <2> DEFINE entry == [render_buffer_map[b] EXCEPT !.fbo[Window] = n]
  <2>6. entry \in BufferEntry /\ entry.texture = render_buffer_map[b].texture
    BY <2>1 DEF BufferEntry
  <2>7. /\ render_buffer_map \in [DOMAIN render_buffer_map -> BufferEntry]
        /\ DOMAIN render_buffer_map \subseteq Nat
    BY <1>1, MapsAre DEF DriverTypes
  <2>8. BoundBuffers(b) = [render_buffer_map EXCEPT ![b] = entry]
    BY <2>1, <2>4, <2>7
  <2> HIDE DEF entry
  <2>9. /\ BoundBuffers(b) \in [DOMAIN render_buffer_map -> BufferEntry]
        /\ DOMAIN BoundBuffers(b) = DOMAIN render_buffer_map
        /\ \A c \in DOMAIN render_buffer_map :
             /\ BoundBuffers(b)[c].texture = render_buffer_map[c].texture
             /\ c # b => BoundBuffers(b)[c] = render_buffer_map[c]
    BY <2>1, <2>6, <2>7, <2>8
  <2>10. BoundBuffers(b) \in Maps(Nat, BufferEntry)
    BY <2>7, <2>9 DEF Maps
  <2> QED BY <2>5, <2>9, <2>10
<1> QED BY <1>2, <1>3

\* The framebuffer that is made is of this render buffer and its texture alone.
LEMMA BindNames ==
  ASSUME TypesInv, IdsInv, NamesInv, NEW b \in alive.buffer \cup {0},
         gl'.framebuffers = BoundFramebuffers(b), alive'.buffer = alive.buffer,
         \A c \in alive.buffer : render_buffer_map'[c] = BoundBuffers(b)[c],
         \A t \in DOMAIN texture_map \ {0} : texture_map'[t].tex = texture_map[t].tex
  PROVE  FramebuffersInv'
<1>1. DriverTypes
  BY DEF TypesInv
<1>2. alive.buffer \subseteq DOMAIN render_buffer_map
  BY DEF IdsInv
<1>3. \A c \in alive.buffer :
        texture_map'[render_buffer_map'[c].texture].tex
          = texture_map[render_buffer_map[c].texture].tex
  BY <1>2, BindTypes DEF IdsInv
<1>4. CASE ~NeedsFBO(b)
  <2>1. gl'.framebuffers = gl.framebuffers
    BY <1>4 DEF BoundFramebuffers
  <2>2. \A c \in alive.buffer : render_buffer_map'[c] = render_buffer_map[c]
    BY <1>4 DEF BoundBuffers
  <2>3. FramebuffersInv
    BY DEF NamesInv
  <2> QED BY <1>3, <2>1, <2>2, <2>3, FramebuffersSame
<1>5. CASE NeedsFBO(b)
  <2>1. /\ b \in alive.buffer /\ render_buffer_map[b] \in BufferEntry
        /\ render_buffer_map[b].fbo[Window] = 0
    BY <1>1, <1>2, <1>5, EntryTypes DEF NeedsFBO
  <2>2. PICK n \in Nat \ {0} : n = FreshName(OwnNames(gl.framebuffers))
                               /\ n \notin OwnNames(gl.framebuffers)
    BY FreshNameIsFree DEF NamesInv, FramebuffersInv
  <2> DEFINE key == <<Window, n>>
             x == texture_map[render_buffer_map[b].texture].tex
  <2>3. key \notin DOMAIN gl.framebuffers
    <3>1. ASSUME key \in DOMAIN gl.framebuffers PROVE FALSE
      <4>1. key \in {q \in DOMAIN gl.framebuffers : q[1] = Window} /\ key[2] = n
        BY <3>1
      <4> HIDE DEF key
      <4>2. n \in OwnNames(gl.framebuffers)
        BY <4>1 DEF OwnNames
      <4> QED BY <2>2, <4>2
    <3> QED BY <3>1
  <2>4. gl'.framebuffers = [p \in DOMAIN gl.framebuffers \cup {key} |->
                              IF p = key THEN x ELSE gl.framebuffers[p]]
    BY <1>5, <2>2 DEF BoundFramebuffers, Put
  <2>5. /\ DOMAIN gl'.framebuffers = DOMAIN gl.framebuffers \cup {key}
        /\ gl'.framebuffers[key] = x
        /\ \A p \in DOMAIN gl.framebuffers : gl'.framebuffers[p] = gl.framebuffers[p]
    BY <2>3, <2>4
  <2>6. render_buffer_map'[b].fbo = [render_buffer_map[b].fbo EXCEPT ![Window] = n]
    <3>1. render_buffer_map'[b] = [render_buffer_map EXCEPT ![b].fbo[Window] = n][b]
      BY <1>5, <2>1, <2>2 DEF BoundBuffers
    <3> QED BY <1>2, <2>1, <3>1 DEF BufferEntry
  <2>7. render_buffer_map'[b].fbo[Window] = n /\ render_buffer_map'[b].fbo["render"] = 0
    BY <2>1, <2>6, NothingTypes DEF BufferEntry, NamesInv, FramebuffersInv
  <2>8. \A c \in alive.buffer : c # b => render_buffer_map'[c] = render_buffer_map[c]
    BY <1>2, BindTypes
  <2> HIDE DEF key, x
  <2>9. /\ \A c \in alive.buffer : render_buffer_map[c].fbo["render"] = 0
        /\ \A c \in alive.buffer :
             LET m == render_buffer_map[c].fbo[Window]
             IN  m # 0 => /\ <<Window, m>> \in DOMAIN gl.framebuffers
                          /\ gl.framebuffers[<<Window, m>>]
                               = texture_map[render_buffer_map[c].texture].tex
        /\ \A p \in DOMAIN gl.framebuffers :
             /\ p[1] = Window /\ p[2] # 0
             /\ \E c \in alive.buffer : render_buffer_map[c].fbo[Window] = p[2]
        /\ \A c, d \in alive.buffer :
             render_buffer_map[c].fbo[Window] = render_buffer_map[d].fbo[Window]
               => c = d \/ render_buffer_map[c].fbo[Window] = 0
    BY DEF NamesInv, FramebuffersInv
  <2>10. IsFiniteSet(OwnNames(gl.framebuffers)')
    <3>1. OwnNames(gl'.framebuffers) = OwnNames(gl.framebuffers) \cup {n}
      BY <2>5 DEF OwnNames, key
    <3>2. IsFiniteSet(OwnNames(gl'.framebuffers))
      BY <3>1, FS_AddElement DEF NamesInv, FramebuffersInv
    <3> QED BY <3>2 DEF OwnNames
  <2>11. \A c \in alive'.buffer : render_buffer_map'[c].fbo["render"] = 0
    BY <2>7, <2>8, <2>9
  <2>12. \A c \in alive'.buffer :
           LET m == render_buffer_map'[c].fbo[Window]
           IN  m # 0 => /\ <<Window, m>> \in DOMAIN gl'.framebuffers
                        /\ gl'.framebuffers[<<Window, m>>]
                             = texture_map'[render_buffer_map'[c].texture].tex
    <3> SUFFICES ASSUME NEW c \in alive.buffer, render_buffer_map'[c].fbo[Window] # 0
                 PROVE  LET m == render_buffer_map'[c].fbo[Window]
                        IN  /\ <<Window, m>> \in DOMAIN gl'.framebuffers
                            /\ gl'.framebuffers[<<Window, m>>]
                                 = texture_map[render_buffer_map[c].texture].tex
      BY <1>3
    <3>1. CASE c = b
      BY <2>5, <2>7, <3>1 DEF key, x
    <3>2. CASE c # b
      <4>1. render_buffer_map'[c] = render_buffer_map[c]
        BY <2>8, <3>2
      <4> DEFINE m == render_buffer_map[c].fbo[Window]
      <4>2. /\ m # 0 /\ <<Window, m>> \in DOMAIN gl.framebuffers
            /\ gl.framebuffers[<<Window, m>>] = texture_map[render_buffer_map[c].texture].tex
        BY <2>9, <4>1
      <4> HIDE DEF m
      <4>3. /\ <<Window, m>> \in DOMAIN gl'.framebuffers
            /\ gl'.framebuffers[<<Window, m>>] = gl.framebuffers[<<Window, m>>]
        BY <2>5, <4>2
      <4> QED BY <4>1, <4>2, <4>3 DEF m
    <3> QED BY <3>1, <3>2
  <2>13. \A p \in DOMAIN gl'.framebuffers :
           /\ p[1] = Window /\ p[2] # 0
           /\ \E c \in alive'.buffer : render_buffer_map'[c].fbo[Window] = p[2]
    <3> SUFFICES ASSUME NEW p \in DOMAIN gl.framebuffers \cup {key}
                 PROVE  /\ p[1] = Window /\ p[2] # 0
                        /\ \E c \in alive.buffer : render_buffer_map'[c].fbo[Window] = p[2]
      BY <2>5
    <3>1. CASE p = key
      BY <2>1, <2>7, <3>1 DEF key
    <3>2. CASE p \in DOMAIN gl.framebuffers
      <4>1. /\ p[1] = Window /\ p[2] # 0
        BY <2>9, <3>2
      <4>2. PICK c \in alive.buffer : render_buffer_map[c].fbo[Window] = p[2]
        BY <2>9, <3>2
      <4>3. c # b
        BY <2>1, <4>1, <4>2
      <4> QED BY <2>8, <4>1, <4>2, <4>3
    <3> QED BY <3>1, <3>2
  <2>14. \A c \in alive.buffer : c # b => render_buffer_map[c].fbo[Window] # n
    <3> SUFFICES ASSUME NEW c \in alive.buffer, render_buffer_map[c].fbo[Window] = n
                 PROVE  FALSE
      OBVIOUS
    <3>1. <<Window, n>> \in DOMAIN gl.framebuffers
      BY <2>9
    <3> QED BY <2>3, <3>1 DEF key
  <2>15. \A c, d \in alive'.buffer :
           render_buffer_map'[c].fbo[Window] = render_buffer_map'[d].fbo[Window]
             => c = d \/ render_buffer_map'[c].fbo[Window] = 0
    BY <2>7, <2>8, <2>9, <2>14
  <2> QED BY <2>10, <2>11, <2>12, <2>13, <2>15 DEF FramebuffersInv
<1> QED BY <1>4, <1>5

\* Clearing a render buffer.
LEMMA ClearNames ==
  ASSUME TypesInv, IdsInv, NamesInv, NEW b \in alive.buffer, ClearRenderBuffer(b),
         UNCHANGED <<engine, alive>>
  PROVE  /\ DriverTypes' /\ IdsInv' /\ NamesInv'
         /\ \A c \in alive.buffer :
              render_buffer_map'[c].texture = render_buffer_map[c].texture
<1>1. DriverTypes /\ LoopTypes
  BY DEF TypesInv
<1>2. /\ gl' = [gl EXCEPT !.framebuffers = BoundFramebuffers(b)]
      /\ render_buffer_map' = BoundBuffers(b)
      /\ UNCHANGED <<texture_map, geometry_map, next_id>>
  BY DEF ClearRenderBuffer
<1>3. Geometries' = Geometries
  BY DEF Geometries
<1> HIDE DEF Geometries
<1>4. /\ BoundBuffers(b) \in Maps(Nat, BufferEntry)
      /\ BoundFramebuffers(b) \in Maps(Contexts \X Nat, Nat)
      /\ DOMAIN BoundBuffers(b) = DOMAIN render_buffer_map
      /\ \A c \in DOMAIN render_buffer_map :
           /\ BoundBuffers(b)[c].texture = render_buffer_map[c].texture
           /\ c # b => BoundBuffers(b)[c] = render_buffer_map[c]
  BY BindTypes
<1>5. /\ gl'.textures = gl.textures /\ gl'.buffers = gl.buffers
      /\ gl'.framebuffers = BoundFramebuffers(b) /\ gl'.arrays = gl.arrays
  BY <1>1, <1>2 DEF DriverTypes
<1>6. DriverTypes'
  BY <1>1, <1>2, <1>4 DEF DriverTypes
<1>7. IdsInv'
  <2>1. /\ b # 0 /\ alive.buffer \subseteq DOMAIN render_buffer_map
        /\ alive' = alive /\ engine' = engine /\ next_id' = next_id
        /\ texture_map' = texture_map /\ geometry_map' = geometry_map
    BY <1>2 DEF IdsInv
  <2>2. /\ DOMAIN render_buffer_map' = DOMAIN render_buffer_map
        /\ \A c \in alive.buffer :
             render_buffer_map'[c].texture = render_buffer_map[c].texture
        /\ 0 \in DOMAIN render_buffer_map' => render_buffer_map'[0] = render_buffer_map[0]
    BY <1>2, <1>4, <2>1
  <2> QED BY <1>3, <2>1, <2>2 DEF IdsInv
<1>8. TexturesInv' /\ BuffersInv' /\ ArraysInv'
  BY <1>2, <1>3, <1>5, TexturesSame, BuffersSame, ArraysSame DEF NamesInv
<1>9. FramebuffersInv'
  BY <1>2, <1>5, BindNames
<1>10. \A c \in alive.buffer : render_buffer_map'[c].texture = render_buffer_map[c].texture
  BY <1>2, <1>4 DEF IdsInv
<1> QED BY <1>6, <1>7, <1>8, <1>9, <1>10 DEF NamesInv

\* Making the vertex array of a geometry in the window's context.
LEMMA ArrayNames ==
  ASSUME TypesInv, IdsInv, NamesInv, NEW g \in Geometries, NeedsVAO(g), Geometries' = Geometries,
         NEW n \in Nat \ {0}, n \notin OwnNames(gl.arrays),
         NEW entry, entry.vao[Window] = n, entry.vao["render"] = geometry_map[g].vao["render"],
         entry.vertices = geometry_map[g].vertices, entry.indices = geometry_map[g].indices,
         \A h \in Geometries :
           geometry_map'[h] = IF h = g THEN entry ELSE geometry_map[h],
         gl'.arrays = Put(gl.arrays, <<Window, n>>,
                          <<geometry_map[g].vertices, geometry_map[g].indices>>)
  PROVE  ArraysInv'
<1> HIDE DEF Geometries
<1>1. DriverTypes
  BY DEF TypesInv
<1>2. g \in DOMAIN geometry_map /\ geometry_map[g] \in GeometryEntry
  BY <1>1, EntryTypes DEF IdsInv
<1> DEFINE key == <<Window, n>>
           x == <<geometry_map[g].vertices, geometry_map[g].indices>>
<1>3. key \notin DOMAIN gl.arrays
  <2>1. ASSUME key \in DOMAIN gl.arrays PROVE FALSE
    <3>1. key \in {q \in DOMAIN gl.arrays : q[1] = Window} /\ key[2] = n
      BY <2>1
    <3> HIDE DEF key
    <3>2. n \in OwnNames(gl.arrays)
      BY <3>1 DEF OwnNames
    <3> QED BY <3>2
  <2> QED BY <2>1
<1>4. /\ DOMAIN gl'.arrays = DOMAIN gl.arrays \cup {key}
      /\ gl'.arrays[key] = x
      /\ \A p \in DOMAIN gl.arrays : gl'.arrays[p] = gl.arrays[p]
  <2>1. gl'.arrays = [p \in DOMAIN gl.arrays \cup {key} |->
                        IF p = key THEN x ELSE gl.arrays[p]]
    BY DEF Put
  <2> QED BY <1>3, <2>1
<1>5. /\ entry.vao[Window] = n /\ entry.vao["render"] = geometry_map[g].vao["render"]
      /\ entry.vertices = geometry_map[g].vertices /\ entry.indices = geometry_map[g].indices
  OBVIOUS
<1>6. geometry_map'[g] = entry /\ \A h \in Geometries : h # g => geometry_map'[h] = geometry_map[h]
  OBVIOUS
<1>7. geometry_map[g].vao[Window] = 0
  BY <1>2 DEF NeedsVAO, At
<1> HIDE DEF key, x
<1>8. /\ \A h \in Geometries : geometry_map[h].vao["render"] = 0
      /\ \A h \in Geometries :
           LET m == geometry_map[h].vao[Window]
           IN  m # 0 => /\ <<Window, m>> \in DOMAIN gl.arrays
                        /\ gl.arrays[<<Window, m>>]
                             = <<geometry_map[h].vertices, geometry_map[h].indices>>
      /\ \A p \in DOMAIN gl.arrays :
           /\ p[1] = Window /\ p[2] # 0
           /\ \E h \in Geometries : geometry_map[h].vao[Window] = p[2]
      /\ \A h, j \in Geometries :
           geometry_map[h].vao[Window] = geometry_map[j].vao[Window]
             => h = j \/ geometry_map[h].vao[Window] = 0
  BY DEF NamesInv, ArraysInv
<1>9. IsFiniteSet(OwnNames(gl.arrays)')
  <2>1. OwnNames(gl'.arrays) = OwnNames(gl.arrays) \cup {n}
    BY <1>4 DEF OwnNames, key
  <2>2. IsFiniteSet(OwnNames(gl'.arrays))
    BY <2>1, FS_AddElement DEF NamesInv, ArraysInv
  <2> QED BY <2>2 DEF OwnNames
<1>10. \A h \in Geometries' : geometry_map'[h].vao["render"] = 0
  BY <1>5, <1>6, <1>8
<1>11. \A h \in Geometries' :
         LET m == geometry_map'[h].vao[Window]
         IN  m # 0 => /\ <<Window, m>> \in DOMAIN gl'.arrays
                      /\ gl'.arrays[<<Window, m>>]
                           = <<geometry_map'[h].vertices, geometry_map'[h].indices>>
  <2> SUFFICES ASSUME NEW h \in Geometries, geometry_map'[h].vao[Window] # 0
               PROVE  LET m == geometry_map'[h].vao[Window]
                      IN  /\ <<Window, m>> \in DOMAIN gl'.arrays
                          /\ gl'.arrays[<<Window, m>>]
                               = <<geometry_map'[h].vertices, geometry_map'[h].indices>>
    OBVIOUS
  <2>1. CASE h = g
    <3>1. geometry_map'[h] = entry
      BY <1>6, <2>1
    <3>2. key \in DOMAIN gl'.arrays /\ gl'.arrays[key] = x
      BY <1>4
    <3>3. key = <<Window, n>> /\ x = <<entry.vertices, entry.indices>>
      BY <1>5 DEF key, x
    <3>4. /\ key = <<Window, geometry_map'[h].vao[Window]>>
          /\ x = <<geometry_map'[h].vertices, geometry_map'[h].indices>>
      BY <1>5, <3>1, <3>3
    <3> HIDE DEF key, x
    <3> QED BY <3>2, <3>4
  <2>2. CASE h # g
    <3>1. geometry_map'[h] = geometry_map[h]
      BY <1>6, <2>2
    <3> DEFINE m == geometry_map[h].vao[Window]
    <3>2. /\ m # 0 /\ <<Window, m>> \in DOMAIN gl.arrays
          /\ gl.arrays[<<Window, m>>] = <<geometry_map[h].vertices, geometry_map[h].indices>>
      BY <1>8, <3>1
    <3> HIDE DEF m
    <3>3. /\ <<Window, m>> \in DOMAIN gl'.arrays
          /\ gl'.arrays[<<Window, m>>] = gl.arrays[<<Window, m>>]
      BY <1>4, <3>2
    <3> QED BY <3>1, <3>2, <3>3 DEF m
  <2> QED BY <2>1, <2>2
<1>12. \A p \in DOMAIN gl'.arrays :
         /\ p[1] = Window /\ p[2] # 0
         /\ \E h \in Geometries' : geometry_map'[h].vao[Window] = p[2]
  <2> SUFFICES ASSUME NEW p \in DOMAIN gl.arrays \cup {key}
               PROVE  /\ p[1] = Window /\ p[2] # 0
                      /\ \E h \in Geometries : geometry_map'[h].vao[Window] = p[2]
    BY <1>4
  <2>1. CASE p = key
    BY <1>5, <1>6, <2>1 DEF key
  <2>2. CASE p \in DOMAIN gl.arrays
    <3>1. p[1] = Window /\ p[2] # 0
      BY <1>8, <2>2
    <3>2. PICK h \in Geometries : geometry_map[h].vao[Window] = p[2]
      BY <1>8, <2>2
    <3>3. h # g
      BY <1>7, <3>1, <3>2
    <3> QED BY <1>6, <3>1, <3>2, <3>3
  <2> QED BY <2>1, <2>2
<1>13. \A h \in Geometries : h # g => geometry_map[h].vao[Window] # n
  <2> SUFFICES ASSUME NEW h \in Geometries, geometry_map[h].vao[Window] = n PROVE FALSE
    OBVIOUS
  <2>1. <<Window, n>> \in DOMAIN gl.arrays
    BY <1>8
  <2> QED BY <1>3, <2>1 DEF key
<1>14. \A h, j \in Geometries' :
         geometry_map'[h].vao[Window] = geometry_map'[j].vao[Window]
           => h = j \/ geometry_map'[h].vao[Window] = 0
  BY <1>5, <1>6, <1>8, <1>13
<1> QED BY <1>9, <1>10, <1>11, <1>12, <1>14 DEF ArraysInv

\* Putting into a map what it holds leaves what it has.
LEMMA PutAgain ==
  ASSUME NEW S, NEW T, NEW f \in Maps(S, T), NEW x \in S, NEW default \in T
  PROVE  /\ Put(f, x, At(f, x, default)) \in Maps(S, T)
         /\ DOMAIN Put(f, x, At(f, x, default)) = DOMAIN f \cup {x}
         /\ \A y \in DOMAIN f : Put(f, x, At(f, x, default))[y] = f[y]
         /\ x \notin DOMAIN f => Put(f, x, At(f, x, default))[x] = default
<1>1. PICK e \in T : e = At(f, x, default)
  BY MapsAre DEF At
<1>2. Put(f, x, e) \in Maps(S, T)
  BY MapPut
<1>3. Put(f, x, e) = [y \in DOMAIN f \cup {x} |-> IF y = x THEN e ELSE f[y]]
  BY DEF Put
<1>4. DOMAIN Put(f, x, e) = DOMAIN f \cup {x}
  BY <1>3
<1>5. \A y \in DOMAIN f : Put(f, x, e)[y] = f[y]
  BY <1>1, <1>3 DEF At
<1>6. x \notin DOMAIN f => Put(f, x, e)[x] = default
  BY <1>1, <1>3 DEF At
<1> QED BY <1>1, <1>2, <1>4, <1>5, <1>6

\* Drawing a geometry with a texture on a render buffer or on the window.
LEMMA DrawNames ==
  ASSUME TypesInv, IdsInv, NamesInv, NEW g \in Geometries, NEW b \in alive.buffer \cup {0},
         NEW t \in alive.texture, DrawGeometry(g, b, t), UNCHANGED <<engine, alive>>
  PROVE  /\ DriverTypes' /\ IdsInv' /\ NamesInv'
         /\ \A c \in alive.buffer :
              render_buffer_map'[c].texture = render_buffer_map[c].texture
<1>1. DriverTypes /\ LoopTypes
  BY DEF TypesInv
<1>2. Geometries' = Geometries
  BY DEF Geometries
<1> HIDE DEF Geometries
<1>3. /\ g \in DOMAIN geometry_map /\ g \in Nat /\ geometry_map[g] \in GeometryEntry
      /\ t \in DOMAIN texture_map /\ t \in Nat
      /\ b \in Nat /\ alive.buffer \subseteq DOMAIN render_buffer_map
  BY <1>1, EntryTypes DEF IdsInv, LoopTypes
<1>4. PICK n \in Nat \ {0} : n = FreshName(OwnNames(gl.arrays)) /\ n \notin OwnNames(gl.arrays)
  BY FreshNameIsFree DEF NamesInv, ArraysInv
<1> DEFINE entry == IF NeedsVAO(g) THEN [geometry_map[g] EXCEPT !.vao[Window] = n]
                                   ELSE geometry_map[g]
           pair == <<geometry_map[g].vertices, geometry_map[g].indices>>
           arrays == IF NeedsVAO(g) THEN Put(gl.arrays, <<Window, n>>, pair) ELSE gl.arrays
           bound == BoundBuffers(b)
           units == Put(texture_map, 0, At(texture_map, 0, NoTexture))
<1>5. /\ render_buffer_map' = Put(bound, b, At(bound, b, NoBuffer))
      /\ geometry_map' = Put(geometry_map, g, entry)
      /\ texture_map' = Put(units, t, At(texture_map, t, NoTexture))
      /\ gl' = [gl EXCEPT !.framebuffers = BoundFramebuffers(b), !.arrays = arrays]
      /\ next_id' = next_id
  <2>1. At(geometry_map, g, NoGeometry) = geometry_map[g]
    BY <1>3 DEF At
  <2> QED BY <1>4, <2>1 DEF DrawGeometry
<1>6. /\ bound \in Maps(Nat, BufferEntry)
      /\ BoundFramebuffers(b) \in Maps(Contexts \X Nat, Nat)
      /\ DOMAIN bound = DOMAIN render_buffer_map
      /\ \A c \in DOMAIN render_buffer_map :
           /\ bound[c].texture = render_buffer_map[c].texture
           /\ c # b => bound[c] = render_buffer_map[c]
  BY BindTypes
<1> HIDE DEF bound
<1>7. /\ render_buffer_map' \in Maps(Nat, BufferEntry)
      /\ DOMAIN render_buffer_map' = DOMAIN render_buffer_map \cup {b}
      /\ \A c \in DOMAIN render_buffer_map : render_buffer_map'[c] = bound[c]
      /\ b \notin DOMAIN render_buffer_map => render_buffer_map'[b] = NoBuffer
  <2>1. bound \in Maps(Nat, BufferEntry) /\ b \in Nat /\ NoBuffer \in BufferEntry
    BY <1>3, <1>6, NothingTypes
  <2> DEFINE put == Put(bound, b, At(bound, b, NoBuffer))
  <2>2. /\ put \in Maps(Nat, BufferEntry) /\ DOMAIN put = DOMAIN bound \cup {b}
        /\ \A c \in DOMAIN bound : put[c] = bound[c]
        /\ b \notin DOMAIN bound => put[b] = NoBuffer
    BY <2>1, PutAgain
  <2> HIDE DEF put
  <2> QED BY <1>5, <1>6, <2>2 DEF put
<1>8. /\ texture_map' \in Maps(Nat, TextureEntry)
      /\ DOMAIN texture_map' = DOMAIN texture_map \cup {0}
      /\ \A u \in DOMAIN texture_map : texture_map'[u] = texture_map[u]
  <2>1. /\ units \in Maps(Nat, TextureEntry)
        /\ DOMAIN units = DOMAIN texture_map \cup {0}
        /\ \A u \in DOMAIN texture_map : units[u] = texture_map[u]
    <3>1. texture_map \in Maps(Nat, TextureEntry) /\ 0 \in Nat /\ NoTexture \in TextureEntry
      BY <1>1, NothingTypes DEF DriverTypes
    <3> QED BY <3>1, PutAgain
  <2> HIDE DEF units
  <2>2. At(texture_map, t, NoTexture) = At(units, t, NoTexture)
    BY <1>3, <2>1 DEF At
  <2>3. texture_map' = Put(units, t, At(units, t, NoTexture))
    BY <1>5, <2>2
  <2>4. /\ texture_map' \in Maps(Nat, TextureEntry)
        /\ DOMAIN texture_map' = DOMAIN units \cup {t}
        /\ \A u \in DOMAIN units : texture_map'[u] = units[u]
    <3>1. t \in DOMAIN units /\ At(units, t, NoTexture) = units[t]
      BY <1>3, <2>1 DEF At
    <3>2. texture_map' = [u \in DOMAIN units \cup {t} |-> IF u = t THEN units[t] ELSE units[u]]
      BY <2>3, <3>1 DEF Put
    <3>3. units \in [DOMAIN units -> TextureEntry]
      BY <2>1, MapsAre
    <3>4. texture_map' = units
      BY <3>1, <3>2, <3>3
    <3> QED BY <2>1, <3>1, <3>4
  <2> QED BY <1>3, <2>1, <2>4
<1> HIDE DEF units
<1>9. /\ entry \in GeometryEntry /\ entry.vertices = geometry_map[g].vertices
      /\ entry.indices = geometry_map[g].indices
      /\ entry.vao["render"] = geometry_map[g].vao["render"]
      /\ NeedsVAO(g) => entry.vao[Window] = n
      /\ ~NeedsVAO(g) => entry = geometry_map[g]
  BY <1>3, NothingTypes DEF GeometryEntry
<1> HIDE DEF entry
<1>10. /\ geometry_map' \in Maps(Nat, GeometryEntry)
       /\ DOMAIN geometry_map' = DOMAIN geometry_map
       /\ \A h \in DOMAIN geometry_map :
            geometry_map'[h] = IF h = g THEN entry ELSE geometry_map[h]
  <2>1. Put(geometry_map, g, entry) \in Maps(Nat, GeometryEntry)
    BY <1>1, <1>3, <1>9, PutTypes DEF DriverTypes
  <2>2. geometry_map' = [h \in DOMAIN geometry_map \cup {g} |->
                           IF h = g THEN entry ELSE geometry_map[h]]
    BY <1>5 DEF Put
  <2> QED BY <1>3, <1>5, <2>1, <2>2
<1>11. arrays \in Maps(Contexts \X Nat, Nat \X Nat)
  <2>1. PICK p \in Contexts \X Nat : p = <<Window, n>>
    BY NothingTypes
  <2>2. PICK x \in Nat \X Nat : x = pair
    BY <1>3 DEF GeometryEntry
  <2>3. Put(gl.arrays, p, x) \in Maps(Contexts \X Nat, Nat \X Nat)
    BY <1>1, PutTypes DEF DriverTypes
  <2> QED BY <1>1, <2>1, <2>2, <2>3 DEF DriverTypes
<1> HIDE DEF pair
<1>12. NeedsVAO(g) => arrays = Put(gl.arrays, <<Window, n>>, pair)
  OBVIOUS
<1>13. ~NeedsVAO(g) => arrays = gl.arrays
  OBVIOUS
<1> HIDE DEF arrays
<1>14. /\ gl'.textures = gl.textures /\ gl'.buffers = gl.buffers
       /\ gl'.framebuffers = BoundFramebuffers(b) /\ gl'.arrays = arrays
  BY <1>1, <1>5 DEF DriverTypes
<1>15. DriverTypes'
  BY <1>1, <1>5, <1>6, <1>7, <1>8, <1>10, <1>11 DEF DriverTypes
<1>16. IdsInv'
  <2>1. /\ alive' = alive /\ engine' = engine /\ next_id' = next_id
    BY <1>5
  <2>2. \A c \in alive.buffer :
          render_buffer_map'[c].texture = render_buffer_map[c].texture
    BY <1>3, <1>6, <1>7
  <2>3. 0 \in DOMAIN render_buffer_map' => render_buffer_map'[0] = NoBuffer
    <3>1. CASE 0 \in DOMAIN render_buffer_map
      <4>1. bound[0] = render_buffer_map[0]
        BY <1>6, <3>1 DEF bound, BoundBuffers, NeedsFBO
      <4> QED BY <1>7, <3>1, <4>1 DEF IdsInv
    <3>2. CASE 0 \notin DOMAIN render_buffer_map
      BY <1>7, <3>2
    <3> QED BY <3>1, <3>2
  <2>4. DOMAIN render_buffer_map' \ {0} = DOMAIN render_buffer_map \ {0}
    BY <1>3, <1>7
  <2>5. alive.buffer = DOMAIN render_buffer_map' \ {0}
    BY <2>4 DEF IdsInv
  <2>6. \A c \in DOMAIN render_buffer_map' : c < next_id.buffer
    BY <2>4 DEF IdsInv
  <2>7. \A u \in DOMAIN texture_map' : u < next_id.texture
    BY <1>8 DEF IdsInv
  <2>8. \A h \in DOMAIN geometry_map' : h < next_id.geometry
    BY <1>10 DEF IdsInv
  <2>9. /\ alive.texture \subseteq DOMAIN texture_map' \ {0}
        /\ \A c \in alive.buffer : render_buffer_map'[c].texture \in DOMAIN texture_map' \ {0}
    BY <1>8, <2>2 DEF IdsInv
  <2>10. DOMAIN geometry_map' = Geometries' /\ 0 \notin Geometries'
    BY <1>2, <1>10 DEF IdsInv
  <2> QED BY <2>1, <2>3, <2>5, <2>6, <2>7, <2>8, <2>9, <2>10 DEF IdsInv
<1>17. TexturesInv'
  BY <1>8, <1>14, TexturesSame DEF NamesInv, IdsInv
<1>18. BuffersInv'
  <2>1. \A h \in Geometries : /\ geometry_map'[h].vertices = geometry_map[h].vertices
                              /\ geometry_map'[h].indices = geometry_map[h].indices
    BY <1>9, <1>10 DEF IdsInv
  <2> QED BY <1>2, <1>14, <2>1, BuffersSame DEF NamesInv
<1>19. FramebuffersInv'
  <2>1. \A u \in DOMAIN texture_map \ {0} : texture_map'[u].tex = texture_map[u].tex
    BY <1>8
  <2>2. \A c \in alive.buffer : render_buffer_map'[c] = BoundBuffers(b)[c]
    BY <1>3, <1>7 DEF bound
  <2> QED BY <1>14, <2>1, <2>2, BindNames
<1>20. ArraysInv'
  <2>1. \A h \in Geometries : geometry_map'[h] = IF h = g THEN entry ELSE geometry_map[h]
    BY <1>10 DEF IdsInv
  <2>2. CASE NeedsVAO(g)
    BY <1>2, <1>4, <1>9, <1>12, <1>14, <2>1, <2>2, ArrayNames DEF pair
  <2>3. CASE ~NeedsVAO(g)
    <3>1. ArraysInv /\ gl'.arrays = gl.arrays
      BY <1>13, <1>14, <2>3 DEF NamesInv
    <3>2. \A h \in Geometries : geometry_map'[h] = geometry_map[h]
      BY <1>9, <2>1, <2>3
    <3> QED BY <1>2, <3>1, <3>2, ArraysSame
  <2> QED BY <2>2, <2>3
<1>21. \A c \in alive.buffer : render_buffer_map'[c].texture = render_buffer_map[c].texture
  BY <1>3, <1>6, <1>7
<1> QED BY <1>15, <1>16, <1>17, <1>18, <1>19, <1>20, <1>21 DEF NamesInv


-----------------------------------------------------------------------------
(* The steps of the loop.                                                   *)

\* Before the library submits and after its list is drawn, nothing is listed.
LEMMA ListSame ==
  ASSUME ListInv, at \notin {"submitted", "check", "draw"},
         at' \notin {"submitted", "check", "draw"},
         UNCHANGED <<cursor, command_list, submitted, drawn>>
  PROVE  ListInv'
<1>1. command_list = <<>> /\ command_list' = <<>>
  BY DEF ListInv
<1>2. 1..Len(command_list) = {} /\ Len(command_list) = 0
  BY <1>1
<1>3. \A i \in 1..Len(command_list') : Executable(command_list[i])'
  BY <1>1, <1>2
<1>4. /\ cursor' <= Len(command_list')
      /\ submitted' = drawn' + (Len(command_list') - cursor')
      /\ \A i \in 1..Len(command_list') :
           i > cursor' => command_list'[i].serial = drawn' + (i - cursor')
      /\ at' # "draw" => cursor' = 0
  BY DEF ListInv
<1> QED BY <1>1, <1>3, <1>4 DEF ListInv

\* What the library does with objects keeps a list that it has submitted executable, if
\* it keeps what the list names.
LEMMA ListKept ==
  ASSUME ListInv, at \in {"render", "submitted"},
         UNCHANGED <<at, cursor, command_list, submitted, drawn>>,
         \A i \in 1..Len(command_list) :
           at = "submitted" =>
             LET c == command_list[i]
             IN  /\ c.buffer \in alive'.buffer
                 /\ render_buffer_map'[c.buffer].texture = render_buffer_map[c.buffer].texture
                 /\ render_buffer_map[c.buffer].texture \in alive'.texture
                 /\ c.type = "draw" => c.geometry \in alive'.geometry /\ c.texture \in alive'.texture
  PROVE  ListInv'
<1>1. CASE at = "render"
  BY <1>1, ListSame
<1>2. CASE at = "submitted"
  <2>1. \A i \in 1..Len(command_list') : Executable(command_list[i])'
    BY <1>2 DEF Executable, Drawable
  <2> QED BY <1>2, <2>1 DEF ListInv
<1> QED BY <1>1, <1>2

\* So it does when it only adds objects.
LEMMA ListKeptByCreation ==
  ASSUME ListInv, at \in {"render", "submitted"},
         UNCHANGED <<at, cursor, command_list, submitted, drawn>>,
         alive.buffer \subseteq alive'.buffer, alive.texture \subseteq alive'.texture,
         alive.geometry \subseteq alive'.geometry,
         \A b \in alive.buffer : render_buffer_map'[b].texture = render_buffer_map[b].texture
  PROVE  ListInv'
<1>1. \A i \in 1..Len(command_list) : Executable(command_list[i])
  BY DEF ListInv
<1> QED BY <1>1, ListKept DEF Executable, Drawable

\* What a command of the list names is in Named.
LEMMA NamedByCommand ==
  ASSUME LoopTypes, ListInv, NEW i \in 1..Len(command_list), NEW c, c = command_list[i]
  PROVE  /\ c.buffer \in Named.buffer /\ c.buffer \in alive.buffer
         /\ render_buffer_map[c.buffer].texture \in Named.texture
         /\ render_buffer_map[c.buffer].texture \in alive.texture
         /\ c.texture \in Named.texture /\ c.geometry \in Named.geometry
         /\ c.type = "draw" => c.geometry \in alive.geometry /\ c.texture \in alive.texture
<1>1. i \in DOMAIN command_list
  BY LenProperties DEF LoopTypes
<1>2. Executable(c)
  BY DEF ListInv
<1>3. c.buffer \in alive.buffer /\ render_buffer_map[c.buffer].texture \in alive.texture
  BY <1>2 DEF Executable, Drawable
<1>4. /\ c.buffer \in Named.buffer /\ c.geometry \in Named.geometry
      /\ c.texture \in Named.texture /\ render_buffer_map[c.buffer].texture \in Named.texture
  BY <1>1 DEF Named
<1> QED BY <1>2, <1>3, <1>4 DEF Executable

\* The library creates an object.
LEMMA CreatesStep ==
  ASSUME IInv, LibraryCreates
  PROVE  IInv'
<1>1. /\ DriverTypes /\ LoopTypes /\ TypesInv /\ IdsInv /\ NamesInv /\ ListInv /\ TargetInv
  BY DEF IInv, TypesInv
<1>2. /\ at \in {"render", "submitted"}
      /\ UNCHANGED <<at, cursor, engine, lists, submitted, drawn>>
  BY DEF LibraryCreates, Rendering
<1>3. /\ next_id.texture \in Nat /\ next_id.buffer \in Nat /\ next_id.geometry \in Nat
  BY <1>1 DEF DriverTypes
<1>4. CASE /\ CreateTexture
           /\ alive' = [alive EXCEPT !.texture = @ \cup {next_id.texture}]
           /\ UNCHANGED target
  <2>1. /\ alive'.texture = alive.texture \cup {next_id.texture}
        /\ alive'.buffer = alive.buffer /\ alive'.geometry = alive.geometry
        /\ UNCHANGED <<command_list, engine, target>>
    BY <1>1, <1>2, <1>4 DEF LoopTypes, CreateTexture
  <2>2. DriverTypes' /\ IdsInv' /\ NamesInv'
    BY <1>1, <1>4, <2>1, CreateTextureNames
  <2>3. LoopTypes'
    BY <1>1, <1>2, <1>3, <1>4, <2>1 DEF LoopTypes
  <2>4. ListInv'
    <3>1. render_buffer_map' = render_buffer_map
      BY <1>4 DEF CreateTexture
    <3> QED BY <1>1, <1>2, <2>1, <3>1, ListKeptByCreation
  <2>5. TargetInv'
    BY <1>1, <1>2, <2>1 DEF TargetInv
  <2> QED BY <2>2, <2>3, <2>4, <2>5 DEF IInv, TypesInv
<1>5. CASE /\ CreateGeometry
           /\ alive' = [alive EXCEPT !.geometry = @ \cup {next_id.geometry}]
           /\ UNCHANGED target
  <2>1. /\ alive'.geometry = alive.geometry \cup {next_id.geometry}
        /\ alive'.buffer = alive.buffer /\ alive'.texture = alive.texture
        /\ UNCHANGED <<command_list, engine, target>>
    BY <1>1, <1>2, <1>5 DEF LoopTypes, CreateGeometry
  <2>2. DriverTypes' /\ IdsInv' /\ NamesInv'
    <3>1. Geometries' = Geometries \cup {next_id.geometry}
      BY <2>1 DEF Geometries
    <3>2. engine.geometry # next_id.geometry
      <4>1. CASE engine.geometry = 0
        BY <1>1, <1>3, <4>1 DEF IdsInv
      <4>2. CASE engine.geometry # 0
        <5>1. engine.geometry \in DOMAIN geometry_map
          BY <1>1, <4>2 DEF IdsInv, Geometries
        <5>2. engine.geometry < next_id.geometry
          BY <1>1, <5>1 DEF IdsInv
        <5> QED BY <1>1, <1>3, <5>2 DEF LoopTypes
      <4> QED BY <4>1, <4>2
    <3>3. engine'.geometry \notin alive'.geometry
      BY <1>1, <2>1, <3>2 DEF IdsInv
    <3> QED BY <1>1, <1>5, <2>1, <3>1, <3>3, CreateGeometryNames
  <2>3. LoopTypes'
    BY <1>1, <1>2, <1>3, <1>5, <2>1 DEF LoopTypes
  <2>4. ListInv'
    <3>1. render_buffer_map' = render_buffer_map
      BY <1>5 DEF CreateGeometry
    <3> QED BY <1>1, <1>2, <2>1, <3>1, ListKeptByCreation
  <2>5. TargetInv'
    BY <1>1, <1>2, <2>1 DEF TargetInv
  <2> QED BY <2>2, <2>3, <2>4, <2>5 DEF IInv, TypesInv
<1>6. ASSUME NEW t \in alive.texture, CreateRenderBuffer(t),
             target' = IF target = 0 THEN t ELSE target,
             alive' = [alive EXCEPT !.buffer = @ \cup {next_id.buffer}]
      PROVE  IInv'
  <2>1. /\ alive'.buffer = alive.buffer \cup {next_id.buffer}
        /\ alive'.texture = alive.texture /\ alive'.geometry = alive.geometry
        /\ UNCHANGED <<command_list, engine>>
    BY <1>1, <1>2, <1>6 DEF LoopTypes, CreateRenderBuffer
  <2>2. DriverTypes' /\ IdsInv' /\ NamesInv'
    BY <1>1, <1>6, <2>1, CreateRenderBufferNames
  <2>3. t # 0 /\ t \in Nat
    BY <1>1 DEF IdsInv, LoopTypes
  <2>4. LoopTypes'
    BY <1>1, <1>2, <1>3, <1>6, <2>1, <2>3 DEF LoopTypes
  <2>5. ListInv'
    <3>1. ASSUME NEW b \in alive.buffer
          PROVE  render_buffer_map'[b].texture = render_buffer_map[b].texture
      <4>1. b \in DOMAIN render_buffer_map /\ b # next_id.buffer
        BY <1>1, <1>3 DEF IdsInv
      <4> QED BY <1>6, <4>1 DEF CreateRenderBuffer, Put
    <3> QED BY <1>1, <1>2, <2>1, <3>1, ListKeptByCreation
  <2>6. TargetInv'
    BY <1>1, <1>2, <1>6, <2>1, <2>3 DEF TargetInv
  <2> QED BY <2>2, <2>4, <2>5, <2>6 DEF IInv, TypesInv
<1> QED BY <1>4, <1>5, <1>6 DEF LibraryCreates

\* The library destroys an object.
LEMMA DestroysStep ==
  ASSUME IInv, LibraryDestroys
  PROVE  IInv'
<1>1. /\ DriverTypes /\ LoopTypes /\ TypesInv /\ IdsInv /\ NamesInv /\ ListInv /\ TargetInv
  BY DEF IInv, TypesInv
<1>2. /\ at \in {"render", "submitted"}
      /\ UNCHANGED <<at, cursor, engine, target, lists, submitted, drawn>>
  BY DEF LibraryDestroys, Rendering
<1>3. ASSUME NEW t \in Disposable("texture") \ {target}, DestroyTexture(t),
             alive' = [alive EXCEPT !.texture = @ \ {t}]
      PROVE  IInv'
  <2>0. /\ t \in alive.texture
        /\ at = "submitted" => t \notin Named.texture
    BY <1>3 DEF Disposable
  <2>1. /\ alive'.texture = alive.texture \ {t}
        /\ alive'.buffer = alive.buffer /\ alive'.geometry = alive.geometry
        /\ UNCHANGED command_list
    BY <1>1, <1>3 DEF LoopTypes, DestroyTexture
  <2>2. DriverTypes' /\ IdsInv' /\ NamesInv'
    BY <2>0, <1>1, <1>2, <1>3, <2>1, DestroyTextureNames
  <2>3. LoopTypes'
    BY <1>1, <1>2, <1>3, <2>1 DEF LoopTypes
  <2>4. ListInv'
    <3> SUFFICES ASSUME NEW i \in 1..Len(command_list), at = "submitted", NEW c,
                        c = command_list[i]
                 PROVE  /\ c.buffer \in alive'.buffer
                        /\ render_buffer_map'[c.buffer].texture = render_buffer_map[c.buffer].texture
                        /\ render_buffer_map[c.buffer].texture \in alive'.texture
                        /\ c.type = "draw" => c.geometry \in alive'.geometry /\ c.texture \in alive'.texture
      BY <1>1, <1>2, <2>1, ListKept
    <3>1. render_buffer_map' = render_buffer_map
      BY <1>3 DEF DestroyTexture, driverMaps
    <3> QED BY <1>1, <2>0, <2>1, <3>1, NamedByCommand
  <2>5. TargetInv'
    BY <1>1, <1>2, <2>1 DEF TargetInv
  <2> QED BY <2>2, <2>3, <2>4, <2>5 DEF IInv, TypesInv
<1>4. ASSUME NEW b \in Disposable("buffer"), DestroyRenderBuffer(b),
             alive' = [alive EXCEPT !.buffer = @ \ {b}]
      PROVE  IInv'
  <2>0. /\ b \in alive.buffer
        /\ at = "submitted" => b \notin Named.buffer
    BY <1>4 DEF Disposable
  <2>1. /\ alive'.buffer = alive.buffer \ {b}
        /\ alive'.texture = alive.texture /\ alive'.geometry = alive.geometry
        /\ UNCHANGED command_list
    BY <1>1, <1>4 DEF LoopTypes, DestroyRenderBuffer
  <2>2. DriverTypes' /\ IdsInv' /\ NamesInv'
    BY <2>0, <1>1, <1>2, <1>4, <2>1, DestroyRenderBufferNames
  <2>3. LoopTypes'
    BY <1>1, <1>2, <1>4, <2>1 DEF LoopTypes
  <2>4. ListInv'
    <3> SUFFICES ASSUME NEW i \in 1..Len(command_list), at = "submitted", NEW c,
                        c = command_list[i]
                 PROVE  /\ c.buffer \in alive'.buffer
                        /\ render_buffer_map'[c.buffer].texture = render_buffer_map[c.buffer].texture
                        /\ render_buffer_map[c.buffer].texture \in alive'.texture
                        /\ c.type = "draw" => c.geometry \in alive'.geometry /\ c.texture \in alive'.texture
      BY <1>1, <1>2, <2>1, ListKept
    <3>1. c.buffer \in alive.buffer /\ c.buffer # b
      BY <1>1, <2>0, NamedByCommand
    <3>2. render_buffer_map'[c.buffer] = render_buffer_map[c.buffer]
      BY <1>1, <1>4, <3>1 DEF DestroyRenderBuffer, Drop, IdsInv
    <3> QED BY <1>1, <2>1, <3>1, <3>2, NamedByCommand
  <2>5. TargetInv'
    BY <1>1, <1>2, <2>1 DEF TargetInv
  <2> QED BY <2>2, <2>3, <2>4, <2>5 DEF IInv, TypesInv
<1>5. ASSUME NEW g \in Disposable("geometry"), DestroyGeometry(g),
             alive' = [alive EXCEPT !.geometry = @ \ {g}]
      PROVE  IInv'
  <2>0. /\ g \in alive.geometry
        /\ at = "submitted" => g \notin Named.geometry
    BY <1>5 DEF Disposable
  <2>1. /\ alive'.geometry = alive.geometry \ {g}
        /\ alive'.texture = alive.texture /\ alive'.buffer = alive.buffer
        /\ UNCHANGED command_list
    BY <1>1, <1>5 DEF LoopTypes, DestroyGeometry
  <2>2. DriverTypes' /\ IdsInv' /\ NamesInv'
    BY <2>0, <1>1, <1>2, <1>5, <2>1, DestroyGeometryNames
  <2>3. LoopTypes'
    BY <1>1, <1>2, <1>5, <2>1 DEF LoopTypes
  <2>4. ListInv'
    <3> SUFFICES ASSUME NEW i \in 1..Len(command_list), at = "submitted", NEW c,
                        c = command_list[i]
                 PROVE  /\ c.buffer \in alive'.buffer
                        /\ render_buffer_map'[c.buffer].texture = render_buffer_map[c.buffer].texture
                        /\ render_buffer_map[c.buffer].texture \in alive'.texture
                        /\ c.type = "draw" => c.geometry \in alive'.geometry /\ c.texture \in alive'.texture
      BY <1>1, <1>2, <2>1, ListKept
    <3>1. render_buffer_map' = render_buffer_map
      BY <1>5 DEF DestroyGeometry
    <3> QED BY <1>1, <2>0, <2>1, <3>1, NamedByCommand
  <2>5. TargetInv'
    BY <1>1, <1>2, <2>1 DEF TargetInv
  <2> QED BY <2>2, <2>3, <2>4, <2>5 DEF IInv, TypesInv
<1> QED BY <1>3, <1>4, <1>5 DEF LibraryDestroys


\* A step that leaves the driver's objects alone.
LEMMA NamesSame ==
  ASSUME DriverTypes, IdsInv, NamesInv, UNCHANGED <<driverMaps, next_id, gl, engine, alive>>
  PROVE  DriverTypes' /\ IdsInv' /\ NamesInv'
<1>1. DriverTypes'
  BY DEF driverMaps, DriverTypes
<1>2. Geometries' = Geometries
  BY DEF Geometries
<1> HIDE DEF Geometries
<1>3. IdsInv'
  BY <1>2 DEF driverMaps, IdsInv
<1>4. TexturesInv' /\ BuffersInv' /\ FramebuffersInv' /\ ArraysInv'
  BY <1>2, TexturesSame, BuffersSame, FramebuffersSame, ArraysSame DEF driverMaps, NamesInv
<1> QED BY <1>1, <1>3, <1>4 DEF NamesInv

\* The library is asked to render.
LEMMA StartStep ==
  ASSUME IInv, StartRender
  PROVE  IInv'
<1>1. /\ DriverTypes /\ LoopTypes /\ TypesInv /\ IdsInv /\ NamesInv /\ ListInv /\ TargetInv
  BY DEF IInv, TypesInv
<1>2. /\ at = "repaint" /\ at' = "render"
      /\ UNCHANGED <<driverMaps, command_list, next_id, gl, cursor, engine, target, alive,
                     submitted, drawn>>
  BY DEF StartRender, Goto, libraryVars
<1>3. DriverTypes' /\ IdsInv' /\ NamesInv'
  BY <1>1, <1>2, NamesSame
<1>4. LoopTypes'
  BY <1>1, <1>2 DEF LoopTypes
<1>5. ListInv'
  BY <1>1, <1>2, ListSame
<1>6. TargetInv'
  BY <1>1, <1>2 DEF TargetInv
<1> QED BY <1>3, <1>4, <1>5, <1>6 DEF IInv, TypesInv

\* The library submits a list, which may be empty.
LEMMA SubmitsStep ==
  ASSUME IInv, LibrarySubmits
  PROVE  IInv'
<1>1. /\ DriverTypes /\ LoopTypes /\ TypesInv /\ IdsInv /\ NamesInv /\ ListInv /\ TargetInv
  BY DEF IInv, TypesInv
<1>2. /\ at = "render" /\ at' = "submitted" /\ UNCHANGED <<cursor, engine, target, alive, drawn>>
  BY DEF LibrarySubmits, Goto
<1>3. /\ command_list = <<>> /\ cursor = 0
  BY <1>1, <1>2 DEF ListInv
<1>4. /\ Len(command_list) = 0 /\ submitted = drawn /\ drawn \in Nat
  BY <1>1, <1>3 DEF ListInv, LoopTypes
<1>5. ASSUME NEW list, UpdateCommandList(list)
      PROVE  DriverTypes' /\ IdsInv' /\ NamesInv' /\ TargetInv'
  <2>1. UNCHANGED <<driverMaps, next_id, gl, engine, alive>>
    BY <1>2, <1>5 DEF UpdateCommandList
  <2>2. TargetInv'
    BY <1>1, <1>2 DEF TargetInv
  <2> QED BY <1>1, <2>1, <2>2, NamesSame
<1>6. CASE UpdateCommandList(<<>>) /\ UNCHANGED <<lists, submitted>>
  <2>1. command_list' = <<>> /\ submitted' = submitted
    BY <1>3, <1>6 DEF UpdateCommandList
  <2>2. LoopTypes'
    BY <1>1, <1>2, <1>3, <2>1 DEF LoopTypes
  <2>3. ListInv'
    <3>1. 1..Len(command_list') = {} /\ Len(command_list') = 0
      BY <2>1
    <3>2. \A i \in 1..Len(command_list') : Executable(command_list[i])'
      BY <3>1
    <3> QED BY <1>2, <1>3, <1>4, <2>1, <3>1, <3>2 DEF ListInv
  <2> QED BY <1>5, <1>6, <2>2, <2>3 DEF IInv, TypesInv
<1>7. ASSUME NEW n \in 1..MaxCommands,
             NEW list \in [1..n -> UNION {Commands(submitted + i) : i \in 1..n}],
             \A i \in 1..n : list[i].serial = submitted + i,
             UpdateCommandList(list), submitted' = submitted + n
      PROVE  IInv'
  <2>1. n \in Nat /\ n # 0 /\ n > 0
    BY UIBoundsAssumption
  <2>2. \A i \in 1..n : list[i] \in Command /\ Executable(list[i])
    <3> SUFFICES ASSUME NEW i \in 1..n PROVE list[i] \in Command /\ Executable(list[i])
      OBVIOUS
    <3>1. PICK j \in 1..n : list[i] \in Commands(submitted + j)
      OBVIOUS
    <3>2. submitted + j \in Nat
      BY <1>1, <2>1 DEF LoopTypes
    <3>3. Drawable \subseteq Nat /\ alive.geometry \subseteq Nat /\ alive.texture \subseteq Nat
      BY <1>1 DEF LoopTypes, Drawable
    <3>4. CASE list[i] \in [serial : {submitted + j}, type : {"draw"}, geometry : alive.geometry,
                            buffer : Drawable, texture : alive.texture]
      BY <3>2, <3>3, <3>4 DEF Command, Executable
    <3>5. CASE list[i] \in [serial : {submitted + j}, type : {"clear"}, geometry : {0},
                            buffer : Drawable, texture : {0}]
      <4>1. PICK c : c = list[i]
        OBVIOUS
      <4>2. /\ c = [serial |-> c.serial, type |-> c.type, geometry |-> c.geometry,
                   buffer |-> c.buffer, texture |-> c.texture]
            /\ c.serial \in Nat /\ c.type = "clear" /\ c.geometry = 0 /\ c.buffer \in Drawable
            /\ c.texture = 0
        BY <3>2, <3>5, <4>1
      <4>3. c \in Command
        <5>1. /\ c.type \in {"draw", "clear"} /\ c.geometry \in Nat /\ c.buffer \in Nat
              /\ c.texture \in Nat
          BY <3>3, <4>2
        <5> QED BY <4>2, <5>1 DEF Command
      <4>4. Executable(c)
        BY <4>2 DEF Executable
      <4> QED BY <4>1, <4>3, <4>4
    <3> QED BY <3>1, <3>4, <3>5 DEF Commands
  <2>3. list \in Seq(Command) /\ Len(list) = n
    <3>1. list \in [1..n -> Command]
      BY <2>2
    <3>2. list \in Seq(Command)
      BY <2>1, <3>1, SeqDef
    <3> QED BY <2>1, <3>1, <3>2, LenProperties
  <2>4. list # <<>>
    BY <2>1, <2>3
  <2>5. command_list' = list
    BY <1>7, <2>4 DEF UpdateCommandList
  <2>6. LoopTypes'
    BY <1>1, <1>2, <1>7, <2>1, <2>3, <2>5 DEF LoopTypes
  <2>7. Drawable' = Drawable
    BY <1>2, <1>7 DEF UpdateCommandList, driverMaps, Drawable
  <2>8. ListInv'
    <3>1. \A i \in 1..Len(command_list') : Executable(command_list[i])'
      <4> HIDE DEF Drawable
      <4> QED BY <1>2, <2>2, <2>3, <2>5, <2>7 DEF Executable
    <3>2. /\ cursor' <= Len(command_list')
          /\ submitted' = drawn' + (Len(command_list') - cursor')
      BY <1>2, <1>3, <1>4, <1>7, <2>1, <2>3, <2>5
    <3>3. \A i \in 1..Len(command_list') :
            i > cursor' => command_list'[i].serial = drawn' + (i - cursor')
      BY <1>2, <1>3, <1>4, <1>7, <2>1, <2>3, <2>5
    <3> QED BY <1>2, <1>3, <3>1, <3>2, <3>3 DEF ListInv
  <2> QED BY <1>5, <1>7, <2>6, <2>8 DEF IInv, TypesInv
<1> QED BY <1>6, <1>7 DEF LibrarySubmits

\* Render returns.
LEMMA EndStep ==
  ASSUME IInv, EndRender
  PROVE  IInv'
<1>1. /\ DriverTypes /\ LoopTypes /\ TypesInv /\ IdsInv /\ NamesInv /\ ListInv /\ TargetInv
  BY DEF IInv, TypesInv
<1>2. /\ at \in {"render", "submitted"} /\ at' = "check"
      /\ UNCHANGED <<driverMaps, command_list, next_id, gl, cursor, engine, target, alive,
                     submitted, drawn>>
  BY DEF EndRender, Rendering, Goto, driverVars, libraryVars
<1>3. DriverTypes' /\ IdsInv' /\ NamesInv'
  BY <1>1, <1>2, NamesSame
<1>4. LoopTypes'
  BY <1>1, <1>2 DEF LoopTypes
<1>5. ListInv'
  <2>1. Drawable' = Drawable
    BY <1>2 DEF driverMaps, Drawable
  <2>2. \A i \in 1..Len(command_list') : Executable(command_list[i])'
    <3> HIDE DEF Drawable
    <3> QED BY <1>1, <1>2, <2>1 DEF ListInv, Executable
  <2> QED BY <1>1, <1>2, <2>2 DEF ListInv
<1>6. TargetInv'
  BY <1>1, <1>2 DEF TargetInv
<1> QED BY <1>3, <1>4, <1>5, <1>6 DEF IInv, TypesInv

\* Repaint looks whether there is something to draw.
LEMMA CheckStep ==
  ASSUME IInv, CheckPending
  PROVE  IInv'
<1>1. /\ DriverTypes /\ LoopTypes /\ TypesInv /\ IdsInv /\ NamesInv /\ ListInv /\ TargetInv
  BY DEF IInv, TypesInv
<1>2. /\ at = "check"
      /\ at' = IF command_list # <<>> THEN "draw" ELSE "poll"
      /\ UNCHANGED <<driverMaps, command_list, next_id, gl, cursor, engine, target, alive,
                     submitted, drawn>>
  BY DEF CheckPending, HasCommandsPending, Goto, libraryVars
<1>3. DriverTypes' /\ IdsInv' /\ NamesInv'
  BY <1>1, <1>2, NamesSame
<1>4. LoopTypes'
  BY <1>1, <1>2 DEF LoopTypes
<1>5. ListInv'
  <2>1. Drawable' = Drawable
    BY <1>2 DEF driverMaps, Drawable
  <2>2. \A i \in 1..Len(command_list') : Executable(command_list[i])'
    <3> HIDE DEF Drawable
    <3> QED BY <1>1, <1>2, <2>1 DEF ListInv, Executable
  <2> QED BY <1>1, <1>2, <2>2 DEF ListInv
<1>6. TargetInv'
  BY <1>1, <1>2 DEF TargetInv
<1> QED BY <1>3, <1>4, <1>5, <1>6 DEF IInv, TypesInv


\* The next command is drawn.
LEMMA DrawStep ==
  ASSUME IInv, at = "draw", cursor < Len(command_list), Execute(command_list[cursor + 1]),
         cursor' = cursor + 1, drawn' = drawn + 1,
         UNCHANGED <<at, command_list, engine, libraryVars>>
  PROVE  IInv'
<1>1. /\ DriverTypes /\ LoopTypes /\ TypesInv /\ IdsInv /\ NamesInv /\ ListInv /\ TargetInv
  BY DEF IInv, TypesInv
<1>2. UNCHANGED <<target, alive, submitted>>
  BY DEF libraryVars
<1>3. cursor \in Nat /\ drawn \in Nat /\ submitted \in Nat /\ Len(command_list) \in Nat
  BY <1>1, LenProperties DEF LoopTypes
<1>4. PICK c : c = command_list[cursor + 1]
  OBVIOUS
<1>5. Executable(c)
  <2>1. cursor + 1 \in 1..Len(command_list)
    BY <1>3
  <2>2. \A i \in 1..Len(command_list) : Executable(command_list[i])
    BY <1>1 DEF ListInv
  <2> QED BY <1>4, <2>1, <2>2
<1>6. c.buffer \in alive.buffer
  BY <1>5 DEF Executable, Drawable
<1>7. /\ DriverTypes' /\ IdsInv' /\ NamesInv'
      /\ \A b \in alive.buffer : render_buffer_map'[b].texture = render_buffer_map[b].texture
  <2>1. CASE c.type = "draw"
    <3>1. DrawGeometry(c.geometry, c.buffer, c.texture)
      BY <1>4, <2>1 DEF Execute
    <3>2. c.geometry \in Geometries /\ c.texture \in alive.texture
      BY <1>5, <2>1 DEF Executable, Geometries
    <3>3. c.buffer \in alive.buffer \cup {0} /\ UNCHANGED <<engine, alive>>
      BY <1>2, <1>6
    <3> QED BY <1>1, <3>1, <3>2, <3>3, DrawNames
  <2>2. CASE c.type # "draw"
    <3>1. ClearRenderBuffer(c.buffer)
      BY <1>4, <2>2 DEF Execute
    <3> QED BY <1>1, <1>2, <1>6, <3>1, ClearNames
  <2> QED BY <2>1, <2>2
<1>8. LoopTypes'
  BY <1>1, <1>2, <1>3 DEF LoopTypes
<1>9. ListInv'
  <2>1. Drawable' = Drawable
    BY <1>2, <1>7 DEF Drawable
  <2>2. \A i \in 1..Len(command_list') : Executable(command_list[i])'
    <3> HIDE DEF Drawable
    <3> QED BY <1>1, <1>2, <2>1 DEF ListInv, Executable
  <2>3. /\ cursor' <= Len(command_list')
        /\ submitted' = drawn' + (Len(command_list') - cursor')
    <3>1. submitted = drawn + (Len(command_list) - cursor)
      BY <1>1 DEF ListInv
    <3>2. PICK n \in Nat : n = Len(command_list) /\ n = Len(command_list')
      BY <1>3
    <3> QED BY <1>2, <1>3, <3>1, <3>2
  <2>4. \A i \in 1..Len(command_list') :
          i > cursor' => command_list'[i].serial = drawn' + (i - cursor')
    <3> SUFFICES ASSUME NEW i \in 1..Len(command_list), i > cursor + 1
                 PROVE  command_list[i].serial = drawn + 1 + (i - (cursor + 1))
      OBVIOUS
    <3>1. i > cursor /\ i \in Int
      BY <1>3
    <3>2. command_list[i].serial = drawn + (i - cursor)
      BY <1>1, <3>1 DEF ListInv
    <3> QED BY <1>3, <3>1, <3>2
  <2> QED BY <2>2, <2>3, <2>4 DEF ListInv
<1>10. TargetInv'
  BY <1>1, <1>2 DEF TargetInv
<1> QED BY <1>7, <1>8, <1>9, <1>10 DEF IInv, TypesInv

\* The list has been drawn.
LEMMA FinishStep ==
  ASSUME IInv, at = "draw", cursor = Len(command_list), FinishList,
         UNCHANGED <<engine, libraryVars>>
  PROVE  IInv'
<1>1. /\ DriverTypes /\ LoopTypes /\ TypesInv /\ IdsInv /\ NamesInv /\ ListInv /\ TargetInv
  BY DEF IInv, TypesInv
<1>2. /\ command_list' = <<>> /\ cursor' = 0 /\ at' = "window"
      /\ UNCHANGED <<driverMaps, next_id, gl, engine, target, alive, submitted, drawn>>
  BY DEF FinishList, Goto, libraryVars
<1>3. DriverTypes' /\ IdsInv' /\ NamesInv'
  BY <1>1, <1>2, NamesSame
<1>4. LoopTypes'
  BY <1>1, <1>2 DEF LoopTypes
<1>5. ListInv'
  <2>1. 1..Len(command_list') = {} /\ Len(command_list') = 0
    BY <1>2
  <2>2. \A i \in 1..Len(command_list') : Executable(command_list[i])'
    BY <2>1
  <2>3. submitted = drawn
    BY <1>1 DEF ListInv, LoopTypes
  <2> QED BY <1>1, <1>2, <2>1, <2>2, <2>3 DEF ListInv, LoopTypes
<1>6. TargetInv'
  <2>1. 1 \in 1..Len(command_list)
    <3>1. command_list # <<>> /\ command_list \in Seq(Command)
      BY <1>1 DEF TargetInv, LoopTypes
    <3>2. Len(command_list) # 0 /\ Len(command_list) \in Nat
      BY <3>1, EmptySeq, LenProperties
    <3> QED BY <3>2
  <2>2. command_list[1].buffer \in alive.buffer
    BY <1>1, <2>1 DEF ListInv, Executable, Drawable
  <2>3. target # 0
    BY <1>1, <2>2 DEF TargetInv
  <2> QED BY <1>1, <1>2, <2>3 DEF TargetInv
<1> QED BY <1>3, <1>4, <1>5, <1>6 DEF IInv, TypesInv

\* Engine makes its quad.
LEMMA UpdateStep ==
  ASSUME IInv, UpdateGeometry
  PROVE  IInv'
<1>1. /\ DriverTypes /\ LoopTypes /\ TypesInv /\ IdsInv /\ NamesInv /\ ListInv /\ TargetInv
  BY DEF IInv, TypesInv
<1>2. /\ at = "window" /\ engine.geometry = 0
      /\ engine' = [geometry |-> next_id.geometry, texture |-> target]
      /\ CreateGeometry
      /\ UNCHANGED <<at, cursor, command_list, target, alive, submitted, drawn>>
  BY DEF UpdateGeometry, CreateGeometry, libraryVars
<1>3. next_id.geometry \in Nat /\ next_id.geometry # 0
  BY <1>1 DEF DriverTypes, IdsInv
<1>4. DriverTypes' /\ IdsInv' /\ NamesInv'
  <2>1. Geometries' = Geometries \cup {next_id.geometry}
    BY <1>2, <1>3 DEF Geometries
  <2>2. next_id.geometry \notin alive.geometry
    <3>1. alive.geometry \subseteq DOMAIN geometry_map
      BY <1>1 DEF IdsInv, Geometries
    <3>2. next_id.geometry \notin DOMAIN geometry_map
      BY <1>1, <1>3 DEF IdsInv
    <3> QED BY <3>1, <3>2
  <2>3. engine'.geometry \notin alive'.geometry
    BY <1>2, <2>2
  <2>4. alive'.texture = alive.texture /\ alive'.buffer = alive.buffer
    BY <1>2
  <2> QED BY <1>1, <1>2, <2>1, <2>3, <2>4, CreateGeometryNames
<1>5. LoopTypes'
  BY <1>1, <1>2, <1>3 DEF LoopTypes
<1>6. ListInv'
  BY <1>1, <1>2, ListSame
<1>7. TargetInv'
  BY <1>1, <1>2 DEF TargetInv
<1> QED BY <1>4, <1>5, <1>6, <1>7 DEF IInv, TypesInv

\* Engine draws the view on the window.
LEMMA WindowStep ==
  ASSUME IInv, DrawWindow
  PROVE  IInv'
<1>1. /\ DriverTypes /\ LoopTypes /\ TypesInv /\ IdsInv /\ NamesInv /\ ListInv /\ TargetInv
  BY DEF IInv, TypesInv
<1>2. /\ at = "window" /\ at' = "poll" /\ engine.geometry # 0
      /\ DrawGeometry(engine.geometry, 0, engine.texture)
      /\ UNCHANGED <<command_list, cursor, engine, target, alive, submitted, drawn>>
  BY DEF DrawWindow, Goto, libraryVars
<1>3. DriverTypes' /\ IdsInv' /\ NamesInv'
  <2>1. engine.texture \in alive.texture
    BY <1>1, <1>2 DEF TargetInv
  <2>2. engine.geometry \in Geometries /\ 0 \in alive.buffer \cup {0}
    BY <1>2 DEF Geometries
  <2>3. UNCHANGED <<engine, alive>>
    BY <1>2
  <2> QED BY <1>1, <1>2, <2>1, <2>2, <2>3, DrawNames
<1>4. LoopTypes'
  BY <1>1, <1>2 DEF LoopTypes
<1>5. ListInv'
  BY <1>1, <1>2, ListSame
<1>6. TargetInv'
  BY <1>1, <1>2 DEF TargetInv
<1> QED BY <1>3, <1>4, <1>5, <1>6 DEF IInv, TypesInv

\* Events are polled.
LEMMA PollStep ==
  ASSUME IInv, PollEvents
  PROVE  IInv'
<1>1. /\ DriverTypes /\ LoopTypes /\ TypesInv /\ IdsInv /\ NamesInv /\ ListInv /\ TargetInv
  BY DEF IInv, TypesInv
<1>2. /\ at = "poll" /\ at' \in {"repaint", "closed"}
      /\ UNCHANGED <<driverMaps, command_list, next_id, gl, cursor, engine, target, alive,
                     submitted, drawn>>
  BY DEF PollEvents, driverVars, libraryVars
<1>3. DriverTypes' /\ IdsInv' /\ NamesInv'
  BY <1>1, <1>2, NamesSame
<1>4. LoopTypes'
  BY <1>1, <1>2 DEF LoopTypes
<1>5. ListInv'
  BY <1>1, <1>2, ListSame
<1>6. TargetInv'
  BY <1>1, <1>2 DEF TargetInv
<1> QED BY <1>3, <1>4, <1>5, <1>6 DEF IInv, TypesInv

\* Nothing happens.
LEMMA StutterStep ==
  ASSUME IInv, UNCHANGED uiVars
  PROVE  IInv'
<1>1. /\ DriverTypes /\ LoopTypes /\ IdsInv /\ NamesInv /\ ListInv /\ TargetInv
  BY DEF IInv, TypesInv
<1>2. UNCHANGED <<driverMaps, command_list, next_id, gl, at, cursor, engine, target, alive,
                  submitted, drawn>>
  BY DEF uiVars, driverVars, libraryVars
<1>3. DriverTypes' /\ IdsInv' /\ NamesInv'
  BY <1>1, <1>2, NamesSame
<1>4. LoopTypes' /\ TargetInv'
  BY <1>1, <1>2 DEF LoopTypes, TargetInv
<1>5. ListInv'
  <2>1. Drawable' = Drawable
    BY <1>2 DEF driverMaps, Drawable
  <2>2. \A i \in 1..Len(command_list') : Executable(command_list[i])'
    <3> HIDE DEF Drawable
    <3> QED BY <1>1, <1>2, <2>1 DEF ListInv, Executable
  <2> QED BY <1>1, <1>2, <2>2 DEF ListInv
<1> QED BY <1>3, <1>4, <1>5 DEF IInv, TypesInv

\* At the start there is nothing.
LEMMA IInvInit ==
  Init => IInv
<1> SUFFICES ASSUME Init PROVE IInv
  OBVIOUS
<1>1. /\ texture_map = <<>> /\ render_buffer_map = <<>> /\ geometry_map = <<>>
      /\ command_list = <<>>
      /\ next_id = [texture |-> 1, buffer |-> 1, geometry |-> 1]
      /\ gl = [textures |-> {}, buffers |-> {}, framebuffers |-> <<>>, arrays |-> <<>>]
      /\ at = "repaint" /\ cursor = 0 /\ engine = [geometry |-> 0, texture |-> 0]
      /\ target = 0 /\ alive = [texture |-> {}, buffer |-> {}, geometry |-> {}]
      /\ submitted = 0 /\ drawn = 0
  BY DEF Init, DriverInit
<1>2. DOMAIN <<>> = {} /\ \A S, T : <<>> \in Maps(S, T)
  <2>1. DOMAIN <<>> = {} /\ \A T : <<>> \in [{} -> T]
    OBVIOUS
  <2> QED BY <2>1 DEF Maps
<1>3. DriverTypes
  BY <1>1, <1>2 DEF DriverTypes
<1>4. LoopTypes
  BY <1>1 DEF LoopTypes
<1>5. Geometries = {}
  BY <1>1 DEF Geometries
<1>6. IdsInv
  BY <1>1, <1>2, <1>5 DEF IdsInv
<1>7. NamesInv
  <2>1. IsFiniteSet({})
    BY FS_EmptySet
  <2>2. OwnNames(gl.framebuffers) = {} /\ OwnNames(gl.arrays) = {}
    BY <1>1, <1>2 DEF OwnNames
  <2>3. TexturesInv
    BY <1>1, <2>1 DEF TexturesInv
  <2>4. BuffersInv
    BY <1>1, <1>5, <2>1 DEF BuffersInv
  <2>5. FramebuffersInv
    BY <1>1, <1>2, <2>1, <2>2 DEF FramebuffersInv
  <2>6. ArraysInv
    BY <1>1, <1>2, <1>5, <2>1, <2>2 DEF ArraysInv
  <2> QED BY <2>3, <2>4, <2>5, <2>6 DEF NamesInv
<1>8. ListInv
  <2>1. 1..Len(command_list) = {} /\ Len(command_list) = 0
    BY <1>1
  <2> QED BY <1>1, <2>1 DEF ListInv
<1>9. TargetInv
  BY <1>1 DEF TargetInv
<1> QED BY <1>3, <1>4, <1>6, <1>7, <1>8, <1>9 DEF IInv, TypesInv

\* Every step keeps the invariant.
LEMMA IInvStep ==
  IInv /\ [Next]_uiVars => IInv'
<1> SUFFICES ASSUME IInv, [Next]_uiVars PROVE IInv'
  OBVIOUS
<1>1. CASE DrawCommandList
  <2>1. CASE /\ cursor < Len(command_list)
             /\ Execute(command_list[cursor + 1])
             /\ cursor' = cursor + 1 /\ drawn' = drawn + 1
             /\ UNCHANGED <<at, command_list>>
    BY <1>1, <2>1, DrawStep DEF DrawCommandList
  <2>2. CASE cursor = Len(command_list) /\ FinishList
    BY <1>1, <2>2, FinishStep DEF DrawCommandList
  <2> QED BY <1>1, <2>1, <2>2 DEF DrawCommandList
<1> QED BY <1>1, CreatesStep, DestroysStep, SubmitsStep, StartStep, EndStep, CheckStep, UpdateStep,
           WindowStep, PollStep, StutterStep DEF Next, Repaint

\* The invariant holds in every state.
LEMMA IInvHolds ==
  Spec => []IInv
<1> QED BY IInvInit, IInvStep, PTL DEF Spec


-----------------------------------------------------------------------------
(* The properties.                                                          *)

\* A list holds what is submitted and not drawn, numbered as submitted, and nothing is
\* left when the library renders again.
THEOREM CommandsInOrder ==
  Spec => []EachCommandOnce
<1>1. ASSUME IInv PROVE EachCommandOnce
  <2>1. LoopTypes /\ ListInv
    BY <1>1 DEF IInv, TypesInv
  <2>2. /\ cursor \in Nat /\ submitted \in Nat /\ drawn \in Nat
        /\ Len(command_list) \in Nat
    BY <2>1, LenProperties DEF LoopTypes
  <2>3. Len(command_list) - cursor = submitted - drawn
    BY <2>1, <2>2 DEF ListInv
  <2>4. ASSUME NEW i \in 1..submitted - drawn
        PROVE  command_list[cursor + i].serial = drawn + i
    <3>1. i \in Nat /\ i > 0 /\ i <= Len(command_list) - cursor
      BY <2>2, <2>3
    <3>2. PICK j \in 1..Len(command_list) : j = cursor + i
      BY <2>2, <3>1
    <3>3. j > cursor /\ j - cursor = i
      BY <2>2, <3>1, <3>2
    <3> QED BY <2>1, <3>2, <3>3 DEF ListInv
  <2>5. at \notin {"submitted", "check", "draw"} => drawn = submitted
    <3> SUFFICES ASSUME at \notin {"submitted", "check", "draw"} PROVE drawn = submitted
      OBVIOUS
    <3>1. command_list = <<>> /\ cursor = 0
      BY <2>1 DEF ListInv
    <3>2. Len(command_list) = 0
      BY <3>1
    <3> QED BY <2>2, <2>3, <3>1, <3>2
  <2> QED BY <2>3, <2>4, <2>5 DEF EachCommandOnce
<1> QED BY <1>1, IInvHolds, PTL

\* The textures of the library, and the geometries, are in use.
LEMMA InUse ==
  ASSUME IInv
  PROVE  /\ \A t \in alive.texture : TextureIsLive(t)
         /\ \A g \in Geometries : GeometryIsLive(g)
<1>1. IdsInv /\ TexturesInv /\ BuffersInv /\ ArraysInv
  BY DEF IInv, NamesInv
<1>2. \A t \in alive.texture : TextureIsLive(t)
  BY <1>1 DEF IdsInv, TexturesInv, TextureIsLive
<1> HIDE DEF Geometries
<1>3. ASSUME NEW g \in Geometries PROVE GeometryIsLive(g)
  <2>1. g \in DOMAIN geometry_map
    BY <1>1 DEF IdsInv
  <2>2. {geometry_map[g].vertices, geometry_map[g].indices} \subseteq gl.buffers
    BY <1>1 DEF BuffersInv
  <2>3. geometry_map[g].vao[Window] # 0 =>
          gl.arrays[<<Window, geometry_map[g].vao[Window]>>]
            = <<geometry_map[g].vertices, geometry_map[g].indices>>
    BY <1>1 DEF ArraysInv
  <2> QED BY <2>1, <2>2, <2>3 DEF GeometryIsLive
<1> QED BY <1>2, <1>3

\* No command is drawn with an object that is gone, and none ends the program.
THEOREM CommandsFindTheirObjects ==
  Spec => []DrawsLiveObjects
<1>1. ASSUME IInv PROVE DrawsLiveObjects
  <2> SUFFICES ASSUME at = "draw", cursor < Len(command_list), NEW c,
                      c = command_list[cursor + 1]
               PROVE  /\ BufferIsLive(c.buffer)
                      /\ c.type = "draw" => GeometryIsLive(c.geometry) /\ TextureIsLive(c.texture)
    BY DEF DrawsLiveObjects
  <2>1. LoopTypes /\ IdsInv /\ TexturesInv /\ FramebuffersInv /\ ListInv
    BY <1>1 DEF IInv, TypesInv, NamesInv
  <2>2. cursor + 1 \in 1..Len(command_list)
    BY <2>1, LenProperties DEF LoopTypes
  <2>3. Executable(c)
    BY <2>1, <2>2 DEF ListInv
  <2>4. c.type = "draw" => GeometryIsLive(c.geometry) /\ TextureIsLive(c.texture)
    <3>1. alive.geometry \subseteq Geometries
      BY DEF Geometries
    <3> QED BY <1>1, <2>3, <3>1, InUse DEF Executable
  <2>5. PICK b : b = c.buffer
    OBVIOUS
  <2>6. /\ b \in alive.buffer /\ b \in DOMAIN render_buffer_map
        /\ render_buffer_map[b].texture \in alive.texture
    BY <2>1, <2>3, <2>5 DEF Executable, Drawable, IdsInv
  <2>7. /\ render_buffer_map[b].texture \in DOMAIN texture_map
        /\ texture_map[render_buffer_map[b].texture].tex \in gl.textures
    BY <2>1, <2>6 DEF IdsInv, TexturesInv
  <2>8. ~CannotBind(b)
    BY <2>6, <2>7 DEF CannotBind, At
  <2>9. b # 0
    BY <2>1, <2>6 DEF IdsInv
  <2>10. ASSUME ~NeedsFBO(b)
         PROVE  /\ <<Window, render_buffer_map[b].fbo[Window]>> \in DOMAIN gl.framebuffers
                /\ gl.framebuffers[<<Window, render_buffer_map[b].fbo[Window]>>]
                     = texture_map[render_buffer_map[b].texture].tex
    <3>1. render_buffer_map[b].fbo[Window] # 0
      BY <2>9, <2>10 DEF NeedsFBO
    <3> QED BY <2>1, <2>6, <3>1 DEF FramebuffersInv
  <2>11. BufferIsLive(b)
    BY <2>8, <2>10 DEF BufferIsLive
  <2> QED BY <2>4, <2>5, <2>11
<1> QED BY <1>1, IInvHolds, PTL

\* The window shows the texture that the library renders to, and it is live.
THEOREM ViewIsShown ==
  Spec => []WindowShowsView
<1>1. ASSUME IInv PROVE WindowShowsView
  <2> SUFFICES ASSUME engine.geometry # 0
               PROVE  /\ engine.texture = target
                      /\ TextureIsLive(engine.texture)
                      /\ GeometryIsLive(engine.geometry)
    BY DEF WindowShowsView
  <2>1. engine.texture = target /\ target \in alive.texture
    BY <1>1 DEF IInv, TargetInv
  <2>2. engine.geometry \in Geometries
    BY DEF Geometries
  <2> QED BY <1>1, <2>1, <2>2, InUse
<1> QED BY <1>1, IInvHolds, PTL

\* Two sets that are paired off are of the same size, and finite if one is.
LEMMA SameSize ==
  ASSUME NEW S, NEW T, NEW f \in [S -> T], \A x, y \in S : f[x] = f[y] => x = y,
         \A z \in T : \E x \in S : f[x] = z, IsFiniteSet(S) \/ IsFiniteSet(T)
  PROVE  IsFiniteSet(S) /\ IsFiniteSet(T) /\ Cardinality(S) = Cardinality(T)
<1>1. f \in Bijection(S, T)
  BY Fun_IsBij
<1>2. ExistsBijection(S, T)
  BY <1>1 DEF ExistsBijection
<1>3. ExistsBijection(T, S)
  BY <1>2, Fun_ExistsBijSymmetric
<1>4. CASE IsFiniteSet(S)
  BY <1>2, <1>4, FS_Bijection
<1>5. CASE IsFiniteSet(T)
  BY <1>3, <1>5, FS_Bijection
<1> QED BY <1>4, <1>5

\* The textures that OpenGL has are those of the library.
LEMMA NoTextureLeaks ==
  ASSUME TexturesInv
  PROVE  /\ gl.textures = {texture_map[t].tex : t \in alive.texture}
         /\ Cardinality(gl.textures) = Cardinality(alive.texture)
<1>1. gl.textures = {texture_map[t].tex : t \in alive.texture}
  BY DEF TexturesInv
<1> DEFINE f == [t \in alive.texture |-> texture_map[t].tex]
<1>2. f \in [alive.texture -> gl.textures]
  BY DEF TexturesInv
<1>3. \A t, u \in alive.texture : f[t] = f[u] => t = u
  BY DEF TexturesInv
<1>4. \A n \in gl.textures : \E t \in alive.texture : f[t] = n
  BY DEF TexturesInv
<1>5. IsFiniteSet(gl.textures)
  BY DEF TexturesInv
<1> HIDE DEF f
<1>6. Cardinality(alive.texture) = Cardinality(gl.textures)
  BY <1>2, <1>3, <1>4, <1>5, SameSize
<1> QED BY <1>1, <1>6

\* The buffers that OpenGL has are two for each geometry.
LEMMA NoBufferLeaks ==
  ASSUME BuffersInv
  PROVE  /\ gl.buffers = UNION {{geometry_map[g].vertices, geometry_map[g].indices} : g \in Geometries}
         /\ Cardinality(gl.buffers) = 2 * Cardinality(Geometries)
<1> HIDE DEF Geometries
<1> DEFINE v == [g \in Geometries |-> geometry_map[g].vertices]
           i == [g \in Geometries |-> geometry_map[g].indices]
           V == {v[g] : g \in Geometries}
           I == {i[g] : g \in Geometries}
<1>1. gl.buffers = UNION {{geometry_map[g].vertices, geometry_map[g].indices} : g \in Geometries}
  <2>1. \A n \in gl.buffers :
          \E g \in Geometries : n \in {geometry_map[g].vertices, geometry_map[g].indices}
    BY DEF BuffersInv
  <2>2. \A g \in Geometries : {geometry_map[g].vertices, geometry_map[g].indices} \subseteq gl.buffers
    BY DEF BuffersInv
  <2> QED BY <2>1, <2>2
<1>2. gl.buffers = V \cup I /\ IsFiniteSet(gl.buffers)
  BY DEF BuffersInv
<1>3. IsFiniteSet(V) /\ IsFiniteSet(I)
  <2> HIDE DEF V, I
  <2> QED BY <1>2, FS_Subset
<1>4. V \cap I = {}
  <2> SUFFICES ASSUME NEW g \in Geometries, NEW h \in Geometries,
                      geometry_map[g].vertices = geometry_map[h].indices
               PROVE  FALSE
    OBVIOUS
  <2>1. g # h
    BY DEF BuffersInv
  <2>2. {geometry_map[g].vertices, geometry_map[g].indices}
          \cap {geometry_map[h].vertices, geometry_map[h].indices} = {}
    BY <2>1 DEF BuffersInv
  <2> QED BY <2>2
<1>5. IsFiniteSet(Geometries) /\ Cardinality(V) = Cardinality(Geometries)
  <2>1. v \in [Geometries -> V] /\ \A n \in V : \E g \in Geometries : v[g] = n
    OBVIOUS
  <2>2. \A g, h \in Geometries : v[g] = v[h] => g = h
    BY DEF BuffersInv
  <2> HIDE DEF v, V
  <2> QED BY <1>3, <2>1, <2>2, SameSize
<1>6. Cardinality(I) = Cardinality(Geometries)
  <2>1. i \in [Geometries -> I] /\ \A n \in I : \E g \in Geometries : i[g] = n
    OBVIOUS
  <2>2. \A g, h \in Geometries : i[g] = i[h] => g = h
    BY DEF BuffersInv
  <2> HIDE DEF i, I
  <2> QED BY <1>3, <2>1, <2>2, SameSize
<1> HIDE DEF V, I
<1>7. Cardinality(V \cup I) = Cardinality(V) + Cardinality(I) - Cardinality(V \cap I)
  BY <1>3, FS_Union
<1>8. Cardinality(Geometries) \in Nat /\ Cardinality({}) = 0
  BY <1>5, FS_CardinalityType, FS_EmptySet
<1>9. Cardinality(gl.buffers) = 2 * Cardinality(Geometries)
  <2>1. PICK k \in Nat : k = Cardinality(Geometries)
    BY <1>8
  <2>2. Cardinality(V \cup I) = k + k - 0
    BY <1>4, <1>5, <1>6, <1>7, <1>8, <2>1
  <2>3. Cardinality(gl.buffers) = k + k - 0
    BY <1>2, <2>2
  <2>4. k + k - 0 = 2 * k
    OBVIOUS
  <2> QED BY <2>1, <2>3, <2>4
<1> QED BY <1>1, <1>9


\* A set of names of one context is as large as the set of those names.
LEMMA NamesOfOneContext ==
  ASSUME NEW map, IsFiniteSet(OwnNames(map)),
         \A p \in DOMAIN map : p[1] = Window /\ p = <<p[1], p[2]>>
  PROVE  IsFiniteSet(DOMAIN map)
<1> DEFINE f == [p \in DOMAIN map |-> p[2]]
           T == {f[p] : p \in DOMAIN map}
<1>1. T = OwnNames(map)
  BY DEF OwnNames
<1>2. f \in [DOMAIN map -> T] /\ \A n \in T : \E p \in DOMAIN map : f[p] = n
  OBVIOUS
<1>3. \A p, q \in DOMAIN map : f[p] = f[q] => p = q
  OBVIOUS
<1>4. IsFiniteSet(T)
  BY <1>1
<1> HIDE DEF f, T
<1> QED BY <1>2, <1>3, <1>4, SameSize

\* The framebuffers that OpenGL has are those of the render buffers.
LEMMA NoFramebufferLeaks ==
  ASSUME DriverTypes, FramebuffersInv, NEW fbos,
         fbos = {p \in alive.buffer \X Contexts : render_buffer_map[p[1]].fbo[p[2]] # 0}
  PROVE  /\ DOMAIN gl.framebuffers = {<<p[2], render_buffer_map[p[1]].fbo[p[2]]>> : p \in fbos}
         /\ Cardinality(DOMAIN gl.framebuffers) = Cardinality(fbos)
<1>1. \A q \in DOMAIN gl.framebuffers : q = <<q[1], q[2]>> /\ q[1] = Window /\ q[2] # 0
  BY EntryTypes DEF FramebuffersInv
<1>2. ASSUME NEW p \in fbos
      PROVE  /\ p[1] \in alive.buffer /\ p[2] = Window /\ p = <<p[1], p[2]>>
             /\ render_buffer_map[p[1]].fbo[Window] # 0
             /\ <<Window, render_buffer_map[p[1]].fbo[Window]>> \in DOMAIN gl.framebuffers
  <2>1. /\ p[1] \in alive.buffer /\ p[2] \in Contexts /\ p = <<p[1], p[2]>>
        /\ render_buffer_map[p[1]].fbo[p[2]] # 0
    OBVIOUS
  <2>2. p[2] = Window
    BY <2>1, NothingTypes DEF FramebuffersInv
  <2> QED BY <2>1, <2>2 DEF FramebuffersInv
<1>3. ASSUME NEW q \in DOMAIN gl.framebuffers
      PROVE  \E p \in fbos : q = <<p[2], render_buffer_map[p[1]].fbo[p[2]]>>
  <2>1. PICK b \in alive.buffer : render_buffer_map[b].fbo[Window] = q[2]
    BY DEF FramebuffersInv
  <2> DEFINE p == <<b, Window>>
  <2>2. p \in alive.buffer \X Contexts /\ p[1] = b /\ p[2] = Window
    BY NothingTypes
  <2> HIDE DEF p
  <2>3. p \in fbos
    BY <1>1, <2>1, <2>2
  <2>4. q = <<p[2], render_buffer_map[p[1]].fbo[p[2]]>>
    BY <1>1, <2>1, <2>2
  <2> QED BY <2>3, <2>4
<1>4. DOMAIN gl.framebuffers = {<<p[2], render_buffer_map[p[1]].fbo[p[2]]>> : p \in fbos}
  <2>1. \A p \in fbos : <<p[2], render_buffer_map[p[1]].fbo[p[2]]>> \in DOMAIN gl.framebuffers
    BY <1>2
  <2>2. \A q \in DOMAIN gl.framebuffers : \E p \in fbos : q = <<p[2], render_buffer_map[p[1]].fbo[p[2]]>>
    BY <1>3
  <2> DEFINE image == {<<p[2], render_buffer_map[p[1]].fbo[p[2]]>> : p \in fbos}
  <2>3. image \subseteq DOMAIN gl.framebuffers
    BY <2>1
  <2>4. DOMAIN gl.framebuffers \subseteq image
    BY <2>2
  <2> HIDE DEF image
  <2>5. DOMAIN gl.framebuffers = image
    BY <2>3, <2>4
  <2> QED BY <2>5 DEF image
<1> DEFINE f == [p \in fbos |-> <<p[2], render_buffer_map[p[1]].fbo[p[2]]>>]
<1>5. f \in [fbos -> DOMAIN gl.framebuffers]
  BY <1>2
<1>6. \A q \in DOMAIN gl.framebuffers : \E p \in fbos : f[p] = q
  BY <1>3
<1>7. \A p, r \in fbos : f[p] = f[r] => p = r
  <2> SUFFICES ASSUME NEW p \in fbos, NEW r \in fbos, f[p] = f[r]
               PROVE  p = r
    OBVIOUS
  <2>1. <<Window, render_buffer_map[p[1]].fbo[Window]>> = <<Window, render_buffer_map[r[1]].fbo[Window]>>
    BY <1>2
  <2>2. render_buffer_map[p[1]].fbo[Window] = render_buffer_map[r[1]].fbo[Window]
    BY <2>1
  <2>3. p[1] = r[1]
    BY <1>2, <2>2 DEF FramebuffersInv
  <2> QED BY <1>2, <2>3
<1>8. IsFiniteSet(DOMAIN gl.framebuffers)
  BY <1>1, NamesOfOneContext DEF FramebuffersInv
<1> HIDE DEF f
<1>9. Cardinality(fbos) = Cardinality(DOMAIN gl.framebuffers)
  BY <1>5, <1>6, <1>7, <1>8, SameSize
<1> QED BY <1>4, <1>9

\* The vertex arrays that OpenGL has are those of the geometries.
LEMMA NoArrayLeaks ==
  ASSUME DriverTypes, ArraysInv, NEW vaos,
         vaos = {p \in Geometries \X Contexts : geometry_map[p[1]].vao[p[2]] # 0}
  PROVE  /\ DOMAIN gl.arrays = {<<p[2], geometry_map[p[1]].vao[p[2]]>> : p \in vaos}
         /\ Cardinality(DOMAIN gl.arrays) = Cardinality(vaos)
<1> HIDE DEF Geometries
<1>1. \A q \in DOMAIN gl.arrays : q = <<q[1], q[2]>> /\ q[1] = Window /\ q[2] # 0
  BY EntryTypes DEF ArraysInv
<1>2. ASSUME NEW p \in vaos
      PROVE  /\ p[1] \in Geometries /\ p[2] = Window /\ p = <<p[1], p[2]>>
             /\ geometry_map[p[1]].vao[Window] # 0
             /\ <<Window, geometry_map[p[1]].vao[Window]>> \in DOMAIN gl.arrays
  <2>1. /\ p[1] \in Geometries /\ p[2] \in Contexts /\ p = <<p[1], p[2]>>
        /\ geometry_map[p[1]].vao[p[2]] # 0
    OBVIOUS
  <2>2. p[2] = Window
    BY <2>1, NothingTypes DEF ArraysInv
  <2> QED BY <2>1, <2>2 DEF ArraysInv
<1>3. ASSUME NEW q \in DOMAIN gl.arrays
      PROVE  \E p \in vaos : q = <<p[2], geometry_map[p[1]].vao[p[2]]>>
  <2>1. PICK g \in Geometries : geometry_map[g].vao[Window] = q[2]
    BY DEF ArraysInv
  <2> DEFINE p == <<g, Window>>
  <2>2. p \in Geometries \X Contexts /\ p[1] = g /\ p[2] = Window
    BY NothingTypes
  <2> HIDE DEF p
  <2>3. p \in vaos
    BY <1>1, <2>1, <2>2
  <2>4. q = <<p[2], geometry_map[p[1]].vao[p[2]]>>
    BY <1>1, <2>1, <2>2
  <2> QED BY <2>3, <2>4
<1>4. DOMAIN gl.arrays = {<<p[2], geometry_map[p[1]].vao[p[2]]>> : p \in vaos}
  <2>1. \A p \in vaos : <<p[2], geometry_map[p[1]].vao[p[2]]>> \in DOMAIN gl.arrays
    BY <1>2
  <2>2. \A q \in DOMAIN gl.arrays : \E p \in vaos : q = <<p[2], geometry_map[p[1]].vao[p[2]]>>
    BY <1>3
  <2> DEFINE image == {<<p[2], geometry_map[p[1]].vao[p[2]]>> : p \in vaos}
  <2>3. image \subseteq DOMAIN gl.arrays
    BY <2>1
  <2>4. DOMAIN gl.arrays \subseteq image
    BY <2>2
  <2> HIDE DEF image
  <2>5. DOMAIN gl.arrays = image
    BY <2>3, <2>4
  <2> QED BY <2>5 DEF image
<1> DEFINE f == [p \in vaos |-> <<p[2], geometry_map[p[1]].vao[p[2]]>>]
<1>5. f \in [vaos -> DOMAIN gl.arrays]
  BY <1>2
<1>6. \A q \in DOMAIN gl.arrays : \E p \in vaos : f[p] = q
  BY <1>3
<1>7. \A p, r \in vaos : f[p] = f[r] => p = r
  <2> SUFFICES ASSUME NEW p \in vaos, NEW r \in vaos, f[p] = f[r]
               PROVE  p = r
    OBVIOUS
  <2>1. <<Window, geometry_map[p[1]].vao[Window]>> = <<Window, geometry_map[r[1]].vao[Window]>>
    BY <1>2
  <2>2. geometry_map[p[1]].vao[Window] = geometry_map[r[1]].vao[Window]
    BY <2>1
  <2>3. p[1] = r[1]
    BY <1>2, <2>2 DEF ArraysInv
  <2> QED BY <1>2, <2>3
<1>8. IsFiniteSet(DOMAIN gl.arrays)
  BY <1>1, NamesOfOneContext DEF ArraysInv
<1> HIDE DEF f
<1>9. Cardinality(vaos) = Cardinality(DOMAIN gl.arrays)
  BY <1>5, <1>6, <1>7, <1>8, SameSize
<1> QED BY <1>4, <1>9

\* Every object that OpenGL has is of one object of the library, in both directions and
\* in equal number.
THEOREM NothingLeaks ==
  Spec => []NoLeak
<1>1. ASSUME IInv PROVE NoLeak
  <2>1. /\ DriverTypes /\ TexturesInv /\ BuffersInv /\ FramebuffersInv /\ ArraysInv
    BY <1>1 DEF IInv, TypesInv, NamesInv
  <2> QED BY <2>1, NoTextureLeaks, NoBufferLeaks, NoFramebufferLeaks, NoArrayLeaks DEF NoLeak
<1> QED BY <1>1, IInvHolds, PTL

=============================================================================
