----------------------------- MODULE GPUDriverGL -----------------------------
(* UIEngine::GPUDriverGL: the library that renders web pages names its       *)
(* textures, render buffers and geometries by ids; the driver keeps, for     *)
(* each id, the OpenGL objects that stand for it.  Two OpenGL contexts are   *)
(* in use, a hidden one in which the library renders and the one of the      *)
(* window.  They share textures and buffers; framebuffers and vertex arrays  *)
(* belong to one context, so the driver makes them when they are first       *)
(* needed in it and remembers them.  OpenGL takes a name that is not valid   *)
(* for no object.                                                            *)
(*                                                                           *)
(* Pixels and vertices are left out, and with them UpdateTexture and         *)
(* UpdateGeometry, which replace the contents of objects that stay; so are   *)
(* multisampling, which Engine switches off, and the bitmaps of the          *)
(* offscreen mode, which nobody sets.                                        *)
EXTENDS Naturals, Sequences, FiniteSets

VARIABLES
  texture_map,        \* texture id -> its OpenGL name, its render buffer
  render_buffer_map,  \* render buffer id -> its texture's id, its framebuffers
  geometry_map,       \* geometry id -> its two buffers, its vertex arrays
  command_list,       \* command_list_
  next_id,            \* next_texture_id_, next_render_buffer_id_, next_geometry_id_
  context,            \* the current context
  gl                  \* the objects that OpenGL has

driverMaps == <<texture_map, render_buffer_map, geometry_map>>
driverVars == <<driverMaps, command_list, next_id, context, gl>>

Contexts == {"render", "window"}

\* Entries as operator[] of the maps makes them; 0 is no name.
NoTexture  == [tex |-> 0, buffer |-> 0]
NoBuffer   == [texture |-> 0, fbo |-> [c \in Contexts |-> 0]]
NoGeometry == [vertices |-> 0, indices |-> 0, vao |-> [c \in Contexts |-> 0]]

At(map, id, default) == IF id \in DOMAIN map THEN map[id] ELSE default
Drop(map, id)        == [i \in DOMAIN map \ {id} |-> map[i]]
Put(map, id, entry)  == [i \in DOMAIN map \cup {id} |-> IF i = id THEN entry ELSE map[i]]

\* OpenGL gives out the least name that is free.
FreshName(used) ==
  CHOOSE n \in 1..Cardinality(used) + 1 :
    n \notin used /\ \A m \in 1..n - 1 : m \in used

DriverInit ==
  /\ texture_map = <<>> /\ render_buffer_map = <<>> /\ geometry_map = <<>>
  /\ command_list = <<>>
  /\ next_id = [texture |-> 1, buffer |-> 1, geometry |-> 1]
  /\ context = "render"
  /\ gl = [textures |-> {}, buffers |-> {}, framebuffers |-> <<>>, arrays |-> <<>>]

-----------------------------------------------------------------------------
(* What the library calls while it renders.                                 *)

\* NextTextureId and CreateTexture, with pixels or as the target of a buffer.
CreateTexture ==
  LET id == next_id.texture
      n  == FreshName(gl.textures)
  IN  /\ next_id' = [next_id EXCEPT !.texture = @ + 1]
      /\ texture_map' = Put(texture_map, id, [At(texture_map, id, NoTexture) EXCEPT !.tex = n])
      /\ gl' = [gl EXCEPT !.textures = @ \cup {n}]
      /\ UNCHANGED <<render_buffer_map, geometry_map, command_list, context>>

\* The entry stays, with the name that is no longer valid.
DestroyTexture(id) ==
  /\ gl' = [gl EXCEPT !.textures = @ \ {At(texture_map, id, NoTexture).tex}]
  /\ UNCHANGED <<driverMaps, command_list, next_id, context>>

\* NextRenderBufferId and CreateRenderBuffer on texture t.
CreateRenderBuffer(t) ==
  LET id == next_id.buffer
  IN  /\ next_id' = [next_id EXCEPT !.buffer = @ + 1]
      /\ render_buffer_map' =
           Put(render_buffer_map, id, [At(render_buffer_map, id, NoBuffer) EXCEPT !.texture = t])
      /\ texture_map' = Put(texture_map, t, [At(texture_map, t, NoTexture) EXCEPT !.buffer = id])
      /\ UNCHANGED <<geometry_map, command_list, context, gl>>

\* Mutant: only the framebuffer of the current context is deleted.
DestroyRenderBufferHere(id) ==
  LET fbo == render_buffer_map[id].fbo
  IN  /\ gl' = [gl EXCEPT !.framebuffers = Drop(@, <<context, fbo[context]>>)]
      /\ render_buffer_map' = Drop(render_buffer_map, id)
      /\ UNCHANGED <<texture_map, geometry_map, command_list, next_id, context>>

\* Framebuffers and vertex arrays are named in their own context, which is made
\* current to delete them; the context that was current before is current again
\* afterwards.
DestroyRenderBuffer(id) ==
  LET previous_context == context
      fbo == At(render_buffer_map, id, NoBuffer).fbo
  IN  /\ gl' = [gl EXCEPT !.framebuffers =
                  [p \in DOMAIN @ \ {<<c, fbo[c]>> : c \in Contexts} |-> @[p]]]
      /\ render_buffer_map' = Drop(render_buffer_map, id)
      /\ context' = previous_context
      /\ UNCHANGED <<texture_map, geometry_map, command_list, next_id>>

\* NextGeometryId and CreateGeometry.
CreateGeometry ==
  LET id == next_id.geometry
      v  == FreshName(gl.buffers)
      i  == FreshName(gl.buffers \cup {v})
  IN  /\ next_id' = [next_id EXCEPT !.geometry = @ + 1]
      /\ geometry_map' = Put(geometry_map, id, [NoGeometry EXCEPT !.vertices = v, !.indices = i])
      /\ gl' = [gl EXCEPT !.buffers = @ \cup {v, i}]
      /\ UNCHANGED <<texture_map, render_buffer_map, command_list, context>>

\* Both buffers are deleted, then the vertex array of every context.
DestroyGeometry(id) ==
  LET previous_context == context
      geometry == At(geometry_map, id, NoGeometry)
  IN  /\ gl' = [gl EXCEPT !.buffers = @ \ {geometry.vertices, geometry.indices},
                          !.arrays = [p \in DOMAIN @ \ {<<c, geometry.vao[c]>> : c \in Contexts} |-> @[p]]]
      /\ geometry_map' = Drop(geometry_map, id)
      /\ context' = previous_context
      /\ UNCHANGED <<texture_map, render_buffer_map, command_list, next_id>>

\* The list replaces the one before; an empty list changes nothing.
UpdateCommandList(list) ==
  /\ command_list' = IF list = <<>> THEN command_list ELSE list
  /\ UNCHANGED <<driverMaps, next_id, context, gl>>

HasCommandsPending == command_list # <<>>

-----------------------------------------------------------------------------
(* Drawing.  Every operation makes the driver's _window current first.      *)

Window == "window"

\* CreateFBOIfNeededForActiveContext has something to do.
NeedsFBO(buffer) == buffer # 0 /\ render_buffer_map[buffer].fbo[Window] = 0

\* It gives up (FATAL): there is no such render buffer, or the framebuffer is not
\* complete because its texture is gone.
CannotBind(buffer) ==
  /\ buffer # 0
  /\ \/ buffer \notin DOMAIN render_buffer_map
     \/ /\ NeedsFBO(buffer)
        /\ At(texture_map, render_buffer_map[buffer].texture, NoTexture).tex \notin gl.textures

\* Names used in the window's context, of objects that contexts do not share.
OwnNames(objects) == {p[2] : p \in {q \in DOMAIN objects : q[1] = Window}}

\* BindRenderBuffer: the framebuffers, and the render buffers, afterwards.
BoundFramebuffers(buffer) ==
  IF NeedsFBO(buffer)
  THEN Put(gl.framebuffers, <<Window, FreshName(OwnNames(gl.framebuffers))>>,
           texture_map[render_buffer_map[buffer].texture].tex)
  ELSE gl.framebuffers

BoundBuffers(buffer) ==
  IF NeedsFBO(buffer)
  THEN [render_buffer_map EXCEPT ![buffer].fbo[Window] = FreshName(OwnNames(gl.framebuffers))]
  ELSE render_buffer_map

ClearRenderBuffer(buffer) ==
  /\ ~CannotBind(buffer)
  /\ context' = Window
  /\ render_buffer_map' = BoundBuffers(buffer)
  /\ gl' = [gl EXCEPT !.framebuffers = BoundFramebuffers(buffer)]
  /\ UNCHANGED <<texture_map, geometry_map, next_id>>

\* CreateVAOIfNeededForActiveContext has something to do.
NeedsVAO(id) == At(geometry_map, id, NoGeometry).vao[Window] = 0

\* Texture units that are not used are bound to texture 0, and the render
\* buffer's entry is looked up whatever its id: both make entries.
DrawGeometry(id, buffer, texture) ==
  LET geometry == At(geometry_map, id, NoGeometry)
      array    == FreshName(OwnNames(gl.arrays))
  IN  /\ ~CannotBind(buffer)
      /\ context' = Window
      /\ render_buffer_map' =
           Put(BoundBuffers(buffer), buffer, At(BoundBuffers(buffer), buffer, NoBuffer))
      /\ geometry_map' =
           Put(geometry_map, id,
               IF NeedsVAO(id) THEN [geometry EXCEPT !.vao[Window] = array] ELSE geometry)
      /\ texture_map' = Put(Put(texture_map, 0, At(texture_map, 0, NoTexture)),
                            texture, At(texture_map, texture, NoTexture))
      /\ gl' = [gl EXCEPT !.framebuffers = BoundFramebuffers(buffer),
                          !.arrays = IF NeedsVAO(id)
                                     THEN Put(@, <<Window, array>>, <<geometry.vertices, geometry.indices>>)
                                     ELSE @]
      /\ UNCHANGED next_id

=============================================================================
