------------------------------ MODULE UIWindow ------------------------------
(* UIEngine::UIWindow::run and Engine: one thread that, again and again,     *)
(* lets the library render, draws what it asked for, draws its result on the *)
(* window, and polls for events.                                             *)
(*                                                                           *)
(* The library is outside the repository.  It is taken to refer only to      *)
(* objects it has created and not destroyed; to submit at most one list of   *)
(* commands in a Render, since UpdateCommandList would overwrite a first one *)
(* that is not drawn yet; and to destroy nothing that this list names before *)
(* Render returns.                                                           *)
EXTENDS GPUDriverGL

CONSTANTS
  MaxTextures, MaxBuffers, MaxGeometries,  \* bounds: objects the library creates
  MaxCommands,                             \* bound: commands in a list
  MaxLists                                 \* bound: lists it submits

ASSUME UIBoundsAssumption ==
  {MaxTextures, MaxBuffers, MaxGeometries, MaxCommands, MaxLists} \subseteq Nat

VARIABLES
  at,         \* where the thread is in run()
  cursor,     \* how much of the command list DrawCommandList has executed
  engine,     \* Engine: _geometry_id, and the texture of the view as first seen
  target,     \* library: the texture that the view is rendered to
  alive,      \* library: the objects it has not destroyed
  lists,      \* history: number of lists submitted
  submitted,  \* history: number of commands submitted
  drawn       \* history: number of commands executed

libraryVars == <<target, alive, lists, submitted>>
uiVars == <<driverVars, at, cursor, engine, libraryVars, drawn>>

Labels == {"repaint", "render", "submitted", "check", "draw", "window", "poll", "closed"}

Init ==
  /\ DriverInit
  /\ at = "repaint" /\ cursor = 0
  /\ engine = [geometry |-> 0, texture |-> 0]
  /\ target = 0
  /\ alive = [texture |-> {}, buffer |-> {}, geometry |-> {}]
  /\ lists = 0 /\ submitted = 0 /\ drawn = 0

Goto(label) == at' = label

-----------------------------------------------------------------------------
(* Engine::Render: what the library does with the driver.                   *)

\* Repaint makes the hidden context current; Update does not use the driver.
StartRender ==
  /\ at = "repaint"
  /\ context' = "render"
  /\ Goto("render")
  /\ UNCHANGED <<driverMaps, command_list, next_id, gl, cursor, engine, libraryVars, drawn>>

\* The library is rendering, and has submitted its list or not yet.
Rendering == at \in {"render", "submitted"}

LibraryCreates ==
  /\ Rendering
  /\ \/ /\ next_id.texture <= MaxTextures
        /\ CreateTexture
        /\ alive' = [alive EXCEPT !.texture = @ \cup {next_id.texture}]
        /\ UNCHANGED target
     \/ /\ next_id.geometry <= MaxGeometries
        /\ CreateGeometry
        /\ alive' = [alive EXCEPT !.geometry = @ \cup {next_id.geometry}]
        /\ UNCHANGED target
     \/ /\ next_id.buffer <= MaxBuffers
        /\ \E t \in alive.texture :
             /\ texture_map[t].buffer = 0
             /\ CreateRenderBuffer(t)
             \* The first render buffer is the one of the view.
             /\ target' = IF target = 0 THEN t ELSE target
        /\ alive' = [alive EXCEPT !.buffer = @ \cup {next_id.buffer}]
  /\ UNCHANGED <<at, cursor, engine, lists, submitted, drawn>>

\* What the commands that wait to be drawn name.
Named ==
  LET commands == {command_list[i] : i \in DOMAIN command_list}
      buffers  == {c.buffer : c \in commands}
  IN  [texture  |-> {c.texture : c \in commands} \cup {render_buffer_map[b].texture : b \in buffers},
       buffer   |-> buffers,
       geometry |-> {c.geometry : c \in commands}]

\* What the library may destroy.
Disposable(kind) ==
  IF at = "submitted" THEN alive[kind] \ Named[kind] ELSE alive[kind]

LibraryDestroys ==
  /\ Rendering
  /\ \/ \E t \in Disposable("texture") \ {target} :
          DestroyTexture(t) /\ alive' = [alive EXCEPT !.texture = @ \ {t}]
     \/ \E b \in Disposable("buffer") :
          /\ render_buffer_map[b].texture # target
          /\ DestroyRenderBuffer(b)
          /\ alive' = [alive EXCEPT !.buffer = @ \ {b}]
     \/ \E g \in Disposable("geometry") :
          DestroyGeometry(g) /\ alive' = [alive EXCEPT !.geometry = @ \ {g}]
  /\ UNCHANGED <<at, cursor, engine, target, lists, submitted, drawn>>

\* Render buffers the library may draw on.
Drawable == {b \in alive.buffer : render_buffer_map[b].texture \in alive.texture}

\* Commands are numbered from n.
Commands(n) ==
  [serial : {n}, type : {"draw"}, geometry : alive.geometry, buffer : Drawable,
   texture : alive.texture]
  \cup [serial : {n}, type : {"clear"}, geometry : {0}, buffer : Drawable, texture : {0}]

LibrarySubmits ==
  /\ at = "render"
  /\ \/ UpdateCommandList(<<>>) /\ UNCHANGED <<lists, submitted>>
     \/ /\ lists < MaxLists
        /\ \E n \in 1..MaxCommands :
             \E list \in [1..n -> UNION {Commands(submitted + i) : i \in 1..n}] :
               /\ \A i \in 1..n : list[i].serial = submitted + i
               /\ UpdateCommandList(list)
               /\ submitted' = submitted + n
        /\ lists' = lists + 1
  /\ Goto("submitted")
  /\ UNCHANGED <<cursor, engine, target, alive, drawn>>

\* Render returns.
EndRender ==
  /\ Rendering
  /\ Goto("check")
  /\ UNCHANGED <<driverVars, cursor, engine, libraryVars, drawn>>

-----------------------------------------------------------------------------
(* Repaint, after Render.                                                   *)

\* Mutant: the window is drawn whether there is something new or not.
CheckPendingAlways ==
  /\ at = "check"
  /\ context' = "window" /\ Goto("draw")
  /\ UNCHANGED <<driverMaps, command_list, next_id, gl, cursor, engine, libraryVars, drawn>>

\* Mutant: the window is repainted on demand only.
CheckPendingNever ==
  /\ at = "check"
  /\ Goto("poll")
  /\ UNCHANGED <<driverVars, cursor, engine, libraryVars, drawn>>

\* Whether there is something to draw.  (_need_repaint is never set: the callback
\* that would set it is not registered.)
CheckPending ==
  /\ at = "check"
  /\ IF HasCommandsPending THEN context' = "window" /\ Goto("draw")
                           ELSE UNCHANGED context /\ Goto("poll")
  /\ UNCHANGED <<driverMaps, command_list, next_id, gl, cursor, engine, libraryVars, drawn>>

\* The step of a command.
Execute(c) ==
  IF c.type = "draw" THEN DrawGeometry(c.geometry, c.buffer, c.texture)
                     ELSE ClearRenderBuffer(c.buffer)

\* Mutant: the list is not cleared.
FinishListKept ==
  /\ cursor' = 0 /\ Goto("window")
  /\ UNCHANGED <<driverVars, drawn>>

\* The end of DrawCommandList.
FinishList ==
  /\ command_list' = <<>> /\ cursor' = 0 /\ Goto("window")
  /\ UNCHANGED <<driverMaps, next_id, context, gl, drawn>>

\* DrawCommandList: each command in turn, then the list is cleared.
DrawCommandList ==
  /\ at = "draw"
  /\ \/ /\ cursor < Len(command_list)
        /\ Execute(command_list[cursor + 1])
        /\ cursor' = cursor + 1 /\ drawn' = drawn + 1
        /\ UNCHANGED <<at, command_list>>
     \/ /\ cursor = Len(command_list)
        /\ FinishList
  /\ UNCHANGED <<engine, libraryVars>>

\* Engine::updateGeometry: the first time, a quad is made and the texture of the
\* view remembered for ever.
UpdateGeometry ==
  /\ at = "window" /\ engine.geometry = 0
  /\ engine' = [geometry |-> next_id.geometry, texture |-> target]
  /\ CreateGeometry
  /\ UNCHANGED <<at, cursor, libraryVars, drawn>>

\* Engine::Draw: the quad, with the view's texture, on the window; then the
\* buffers of the window are swapped.
DrawWindow ==
  /\ at = "window" /\ engine.geometry # 0
  /\ DrawGeometry(engine.geometry, 0, engine.texture)
  /\ Goto("poll")
  /\ UNCHANGED <<command_list, cursor, engine, libraryVars, drawn>>

\* glfwPollEvents; the user may close the window.
PollEvents ==
  /\ at = "poll"
  /\ at' \in {"repaint", "closed"}
  /\ UNCHANGED <<driverVars, cursor, engine, libraryVars, drawn>>

Repaint ==
  StartRender \/ EndRender \/ CheckPending \/ DrawCommandList \/ UpdateGeometry \/ DrawWindow

Next == LibraryCreates \/ LibraryDestroys \/ LibrarySubmits \/ Repaint \/ PollEvents

Spec == Init /\ [][Next]_uiVars

\* The thread runs, and the library's Render returns.
Fairness == WF_uiVars(Repaint)

FairSpec == Spec /\ Fairness

-----------------------------------------------------------------------------
(* Properties.                                                              *)

Geometries == alive.geometry \cup ({engine.geometry} \ {0})

\* Nothing leaks and no name stands for two objects: the textures, buffers,
\* framebuffers and vertex arrays that OpenGL has are those of the objects that
\* the library (or Engine) has made and not destroyed, each of one object, in
\* whichever context they were made.  (GPUDriverGL's Destroy functions.)
NoLeak ==
  LET fbos == {p \in alive.buffer \X Contexts : render_buffer_map[p[1]].fbo[p[2]] # 0}
      vaos == {p \in Geometries \X Contexts : geometry_map[p[1]].vao[p[2]] # 0}
  IN  /\ gl.textures = {texture_map[t].tex : t \in alive.texture}
      /\ gl.buffers = UNION {{geometry_map[g].vertices, geometry_map[g].indices} : g \in Geometries}
      /\ DOMAIN gl.framebuffers = {<<p[2], render_buffer_map[p[1]].fbo[p[2]]>> : p \in fbos}
      /\ DOMAIN gl.arrays = {<<p[2], geometry_map[p[1]].vao[p[2]]>> : p \in vaos}
      /\ Cardinality(gl.textures) = Cardinality(alive.texture)
      /\ Cardinality(gl.buffers) = 2 * Cardinality(Geometries)
      /\ Cardinality(DOMAIN gl.framebuffers) = Cardinality(fbos)
      /\ Cardinality(DOMAIN gl.arrays) = Cardinality(vaos)

\* The objects that drawing geometry g on a buffer uses are those it was given:
\* its buffers exist, and its vertex array, once there is one, reads them.
GeometryIsLive(g) ==
  LET entry == geometry_map[g]
  IN  /\ g \in DOMAIN geometry_map
      /\ {entry.vertices, entry.indices} \subseteq gl.buffers
      /\ entry.vao[Window] # 0 =>
           gl.arrays[<<Window, entry.vao[Window]>>] = <<entry.vertices, entry.indices>>

TextureIsLive(t) == t \in DOMAIN texture_map /\ texture_map[t].tex \in gl.textures

\* The render buffer can be bound, and its framebuffer is the one of its texture.
BufferIsLive(b) ==
  /\ ~CannotBind(b)
  /\ ~NeedsFBO(b) =>
       /\ <<Window, render_buffer_map[b].fbo[Window]>> \in DOMAIN gl.framebuffers
       /\ gl.framebuffers[<<Window, render_buffer_map[b].fbo[Window]>>]
            = texture_map[render_buffer_map[b].texture].tex

\* No command is drawn with an object that is gone, although commands name
\* objects by id and are executed after the library has returned, and no command
\* ends the program (the FATALs of CreateFBOIfNeededForActiveContext).
DrawsLiveObjects ==
  at = "draw" /\ cursor < Len(command_list) =>
    LET c == command_list[cursor + 1]
    IN  /\ BufferIsLive(c.buffer)
        /\ c.type = "draw" => GeometryIsLive(c.geometry) /\ TextureIsLive(c.texture)

\* Engine asks for the texture of the view only when it first draws, and keeps
\* the answer: it is the texture that the library renders to, and it is live.
WindowShowsView ==
  engine.geometry # 0 =>
    /\ engine.texture = target
    /\ TextureIsLive(engine.texture)
    /\ GeometryIsLive(engine.geometry)

\* Every command is executed once and in the order of submission: a list that is
\* not drawn yet holds what is submitted and not drawn, and it is drawn before the
\* next Render, whose list would overwrite it.
EachCommandOnce ==
  /\ [i \in 1..Len(command_list) - cursor |-> command_list[cursor + i].serial]
       = [i \in 1..submitted - drawn |-> drawn + i]
  /\ at \notin {"submitted", "check", "draw"} => drawn = submitted

\* What the library submits is drawn.
CommandsAreDrawn ==
  \A n \in 1..MaxLists * MaxCommands : submitted >= n ~> drawn >= n

=============================================================================
