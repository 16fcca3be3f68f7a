------------------------------- MODULE Shader -------------------------------
(***************************************************************************)
(* Shader (shader.cpp): objects that own a program of OpenGL, load it from *)
(* two files, load it again, set its uniforms and delete it, with the ways *)
(* a load can fail: in the compilation of either shader and in the link.   *)
(* A load goes step by step, and nothing else happens meanwhile: all of    *)
(* this is done by the one thread that has the context.                    *)
(*                                                                         *)
(* OpenGL gives out the names of programs again once they are deleted.  A  *)
(* program deleted while in use lives on until another one is used, and a  *)
(* shader deleted while attached to a program until that program goes; one *)
(* that is not deleted is left when its program goes.  A file holds a      *)
(* source, broken or not, or is not there, which leaves the source empty;  *)
(* what a driver says of an empty source is its own choice, but no program *)
(* of it links.                                                            *)
(***************************************************************************)
EXTENDS Naturals, FiniteSets

CONSTANTS
  Shader,       \* the objects
  Name,         \* names OpenGL gives out to programs
  Source,       \* sources that compile
  Uniform, Setting, NoSetting, Nobody,
  NoFile,       \* what a file that is not there holds
  Broken,       \* what a file that does not compile holds
  Match(_, _),       \* whether two sources link
  Location(_, _, _)  \* the location of a uniform in the program of two sources

ASSUME ShaderAssumption ==
  /\ 0 \notin Name /\ NoFile \notin Source /\ Broken \notin Source
  /\ NoFile # Broken /\ NoSetting \notin Setting /\ Nobody \notin Shader
  /\ \A vs, fs \in Source : \A u, w \in Uniform :   \* each has its own location
       Location(vs, fs, u) = Location(vs, fs, w) => u = w

VARIABLES
  m_id,         \* of each object; 0 without a program
  loose,        \* the kinds of shaders that are neither deleted nor attached
  programs,     \* programs, by name: [vs, fs, kept, linked, uniforms], where
                \* kept are the kinds of its shaders that are not deleted
  doomed,       \* programs deleted while in use
  current,      \* the program in use, or 0
  loading,      \* the load that is running
  user,         \* history: the object whose use() came last, if it still holds
  asked         \* history: the uniforms set in the program of each object

shaderVars == <<m_id, loose, programs, doomed, current, loading, user, asked>>

FileContent == Source \union {NoFile, Broken}
Kind == {"vertex", "fragment"}   \* of shaders
Idle == [step |-> "idle"]
Without(f, gone) == [x \in DOMAIN f \ gone |-> f[x]]
Linked(f, id, program) == [x \in DOMAIN f \union {id} |-> IF x = id THEN program ELSE f[x]]

(* Whether the driver compiles a source.                                   *)
MayCompile(source, success) ==
  \/ source \in Source /\ success
  \/ source = Broken /\ ~success
  \/ source = NoFile

(* glCreateShader, and glDeleteShader of shaders that no program has.      *)
CreateShader(kind) == loose' = loose \union {kind}
DeleteShaders(kinds) == loose' = loose \ kinds

(* A program goes, and the shaders that were deleted go with it.           *)
Remove(id) ==
  /\ programs' = Without(programs, {id})
  /\ loose' = loose \union programs[id].kept

(* glDeleteProgram and glUseProgram.                                       *)
DeleteProgram(id) ==
  IF id = current THEN doomed' = doomed \union {id} /\ UNCHANGED <<loose, programs>>
  ELSE Remove(id) /\ UNCHANGED doomed
MakeCurrent(id) ==
  /\ current' = id
  /\ doomed' = doomed \ {current}
  /\ IF current \in doomed THEN Remove(current) ELSE UNCHANGED <<loose, programs>>

NoUniforms == [u \in Uniform |-> NoSetting]

ShaderInit ==
  /\ m_id = [s \in Shader |-> 0]
  /\ loose = {} /\ programs = <<>> /\ doomed = {} /\ current = 0
  /\ loading = Idle
  /\ user = Nobody /\ asked = [s \in Shader |-> NoUniforms]

(* Mutant: the old program goes before the new shaders are compiled.       *)
StartDeletingOld(s, vs, fs) ==
  /\ programs' = Without(programs, {m_id[s]})
  /\ CreateShader("vertex")
  /\ loading' = [step |-> "vertex", s |-> s, vs |-> vs, fs |-> fs]
  /\ UNCHANGED <<m_id, doomed, current, user, asked>>

(* load() reads the files and creates the vertex shader.                   *)
StartLoad(s, vs, fs) ==
  /\ CreateShader("vertex")
  /\ loading' = [step |-> "vertex", s |-> s, vs |-> vs, fs |-> fs]
  /\ UNCHANGED <<m_id, programs, doomed, current, user, asked>>

(* load() throws, and the object keeps its program.                        *)
GiveUp ==
  /\ loading' = Idle
  /\ UNCHANGED <<m_id, programs, doomed, current, user, asked>>

VertexFails ==
  /\ loading.step = "vertex"
  /\ MayCompile(loading.vs, FALSE)
  /\ DeleteShaders({"vertex"})
  /\ GiveUp

(* The vertex shader compiles, and the fragment shader is created.         *)
VertexCompiles ==
  /\ loading.step = "vertex"
  /\ MayCompile(loading.vs, TRUE)
  /\ CreateShader("fragment")
  /\ loading' = [loading EXCEPT !.step = "fragment"]
  /\ UNCHANGED <<m_id, programs, doomed, current, user, asked>>

(* Mutant: the vertex shader is forgotten on the way out.                  *)
FragmentFailsLeaking ==
  /\ loading.step = "fragment"
  /\ MayCompile(loading.fs, FALSE)
  /\ DeleteShaders({"fragment"})
  /\ GiveUp

FragmentFails ==
  /\ loading.step = "fragment"
  /\ MayCompile(loading.fs, FALSE)
  /\ DeleteShaders(Kind)
  /\ GiveUp

(* The program of the sources, with the shaders there are attached.        *)
NewProgram ==
  [vs |-> loading.vs, fs |-> loading.fs, kept |-> Kind, uniforms |-> NoUniforms,
   linked |-> {loading.vs, loading.fs} \subseteq Source /\ Match(loading.vs, loading.fs)]

(* Mutant: the object's old program is not deleted.                        *)
LinkKeepingOld ==
  /\ loading.step = "fragment"
  /\ MayCompile(loading.fs, TRUE)
  /\ \E id \in Name \ DOMAIN programs :
       /\ m_id' = [m_id EXCEPT ![loading.s] = id]
       /\ programs' = Linked(programs, id, NewProgram)
  /\ DeleteShaders(Kind)
  /\ asked' = [asked EXCEPT ![loading.s] = NoUniforms]
  /\ user' = IF user = loading.s THEN Nobody ELSE user
  /\ loading' = [loading EXCEPT !.step = "linked"]
  /\ UNCHANGED <<current, doomed>>

(* Both compile.  The old program is deleted first, so that the new one    *)
(* may get its name; whether it links or not the object has it.            *)
Link ==
  LET s == loading.s
      old == {m_id[s]} \ {0}
      gone == old \ {current}
  IN  /\ loading.step = "fragment"
      /\ MayCompile(loading.fs, TRUE)
      /\ \E id \in Name \ (DOMAIN programs \ gone) :
           /\ m_id' = [m_id EXCEPT ![s] = id]
           /\ programs' = Linked(Without(programs, gone), id, NewProgram)
      /\ loose' = (loose \ Kind) \union UNION {programs[p].kept : p \in gone}
      /\ doomed' = doomed \union (old \intersect {current})
      /\ asked' = [asked EXCEPT ![s] = NoUniforms]
      /\ user' = IF user = s THEN Nobody ELSE user
      /\ loading' = [loading EXCEPT !.step = "linked"]
      /\ UNCHANGED current

(* The two shaders are deleted while attached, and load() returns or, if   *)
(* they did not link, throws.                                              *)
FinishLoad ==
  /\ loading.step = "linked"
  /\ programs' = [programs EXCEPT ![m_id[loading.s]].kept = {}]
  /\ loading' = Idle
  /\ UNCHANGED <<m_id, loose, doomed, current, user, asked>>

(* The destructor, and a new object in the place of the old.               *)
Replace(s) ==
  /\ m_id[s] # 0
  /\ DeleteProgram(m_id[s])
  /\ m_id' = [m_id EXCEPT ![s] = 0]
  /\ asked' = [asked EXCEPT ![s] = NoUniforms]
  /\ user' = IF user = s THEN Nobody ELSE user
  /\ UNCHANGED <<current, loading>>

(* use(), of objects whose load did not throw.                             *)
Use(s) ==
  /\ m_id[s] # 0 /\ programs[m_id[s]].linked
  /\ MakeCurrent(m_id[s])
  /\ user' = s
  /\ UNCHANGED <<m_id, loading, asked>>

(* glUseProgram(0), as the callers leave it.                               *)
UseNone ==
  /\ MakeCurrent(0)
  /\ user' = Nobody
  /\ UNCHANGED <<m_id, loading, asked>>

At(p, u) == Location(programs[p].vs, programs[p].fs, u)

(* Mutant: the location is looked up as in any other program.              *)
WriteElsewhere(s, u, value) ==
  programs' = [programs EXCEPT ![current].uniforms =
                 [w \in Uniform |-> IF At(current, w) # At(m_id[s], u) THEN value
                                    ELSE @[w]]]

(* glUniform changes the program in use, at the location that              *)
(* glGetUniformLocation finds in the program of the object.                *)
WriteUniform(s, u, value) ==
  programs' = [programs EXCEPT ![current].uniforms =
                 [w \in Uniform |-> IF At(current, w) = At(m_id[s], u) THEN value
                                    ELSE @[w]]]

(* The setters, called on the object used last.                            *)
Set(s, u, value) ==
  /\ user = s
  /\ WriteUniform(s, u, value)
  /\ asked' = [asked EXCEPT ![s][u] = value]
  /\ UNCHANGED <<m_id, loose, doomed, current, loading, user>>

Between ==
  \/ \E s \in Shader, vs, fs \in FileContent : StartLoad(s, vs, fs)
  \/ \E s \in Shader : Replace(s)
  \/ \E s \in Shader : Use(s)
  \/ UseNone
  \/ \E s \in Shader, u \in Uniform, value \in Setting : Set(s, u, value)

ShaderNext ==
  \/ loading = Idle /\ Between
  \/ VertexFails
  \/ VertexCompiles
  \/ FragmentFails
  \/ Link
  \/ FinishLoad

ShaderSpec == ShaderInit /\ [][ShaderNext]_shaderVars
-----------------------------------------------------------------------------
ShaderTypeOK ==
  /\ m_id \in [Shader -> Name \union {0}]
  /\ loose \subseteq Kind
  /\ DOMAIN programs \subseteq Name
  /\ \A p \in DOMAIN programs :
       programs[p] \in [vs : Source \union {NoFile}, fs : Source \union {NoFile},
                        kept : SUBSET Kind, linked : BOOLEAN,
                        uniforms : [Uniform -> Setting \union {NoSetting}]]
  /\ {m_id[s] : s \in Shader} \union {current} \subseteq DOMAIN programs \union {0}
  /\ \/ loading = Idle
     \/ loading \in [step : {"vertex", "fragment", "linked"}, s : Shader,
                     vs : FileContent, fs : FileContent]
  /\ user # Nobody => current = m_id[user] /\ current # 0
  /\ asked \in [Shader -> [Uniform -> Setting \union {NoSetting}]]

(* However the loads end, no shader is left behind: when no load runs,     *)
(* those there are were deleted and will go with their program.  And       *)
(* OpenGL has exactly the programs the objects own, each its own, and the  *)
(* one that was deleted while in use (load, ~Shader).                      *)
NothingLeaks ==
  /\ loading = Idle => loose = {} /\ \A p \in DOMAIN programs : programs[p].kept = {}
  /\ DOMAIN programs = ({m_id[s] : s \in Shader} \ {0}) \union doomed
  /\ doomed \subseteq {current} /\ doomed \intersect {m_id[s] : s \in Shader} = {}
  /\ \A s, t \in Shader : m_id[s] = m_id[t] /\ m_id[s] # 0 => s = t

(* Each program has the uniforms that were set through its own object,     *)
(* though the setters write to whichever program is in use.                *)
UniformsAsAsked ==
  \A s \in Shader : m_id[s] # 0 => programs[m_id[s]].uniforms = asked[s]
=============================================================================
