SPECIFICATION GSpec
CONSTANTS
 Instances = {i1}
 Sessions = {s1, s2}
 Spaces = {p1, p2}
 Fences = {f1}
 Contexts = {c1, c2}
 Machines = {{"OPENGL", "VULKAN"}}
 Null = Null
 Quads = {q1, q2}
 Interval = 1
 MaxTime = 3
 MaxFrames = 1
SYMMETRY HandleSymmetry
INVARIANTS TypeOK HandlesLive HandlesAccounted FrameUsable ContextsReleasable GraphicsAccounted
PROPERTIES FramesSpaced ImplementsFrameStream
