CONSTANTS
    Platforms = {"linux", "android", "osx", "nt4", "dos", "switch"}
    GlxBuilds = {TRUE, FALSE}
    Failing = {"name", "memory", "os", "strings", "uuid", "cpu", "net", "malloc", "XOpenDisplay", "glXChooseVisual", "glXCreateContext"}
    Unnoticed = {"name", "cpu", "strings", "os", "glXCreateContext"}
SPECIFICATION FairSpec
INVARIANTS CleansUp CapTrue
PROPERTY Settles
