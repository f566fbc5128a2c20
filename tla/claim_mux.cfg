SPECIFICATION Spec
CONSTANTS
  Flag = {"streaming"}
  Client = {c1}
  SSEBase <- ExampleBase
INVARIANT Mountable
