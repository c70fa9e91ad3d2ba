CONSTANTS
  Kinds = {shelly}
  Devices = {d1, d2}
  Unbuildable = {}
  Editors = {e1}
  Env = Env
  None = None
SPECIFICATION IntegrationsSpec
PROPERTY AdoptionAdds
